--------------------------- MODULE ServicesProofs ---------------------------
(***************************************************************************)
(* What holds of the application's bridge (AppBridge), of the NTRIP client *)
(* (NtripClient), of the command line tool (ClientCmd) and of the DGPS     *)
(* node (DgpsNode) for any number of commands, pending messages, attempts, *)
(* users, recorded lines and lines of the receiver.                        *)
(***************************************************************************)
EXTENDS AppBridge, DgpsNode, ClientCmd, WellFoundedInduction, TLAPS

-----------------------------------------------------------------------------
(* The bridge *)

\* A name is known to the master, in g_nodes and in g_threads and has a thread,
\* or it is none of it.
Agreed(n) ==
  /\ n \in names <=> g_nodes[n] # NoNode
  /\ n \in names <=> n \in g_threads
  /\ n \in names <=> thread[n] # "none"

\* The name that stopCommand has taken: the master forgets it only after the
\* join, and while its thread is there the master has it.
Taken(n) ==
  /\ g_nodes[n] = NoNode /\ n \notin g_threads
  /\ ark.at = "join" => n \in names /\ thread[n] # "none"
  /\ ark.at = "post" => thread[n] = "none"

\* What NodesAgree rests on.
BridgeInv ==
  /\ AbTypeOK /\ messages \in Seq(Op)
  /\ why \notin {"joinable", "unknown"}
  /\ \A n \in Op : ark.at = "loop" \/ n # ark.op => Agreed(n)
  /\ ark.at # "loop" => Taken(ark.op)

\* A message that waits has a wake-up that is still to come: OnAsyncMessage takes
\* all of them, and SendToArkTS asks for it after every push.
MessageWakes == messages # <<>> => wake

LEMMA SendType ==
  ASSUME messages \in Seq(Op), wake \in BOOLEAN, NEW n \in Op, SendToArkTS(n)
  PROVE  messages' \in Seq(Op) /\ wake' \in BOOLEAN
<1>1. CASE callback
  BY <1>1 DEF SendToArkTS
<1>2. CASE ~callback
  BY <1>2 DEF SendToArkTS
<1> QED
  BY <1>1, <1>2

LEMMA QueueType ==
  ASSUME NEW s \in Seq(Op)
  PROVE  \A k \in DOMAIN s : s[k] \in Op
  OBVIOUS

\* One more command within the bound.
LEMMA CommandType ==
  ASSUME commands \in 0..MaxCommands, commands < MaxCommands, commands' = commands + 1
  PROVE  commands' \in 0..MaxCommands
  BY AppBridgeAssumption

\* A node that is made while stopCommand is not under way agrees everywhere, and
\* its thread is never one too many.
LEMMA RunsNodeAgrees ==
  ASSUME BridgeInv, ark.at = "loop", UNCHANGED <<ark, callback>>,
         commands' \in 0..MaxCommands, NEW n \in Op, NEW kind \in {"looped", "once"},
         MakesNode(n), RunsNode(n, kind),
         messages' \in Seq(Op), wake' \in BOOLEAN
  PROVE  BridgeInv'
<1>0. /\ app \in {"up", "exited", "aborted"}
      /\ why \in {"", "refused", "create", "joinable", "unknown", "destroyed"}
      /\ ark \in [at : {"loop", "join", "post"}, op : Op, node : {NoNode, "looped", "once"}]
      /\ callback \in BOOLEAN
      /\ names \subseteq Op /\ g_threads \subseteq Op /\ stopped \subseteq Op
      /\ g_nodes \in [Op -> {NoNode, "looped", "once"}]
      /\ thread \in [Op -> {"none", "ready", "running", "callback", "ended"}]
      /\ \A k \in Op : Agreed(k)
  BY DEF BridgeInv, AbTypeOK
<1>1. n \notin names /\ names' = names \cup {n} /\ n \notin g_threads
  BY <1>0 DEF MakesNode, Agreed
<1>2. /\ g_nodes' = [g_nodes EXCEPT ![n] = kind] /\ g_threads' = g_threads \cup {n}
      /\ stopped' = stopped \ {n} /\ thread' = [thread EXCEPT ![n] = "ready"]
      /\ UNCHANGED <<app, why>>
  BY <1>1 DEF RunsNode
<1>3. \A k \in Op : Agreed(k)'
  BY <1>0, <1>1, <1>2 DEF Agreed, NoNode
<1>4. AbTypeOK'
  <2>1. \A k \in DOMAIN messages' : messages'[k] \in Op
    OBVIOUS
  <2> QED BY <1>0, <1>1, <1>2, <2>1 DEF AbTypeOK
<1> QED
  BY <1>0, <1>2, <1>3, <1>4 DEF BridgeInv

\* An application that ends leaves everything else as it was.
LEMMA AbortAgrees ==
  ASSUME BridgeInv, UNCHANGED <<ark, callback, nodeVars, messages, wake>>,
         commands' \in 0..MaxCommands,
         app' \in {"up", "exited", "aborted"}, why' \in {"", "refused", "create", "destroyed"}
  PROVE  BridgeInv'
<1>1. AbTypeOK'
  BY DEF BridgeInv, AbTypeOK, nodeVars
<1> QED
  BY <1>1 DEF BridgeInv, nodeVars, Agreed, Taken

LEMMA BridgeStep ==
  ASSUME BridgeInv, [AbNext]_abVars
  PROVE  BridgeInv'
<1>0. /\ app \in {"up", "exited", "aborted"}
      /\ why \in {"", "refused", "create", "destroyed"}
      /\ ark \in [at : {"loop", "join", "post"}, op : Op, node : {NoNode, "looped", "once"}]
      /\ callback \in BOOLEAN /\ wake \in BOOLEAN
      /\ names \subseteq Op /\ g_threads \subseteq Op /\ stopped \subseteq Op
      /\ g_nodes \in [Op -> {NoNode, "looped", "once"}]
      /\ thread \in [Op -> {"none", "ready", "running", "callback", "ended"}]
      /\ messages \in Seq(Op) /\ commands \in 0..MaxCommands
  BY DEF BridgeInv, AbTypeOK
<1>1. \A n \in Op : ark.at = "loop" \/ n # ark.op => Agreed(n)
  BY DEF BridgeInv
<1>2. ark.at # "loop" => Taken(ark.op)
  BY DEF BridgeInv
<1>a. ASSUME UNCHANGED <<app, why, names, g_nodes, g_threads>>,
             ark' = ark, callback' \in BOOLEAN, wake' \in BOOLEAN, messages' \in Seq(Op),
             stopped' \subseteq Op, commands' \in 0..MaxCommands,
             thread' \in [Op -> {"none", "ready", "running", "callback", "ended"}],
             \A n \in Op : thread'[n] = "none" <=> thread[n] = "none"
      PROVE  BridgeInv'
  <2>0. \A k \in DOMAIN messages' : messages'[k] \in Op
    BY <1>a, QueueType
  <2>1. AbTypeOK'
    BY <1>0, <1>a, <2>0 DEF AbTypeOK
  <2>2. \A n \in Op : ark'.at = "loop" \/ n # ark'.op => Agreed(n)'
    BY <1>1, <1>a DEF Agreed
  <2>3. (ark.at # "loop" => Taken(ark.op))'
    <3>1. ark.op \in Op /\ (thread'[ark.op] = "none" <=> thread[ark.op] = "none")
      BY <1>0, <1>a
    <3> QED BY <1>2, <1>a, <3>1 DEF Taken
  <2>4. messages' \in Seq(Op) /\ why' \notin {"joinable", "unknown"}
    BY <1>0, <1>a
  <2> QED BY <2>1, <2>2, <2>3, <2>4 DEF BridgeInv
<1>3. CASE RegisterMessageCallback
  BY <1>0, <1>3, <1>a DEF RegisterMessageCallback, nodeVars
<1>4. CASE OnAsyncMessage
  <2>1. messages' = <<>> /\ wake' = FALSE
    BY <1>4 DEF OnAsyncMessage, Drains
  <2>2. <<>> \in Seq(Op)
    OBVIOUS
  <2>3. messages' \in Seq(Op) /\ wake' \in BOOLEAN
    BY <2>1, <2>2
  <2> QED BY <1>0, <1>4, <1>a, <2>3 DEF OnAsyncMessage, nodeVars
<1>5. CASE RunNothing
  <2>1. commands' \in 0..MaxCommands
    BY <1>0, <1>5, CommandType DEF RunNothing
  <2> QED BY <1>0, <1>5, <1>a, <2>1 DEF RunNothing, nodeVars
<1>6. CASE RunCommand
  <2>0. ark.at = "loop" /\ UNCHANGED <<ark, callback>> /\ commands' \in 0..MaxCommands
    BY <1>0, <1>6, CommandType DEF RunCommand
  <2>1. ASSUME NEW n \in Op, NodeRefused(n) \/ CreateFails PROVE BridgeInv'
    BY <2>0, <2>1, AbortAgrees DEF NodeRefused, CreateFails, AppEnds
  <2>2. ASSUME NEW n \in Op, NEW kind \in {"looped", "once"}, MakesNode(n),
               RunsNode(n, kind), UNCHANGED <<messages, wake>> \/ SendToArkTS(n)
        PROVE  BridgeInv'
    <3>1. messages' \in Seq(Op) /\ wake' \in BOOLEAN
      BY <1>0, <2>2, SendType
    <3> QED BY <2>0, <2>2, <3>1, RunsNodeAgrees
  <2>3. \E n \in Op :
          \/ NodeRefused(n) \/ CreateFails
          \/ \E kind \in {"looped", "once"} :
               /\ MakesNode(n) /\ RunsNode(n, kind)
               /\ UNCHANGED <<messages, wake>> \/ SendToArkTS(n)
    BY <1>6 DEF RunCommand, subscribe_and_echo, subscribe_and_record, create_publisher,
                bag_play, Op
  <2> QED BY <2>1, <2>2, <2>3
<1>7. ASSUME NEW n \in Op, ThreadRuns(n) PROVE BridgeInv'
  BY <1>0, <1>7, <1>a DEF ThreadRuns
<1>8. ASSUME NEW n \in Op, CallbackBegins(n) PROVE BridgeInv'
  BY <1>0, <1>8, <1>a DEF CallbackBegins
\* The master knows the node of a callback that runs: a node that stopCommand has
\* taken is still registered while its thread is there.
<1>9. ASSUME NEW n \in Op, CallbackEnds(n) PROVE BridgeInv'
  <2>1. n \in names
    <3>1. thread[n] = "callback"
      BY <1>9 DEF CallbackEnds
    <3>2. CASE ark.at = "loop" \/ n # ark.op
      BY <1>1, <3>1, <3>2 DEF Agreed
    <3>3. CASE ark.at # "loop" /\ n = ark.op
      BY <1>0, <1>2, <3>1, <3>3 DEF Taken
    <3> QED BY <3>2, <3>3
  <2>2. CASE AppEnds("aborted", IF n \in names THEN "create" ELSE "unknown")
             /\ UNCHANGED <<thread, messages, wake>>
    BY <1>0, <1>9, <2>1, <2>2, AbortAgrees DEF CallbackEnds, AppEnds, nodeVars
  <2>3. CASE /\ SendToArkTS(n) /\ thread' = [thread EXCEPT ![n] = "running"]
             /\ UNCHANGED <<app, why>>
    <3>1. messages' \in Seq(Op) /\ wake' \in BOOLEAN
      BY <1>0, <2>3, SendType
    <3>2. thread[n] = "callback" /\ UNCHANGED <<ark, callback, names, g_nodes, g_threads,
                                                stopped, commands>>
      BY <1>9 DEF CallbackEnds
    <3> QED BY <1>0, <1>a, <2>3, <3>1, <3>2
  <2> QED BY <1>9, <2>2, <2>3 DEF CallbackEnds
<1>10. ASSUME NEW n \in Op, ThreadEnds(n) PROVE BridgeInv'
  BY <1>0, <1>10, <1>a DEF ThreadEnds
<1>11. ASSUME NEW n \in Op, StopTakes(n) PROVE BridgeInv'
  <2>0. ark.at = "loop" /\ \A k \in Op : Agreed(k)
    BY <1>1, <1>11 DEF StopTakes
  <2>1. /\ ark' = [at |-> IF n \in g_threads THEN "join" ELSE "post", op |-> n,
                   node |-> g_nodes[n]]
        /\ g_nodes' = [g_nodes EXCEPT ![n] = NoNode] /\ g_threads' = g_threads \ {n}
        /\ UNCHANGED <<app, why, callback, names, thread, messages, wake, commands>>
    BY <1>11 DEF StopTakes
  <2>2. stopped' \subseteq Op
    BY <1>0, <1>11 DEF StopTakes, Stops
  <2>9. \A k \in DOMAIN messages' : messages'[k] \in Op
    BY <1>0, <2>1, QueueType
  <2>8. ark' \in [at : {"loop", "join", "post"}, op : Op, node : {NoNode, "looped", "once"}]
    BY <1>0, <2>1
  <2>7. g_nodes' \in [Op -> {NoNode, "looped", "once"}] /\ g_threads' \subseteq Op
    BY <1>0, <2>1
  <2>3. AbTypeOK'
    BY <1>0, <2>1, <2>2, <2>7, <2>8, <2>9 DEF AbTypeOK
  <2>4. \A k \in Op : k # n => Agreed(k)'
    BY <1>0, <2>0, <2>1 DEF Agreed
  <2>5. Taken(n)'
    <3>1. Agreed(n)
      BY <2>0
    <3> QED BY <1>0, <2>1, <3>1 DEF Taken, Agreed
  <2>6. ark'.op = n /\ ark'.at # "loop"
    BY <2>1
  <2> QED BY <1>0, <2>1, <2>3, <2>4, <2>5, <2>6 DEF BridgeInv
<1>12. CASE StopJoins
  <2>1. /\ ark.at = "join" /\ ark' = [ark EXCEPT !.at = "post"]
        /\ thread' = [thread EXCEPT ![ark.op] = "none"]
        /\ UNCHANGED <<app, why, callback, names, g_nodes, g_threads, stopped, messages,
                       wake, commands>>
    BY <1>12 DEF StopJoins
  <2>2. ark'.at = "post" /\ ark'.op = ark.op /\ ark.op \in Op
    BY <1>0, <2>1
  <2>9. \A k \in DOMAIN messages' : messages'[k] \in Op
    BY <1>0, <2>1, QueueType
  <2>8. ark' \in [at : {"loop", "join", "post"}, op : Op, node : {NoNode, "looped", "once"}]
    BY <1>0, <2>1
  <2>7. thread' \in [Op -> {"none", "ready", "running", "callback", "ended"}]
    BY <1>0, <2>1
  <2>3. AbTypeOK'
    BY <1>0, <2>1, <2>7, <2>8, <2>9 DEF AbTypeOK
  <2>4. \A k \in Op : k # ark.op => Agreed(k)'
    BY <1>0, <1>1, <2>1 DEF Agreed
  <2>5. Taken(ark.op) /\ Taken(ark.op)'
    BY <1>0, <1>2, <2>1, <2>2 DEF Taken
  <2> QED BY <1>0, <2>1, <2>2, <2>3, <2>4, <2>5 DEF BridgeInv, Taken
<1>13. CASE StopPosts
  <2>1. /\ ark.at = "post" /\ ark' = [ark EXCEPT !.at = "loop", !.node = NoNode]
        /\ names' = names \ {ark.op}
        /\ UNCHANGED <<callback, g_nodes, g_threads, stopped, thread, messages, wake,
                       commands>>
        /\ app' \in {app, "exited"} /\ why' \in {why, "destroyed"}
    BY <1>13 DEF StopPosts, handlePost, AppEnds
  <2>2. ark'.at = "loop" /\ ark.op \in Op /\ ark' \in [at : {"loop", "join", "post"}, op : Op,
                                                 node : {NoNode, "looped", "once"}]
    BY <1>0, <2>1
  <2>9. \A k \in DOMAIN messages' : messages'[k] \in Op
    BY <1>0, <2>1, QueueType
  <2>3. AbTypeOK'
    BY <1>0, <2>1, <2>2, <2>9 DEF AbTypeOK
  <2>4. Taken(ark.op)
    BY <1>2, <2>1
  <2>5. \A k \in Op : Agreed(k)'
    BY <1>0, <1>1, <2>1, <2>2, <2>4 DEF Agreed, Taken
  <2> QED BY <1>0, <2>1, <2>2, <2>3, <2>5 DEF BridgeInv
<1>14. CASE UNCHANGED abVars
  BY <1>0, <1>14, <1>a DEF abVars
<1> QED
  BY <1>3, <1>4, <1>5, <1>6, <1>7, <1>8, <1>9, <1>10, <1>11, <1>12, <1>13, <1>14
     DEF AbNext, Stop, NodeThread

\* The master, g_nodes and g_threads agree about the application's nodes: no
\* command drops a joinable thread, and no callback runs for a node that the
\* master has forgotten, however starts, stops and callbacks interleave.
THEOREM NodesAgreeCorrect == AbSpec => []NodesAgree
<1>1. AbInit => BridgeInv
  <2> SUFFICES ASSUME AbInit PROVE BridgeInv
    OBVIOUS
  <2>1. AbTypeOK /\ messages \in Seq(Op)
    <3>0. <<>> \in Seq(Op) /\ 0 \in 0..MaxCommands
      BY AppBridgeAssumption
    <3>1. messages \in Seq(Op)
      BY <3>0 DEF AbInit
    <3>2. \A k \in DOMAIN messages : messages[k] \in Op
      BY <3>1, QueueType
    <3>3. /\ ark \in [at : {"loop", "join", "post"}, op : Op, node : {NoNode, "looped", "once"}]
          /\ g_nodes \in [Op -> {NoNode, "looped", "once"}]
          /\ thread \in [Op -> {"none", "ready", "running", "callback", "ended"}]
      BY DEF AbInit, Op
    <3>4. commands \in 0..MaxCommands
      BY <3>0 DEF AbInit
    <3> QED BY <3>1, <3>2, <3>3, <3>4 DEF AbInit, AbTypeOK
  <2>2. \A n \in Op : Agreed(n)
    BY DEF AbInit, Agreed
  <2> QED BY <2>1, <2>2 DEF AbInit, BridgeInv
<1>2. BridgeInv /\ [AbNext]_abVars => BridgeInv'
  BY BridgeStep
<1>3. BridgeInv => NodesAgree
  <2> SUFFICES ASSUME BridgeInv PROVE NodesAgree
    OBVIOUS
  <2>1. ASSUME NEW n \in Op \ {IF ark.at = "loop" THEN "" ELSE ark.op} PROVE Agreed(n)
    BY DEF BridgeInv
  <2> QED BY <2>1 DEF BridgeInv, NodesAgree, Agreed
<1> QED
  BY <1>1, <1>2, <1>3, PTL DEF AbSpec

\* No message is left without a wake-up, although one uv_async_send may stand for
\* several messages: the safety half of BridgeProgress.
THEOREM NoLostWakeUp == AbSpec => []MessageWakes
<1>1. AbInit => MessageWakes
  BY DEF AbInit, MessageWakes
<1>2. MessageWakes /\ [AbNext]_abVars => MessageWakes'
  <2> SUFFICES ASSUME MessageWakes, [AbNext]_abVars PROVE MessageWakes'
    OBVIOUS
  <2>1. CASE UNCHANGED <<messages, wake>>
    BY <2>1 DEF MessageWakes
  <2>2. ASSUME NEW n \in Op, SendToArkTS(n) PROVE MessageWakes'
    BY <2>1, <2>2 DEF SendToArkTS, MessageWakes
  <2>3. CASE OnAsyncMessage
    BY <2>3 DEF OnAsyncMessage, Drains, MessageWakes
  <2>4. CASE RunCommand
    <3>1. UNCHANGED <<messages, wake>> \/ \E n \in Op : SendToArkTS(n)
      BY <2>4 DEF RunCommand, subscribe_and_echo, subscribe_and_record, create_publisher,
                  bag_play, NodeRefused, CreateFails, Op
    <3> QED BY <2>1, <2>2, <3>1
  <2>5. ASSUME NEW n \in Op, CallbackEnds(n) PROVE MessageWakes'
    BY <2>1, <2>2, <2>5 DEF CallbackEnds
  <2>6. ASSUME NEW n \in Op, ThreadRuns(n) \/ ThreadEnds(n) \/ CallbackBegins(n) \/ StopTakes(n)
        PROVE  UNCHANGED <<messages, wake>>
    BY <2>6 DEF ThreadRuns, ThreadEnds, CallbackBegins, StopTakes
  <2>7. RegisterMessageCallback \/ RunNothing \/ Stop \/ UNCHANGED abVars
          => UNCHANGED <<messages, wake>>
    BY DEF RegisterMessageCallback, RunNothing, Stop, StopJoins, StopPosts, abVars
  <2> QED BY <2>1, <2>3, <2>4, <2>5, <2>6, <2>7 DEF AbNext, NodeThread
<1> QED
  BY <1>1, <1>2, PTL DEF AbSpec

-----------------------------------------------------------------------------
(* The NTRIP client *)

\* Where an attempt over UDP or RTSP is, where its second socket is open, and
\* where a request to the caster may not have been taken back.
UdpPart == {"udp", "udp_answer", "udp_loop", "udp_recv", "udp_close"}
RtspOpen == {"rtsp_setup", "rtsp_play", "rtsp_loop", "rtsp_teardown", "rtsp_udp"}
RtspPart == RtspOpen \cup {"rtsp"}
TcpPart == {"tcp", "tcp_sent", "tcp_head", "tcp_next", "tcp_data", "tcp_rows", "tcp_table",
            "tcp_write", "tcp_nmea"}
Points == {"start", "top", "close"} \cup UdpPart \cup RtspPart \cup TcpPart \cup Over

\* The pause grows by two for each attempt, and once more for the one that a stop
\* ends at its beginning.
Paused ==
  /\ attempts \in Nat /\ attempts <= MaxAttempts
  /\ sleeptime \in Nat /\ sleeptime <= 2 * attempts + 1
  /\ sleeptime = 0 \/ sleeptime < 2 * attempts \/ (stop /\ at \in {"close"} \cup Over)

\* At most one UDP socket is lost for each attempt, over RTSP.
LeakBound ==
  /\ leaked \in Nat /\ leaked <= attempts
  /\ at = "rtsp" => leaked < attempts
  /\ leaked > 0 => args.mode = "RTSP"

\* Sockets and session by the place the attempt has come to.
Held ==
  /\ at \in UdpPart => args.mode = "UDP"
  /\ at \in RtspPart => args.mode = "RTSP"
  /\ sockudp = "open" => at \in RtspOpen
  /\ sockfd = "open" => at \notin {"start", "top"} \cup Over
  /\ args.mode = "UDP" /\ session # "none" => at \in UdpPart \ {"udp"}
  /\ session = "playing" =>
       args.mode = "UDP" \/ at \in {"rtsp_loop", "rtsp_teardown"} \/ ended = "teardown"
  /\ session = "setup" => args.mode = "RTSP"

NtFlags ==
  /\ args \in [mode : Modes, data : BOOLEAN, ser : BOOLEAN]
  /\ stop \in BOOLEAN /\ error \in BOOLEAN /\ wild \in BOOLEAN

NtKinds ==
  /\ at \in Points
  /\ sockfd \in {"zero", "open", "failed", "stale"}
  /\ sockudp \in {"none", "open"}
  /\ session \in {"none", "asked", "setup", "playing"}
  /\ ended \in {"", "close", "teardown"}

\* What AttemptLeavesNothing rests on.
NtInv == NtFlags /\ NtKinds /\ Paused /\ LeakBound /\ Held

\* The pause and the lost sockets, in a step that counts neither and does not
\* come to the place where a socket may be lost.
LEMMA CountsStay ==
  ASSUME NtInv, UNCHANGED <<args, sleeptime, attempts, leaked>>,
         at \notin {"close"} \cup Over \/ at' \in Over \/ (at' = "top" /\ ~stop),
         stop => stop', at' # "rtsp"
  PROVE  Paused' /\ LeakBound'
<1>1. Paused /\ LeakBound
  BY DEF NtInv
<1>2. Paused'
  BY <1>1 DEF Paused, Over
<1>3. LeakBound'
  BY <1>1 DEF LeakBound
<1> QED
  BY <1>2, <1>3

\* The same, where the pause may be taken back.
LEMMA CountsFall ==
  ASSUME NtInv, UNCHANGED <<args, attempts, leaked>>,
         sleeptime' = 0 \/ sleeptime' = sleeptime,
         at \notin {"close"} \cup Over, at' # "rtsp"
  PROVE  Paused' /\ LeakBound'
<1>1. Paused /\ LeakBound
  BY DEF NtInv
<1>2. /\ attempts \in Nat /\ attempts <= MaxAttempts
      /\ sleeptime \in Nat /\ sleeptime <= 2 * attempts + 1
      /\ sleeptime = 0 \/ sleeptime < 2 * attempts
  BY <1>1, Zenon DEF Paused
<1>3. /\ attempts' \in Nat /\ attempts' <= MaxAttempts
      /\ sleeptime' \in Nat /\ sleeptime' <= 2 * attempts' + 1
      /\ sleeptime' = 0 \/ sleeptime' < 2 * attempts'
  BY <1>2
<1>4. Paused'
  BY <1>3, Zenon DEF Paused
<1>5. LeakBound'
  BY <1>1 DEF LeakBound
<1> QED
  BY <1>4, <1>5

\* The flags, in a step that sets stop or error or none.
LEMMA FlagsStay ==
  ASSUME NtInv, UNCHANGED <<args, wild>>, Fine \/ SetError \/ SetStop
  PROVE  NtFlags'
<1>1. NtFlags
  BY DEF NtInv
<1> QED
  BY <1>1, Zenon DEF NtFlags, Fine, SetError, SetStop

LEMMA NtStep ==
  ASSUME NtInv, [NtNext]_ntVars
  PROVE  NtInv'
<1>0. NtFlags /\ NtKinds /\ Paused /\ LeakBound /\ Held
  BY DEF NtInv
<1> USE DEF Points, UdpPart, RtspPart, RtspOpen, TcpPart, Over, Go, Fine, SetError, SetStop,
            ntRest, ntConn
<1>1. CASE NtStart
  <2>0. NtFlags'
    BY <1>1, FlagsStay DEF NtStart
  <2>1. NtKinds'
    BY <1>0, <1>1 DEF NtStart, NtKinds
  <2>2. Held'
    BY <1>0, <1>1 DEF NtStart, NtKinds, Held
  <2>3. Paused' /\ LeakBound'
    BY <1>1, CountsStay DEF NtStart
  <2> QED BY <2>0, <2>1, <2>2, <2>3 DEF NtInv
<1>2. CASE UdpRequest
  <2>0. NtFlags'
    BY <1>2, FlagsStay DEF UdpRequest
  <2>1. NtKinds'
    BY <1>0, <1>2 DEF UdpRequest, NtKinds
  <2>2. Held'
    BY <1>0, <1>2 DEF UdpRequest, NtKinds, Held
  <2>3. Paused' /\ LeakBound'
    BY <1>2, CountsStay DEF UdpRequest
  <2> QED BY <2>0, <2>1, <2>2, <2>3 DEF NtInv
<1>3. CASE UdpAnswer
  <2>0. NtFlags'
    BY <1>3, FlagsStay DEF UdpAnswer
  <2>1. NtKinds'
    BY <1>0, <1>3 DEF UdpAnswer, NtKinds
  <2>2. Held'
    BY <1>0, <1>3 DEF UdpAnswer, NtKinds, Held
  <2>3. Paused' /\ LeakBound'
    BY <1>3, CountsStay DEF UdpAnswer
  <2> QED BY <2>0, <2>1, <2>2, <2>3 DEF NtInv
<1>4. CASE UdpLoop
  <2>0. NtFlags'
    BY <1>4, FlagsStay DEF UdpLoop
  <2>1. NtKinds'
    BY <1>0, <1>4 DEF UdpLoop, Ready, NtKinds
  <2>2. Held'
    BY <1>0, <1>4 DEF UdpLoop, Ready, NtKinds, Held
  <2>3. Paused' /\ LeakBound'
    BY <1>4, CountsStay DEF UdpLoop, Ready
  <2> QED BY <2>0, <2>1, <2>2, <2>3 DEF NtInv
<1>5. CASE UdpRecv
  <2>0. NtFlags'
    BY <1>5, FlagsStay DEF UdpRecv
  <2>1. NtKinds'
    BY <1>0, <1>5 DEF UdpRecv, NtKinds
  <2>2. Held'
    BY <1>0, <1>5 DEF UdpRecv, NtKinds, Held
  <2>3. Paused' /\ LeakBound'
    BY <1>5, CountsStay DEF UdpRecv
  <2> QED BY <2>0, <2>1, <2>2, <2>3 DEF NtInv
<1>6. CASE UdpClose
  <2>0. NtFlags'
    BY <1>6, FlagsStay DEF UdpClose
  <2>1. NtKinds'
    BY <1>0, <1>6 DEF UdpClose, NtKinds
  <2>2. Held'
    BY <1>0, <1>6 DEF UdpClose, NtKinds, Held
  <2>3. Paused' /\ LeakBound'
    BY <1>6, CountsStay DEF UdpClose
  <2> QED BY <2>0, <2>1, <2>2, <2>3 DEF NtInv
<1>7. CASE RtspSetup
  <2>0. NtFlags'
    BY <1>7, FlagsStay DEF RtspSetup
  <2>1. NtKinds'
    BY <1>0, <1>7 DEF RtspSetup, NtKinds
  <2>2. Held'
    BY <1>0, <1>7 DEF RtspSetup, NtKinds, Held
  <2>3. Paused' /\ LeakBound'
    BY <1>7, CountsStay DEF RtspSetup
  <2> QED BY <2>0, <2>1, <2>2, <2>3 DEF NtInv
<1>8. CASE RtspPlay
  <2>0. NtFlags'
    BY <1>8, FlagsStay DEF RtspPlay
  <2>1. NtKinds'
    BY <1>0, <1>8 DEF RtspPlay, NtKinds
  <2>2. Held'
    BY <1>0, <1>8 DEF RtspPlay, NtKinds, Held
  <2>3. Paused' /\ LeakBound'
    BY <1>8, CountsStay DEF RtspPlay
  <2> QED BY <2>0, <2>1, <2>2, <2>3 DEF NtInv
<1>9. CASE RtspLoop
  <2>0. NtFlags'
    BY <1>9, FlagsStay DEF RtspLoop
  <2>1. NtKinds'
    BY <1>0, <1>9 DEF RtspLoop, Ready, NtKinds
  <2>2. Held'
    BY <1>0, <1>9 DEF RtspLoop, Ready, NtKinds, Held
  <2>3. Paused' /\ LeakBound'
    BY <1>9, CountsStay DEF RtspLoop, Ready
  <2> QED BY <2>0, <2>1, <2>2, <2>3 DEF NtInv
<1>10. CASE RtspTeardown
  <2>0. NtFlags'
    BY <1>10, FlagsStay DEF RtspTeardown
  <2>1. NtKinds'
    BY <1>0, <1>10 DEF RtspTeardown, NtKinds
  <2>2. Held'
    BY <1>0, <1>10 DEF RtspTeardown, NtKinds, Held
  <2>3. Paused' /\ LeakBound'
    BY <1>10, CountsStay DEF RtspTeardown
  <2> QED BY <2>0, <2>1, <2>2, <2>3 DEF NtInv
<1>11. CASE RtspUdp
  <2>0. NtFlags'
    BY <1>11, FlagsStay DEF RtspUdp
  <2>1. NtKinds'
    BY <1>0, <1>11 DEF RtspUdp, NtKinds
  <2>2. Held'
    BY <1>0, <1>11 DEF RtspUdp, NtKinds, Held
  <2>3. Paused' /\ LeakBound'
    BY <1>11, CountsStay DEF RtspUdp
  <2> QED BY <2>0, <2>1, <2>2, <2>3 DEF NtInv
<1>12. CASE TcpLoop
  <2>0. NtFlags'
    BY <1>12, FlagsStay DEF TcpLoop
  <2>a. at \in {"tcp_sent", "tcp_next", "tcp_rows"}
        /\ at' \in {"close", "tcp_head", "tcp_data", "tcp_table"}
    BY <1>12 DEF TcpLoop, Recv
  <2>b. UNCHANGED <<args, sockfd, sockudp, session, ended>>
    BY <1>12 DEF TcpLoop
  <2>1. NtKinds'
    BY <1>0, <2>a, <2>b DEF NtKinds
  <2>2. Held'
    BY <1>0, <2>a, <2>b DEF NtKinds, Held
  <2>3. Paused' /\ LeakBound'
    BY <1>12, CountsStay DEF TcpLoop, Recv
  <2> QED BY <2>0, <2>1, <2>2, <2>3 DEF NtInv
<1>13. CASE TcpEnds
  <2>0. NtFlags'
    BY <1>13, FlagsStay DEF TcpEnds
  <2>1. NtKinds'
    BY <1>0, <1>13 DEF TcpEnds, NtKinds
  <2>2. Held'
    BY <1>0, <1>13 DEF TcpEnds, NtKinds, Held
  <2>3. Paused' /\ LeakBound'
    BY <1>13, CountsStay DEF TcpEnds
  <2> QED BY <2>0, <2>1, <2>2, <2>3 DEF NtInv
<1>14. CASE TcpHead
  <2>0. NtFlags'
    BY <1>14, FlagsStay DEF TcpHead
  <2>1. NtKinds'
    BY <1>0, <1>14 DEF TcpHead, NtKinds
  <2>2. Held'
    BY <1>0, <1>14 DEF TcpHead, NtKinds, Held
  <2>3. Paused' /\ LeakBound'
    BY <1>14, CountsStay DEF TcpHead
  <2> QED BY <2>0, <2>1, <2>2, <2>3 DEF NtInv
<1>15. CASE TcpData
  <2>0. NtFlags'
    BY <1>15, FlagsStay DEF TcpData
  <2>1. NtKinds'
    BY <1>0, <1>15 DEF TcpData, NtKinds
  <2>2. Held'
    BY <1>0, <1>15 DEF TcpData, NtKinds, Held
  <2>3. Paused' /\ LeakBound'
    BY <1>15, CountsStay DEF TcpData
  <2> QED BY <2>0, <2>1, <2>2, <2>3 DEF NtInv
<1>16. CASE TcpTable
  <2>0. NtFlags'
    BY <1>16, FlagsStay DEF TcpTable
  <2>1. NtKinds'
    BY <1>0, <1>16 DEF TcpTable, NtKinds
  <2>2. Held'
    BY <1>0, <1>16 DEF TcpTable, NtKinds, Held
  <2>3. Paused' /\ LeakBound'
    BY <1>16, CountsStay DEF TcpTable
  <2> QED BY <2>0, <2>1, <2>2, <2>3 DEF NtInv
<1>17. CASE NtClose
  <2>0. NtFlags'
    BY <1>0, <1>17, Zenon DEF NtClose, NtFlags
  <2>1. NtKinds'
    BY <1>0, <1>17 DEF NtClose, Closed, NtKinds
  <2>2. Held'
    BY <1>0, <1>17 DEF NtClose, Closed, NtKinds, Held
  <2>3. Paused' /\ LeakBound'
    BY <1>17, CountsStay DEF NtClose, Closed
  <2> QED BY <2>0, <2>1, <2>2, <2>3 DEF NtInv
<1>30. CASE NtAttempt
  <2>0. NtFlags'
    BY <1>0, <1>30, Zenon DEF NtAttempt, NtFlags
  <2>1. NtKinds'
    BY <1>0, <1>30 DEF NtAttempt, NtKinds, Way
  <2>2. Held'
    BY <1>0, <1>30 DEF NtAttempt, NtKinds, Held, Way
  <2>a. \/ attempts' = attempts + 1 /\ attempts < MaxAttempts
        \/ attempts' = attempts /\ at' = "close" /\ stop'
    BY <1>30, Zenon DEF NtAttempt
  <2>b. sleeptime' = IF sleeptime = 0 THEN 1 ELSE sleeptime + 2
    BY <1>30 DEF NtAttempt
  <2>c. sleeptime = 0 \/ sleeptime < 2 * attempts
    BY <1>0, <1>30, Zenon DEF NtAttempt, Paused, Over
  <2>d. /\ attempts \in Nat /\ attempts <= MaxAttempts /\ sleeptime \in Nat
        /\ leaked \in Nat /\ leaked <= attempts
    BY <1>0 DEF Paused, LeakBound
  <2>e. /\ attempts' \in Nat /\ attempts' <= MaxAttempts
        /\ sleeptime' \in Nat /\ sleeptime' <= 2 * attempts' + 1
        /\ sleeptime' < 2 * attempts' \/ attempts' = attempts
        /\ leaked <= attempts'
    BY <2>a, <2>b, <2>c, <2>d, NtripClientAssumption
  <2>3. Paused'
    <3>1. attempts' = attempts => sleeptime' < 2 * attempts' \/ (stop' /\ at' = "close")
      BY <2>a, <2>d
    <3> QED BY <2>e, <3>1, Zenon DEF Paused, Over
  <2>4. LeakBound'
    <3>1. leaked < attempts' \/ at' # "rtsp"
      BY <2>a, <2>d
    <3>2. UNCHANGED <<args, leaked>>
      BY <1>30 DEF NtAttempt
    <3>3. leaked > 0 => args.mode = "RTSP"
      BY <1>0 DEF LeakBound
    <3> QED BY <2>d, <2>e, <3>1, <3>2, <3>3 DEF LeakBound
  <2> QED BY <2>0, <2>1, <2>2, <2>3, <2>4 DEF NtInv
<1>31. CASE RtspStart
  <2>0. NtFlags'
    BY <1>31, FlagsStay DEF RtspStart
  <2>1. NtKinds'
    BY <1>0, <1>31 DEF RtspStart, NtKinds, Leaks
  <2>2. Held'
    BY <1>0, <1>31 DEF RtspStart, NtKinds, Held, Leaks
  <2>3. Paused'
    BY <1>0, <1>31 DEF RtspStart, NtKinds, Paused, Leaks
  <2>4. LeakBound'
    <3>1. leaked' = leaked + 0 \/ leaked' = leaked + 1 \/ leaked' = leaked
      BY <1>31 DEF RtspStart, Leaks
    <3>2. leaked < attempts /\ leaked \in Nat /\ attempts \in Nat /\ args.mode = "RTSP"
      BY <1>0, <1>31 DEF RtspStart, LeakBound, Paused, Held
    <3>3. UNCHANGED <<args, attempts>> /\ at' # "rtsp"
      BY <1>31 DEF RtspStart, Leaks
    <3> QED BY <3>1, <3>2, <3>3 DEF LeakBound
  <2> QED BY <2>0, <2>1, <2>2, <2>3, <2>4 DEF NtInv
<1>32. CASE TcpConnect
  <2>0. NtFlags'
    BY <1>32, FlagsStay DEF TcpConnect
  <2>1. NtKinds'
    BY <1>0, <1>32 DEF TcpConnect, NtKinds
  <2>2. Held'
    BY <1>0, <1>32 DEF TcpConnect, NtKinds, Held
  <2>3. Paused' /\ LeakBound'
    <3>1. sleeptime' = 0 \/ sleeptime' = sleeptime
      BY <1>32 DEF TcpConnect
    <3>2. UNCHANGED <<args, attempts, leaked>> /\ at = "tcp" /\ at' # "rtsp"
      BY <1>32 DEF TcpConnect
    <3> QED BY <1>0, <3>1, <3>2, CountsFall
  <2> QED BY <2>0, <2>1, <2>2, <2>3 DEF NtInv
<1>33. ASSUME NEW how \in {"written", "chunk", "failed", "reopened"}, TcpWrite(how)
       PROVE  NtInv'
  <2>0. NtFlags'
    BY <1>33, FlagsStay DEF TcpWrite
  <2>1. NtKinds'
    BY <1>0, <1>33 DEF TcpWrite, NtKinds
  <2>2. Held'
    BY <1>0, <1>33 DEF TcpWrite, NtKinds, Held
  <2>3. Paused' /\ LeakBound'
    <3>1. sleeptime' = 0
      BY <1>33 DEF TcpWrite
    <3>2. UNCHANGED <<args, attempts, leaked>> /\ at = "tcp_write" /\ at' # "rtsp"
      BY <1>33 DEF TcpWrite
    <3> QED BY <1>0, <3>1, <3>2, CountsFall
  <2> QED BY <2>0, <2>1, <2>2, <2>3 DEF NtInv
<1>34. CASE TcpNmea(TRUE)
  <2>0. NtFlags'
    BY <1>34, FlagsStay DEF TcpNmea
  <2>1. NtKinds'
    BY <1>0, <1>34 DEF TcpNmea, NtKinds
  <2>2. Held'
    BY <1>0, <1>34 DEF TcpNmea, NtKinds, Held
  <2>3. Paused' /\ LeakBound'
    BY <1>34, CountsStay DEF TcpNmea
  <2> QED BY <2>0, <2>1, <2>2, <2>3 DEF NtInv
<1>35. CASE OwnerStops
  <2>0. NtFlags'
    BY <1>35, FlagsStay DEF OwnerStops
  <2>1. NtKinds' /\ Held'
    BY <1>0, <1>35 DEF OwnerStops, NtKinds, Held
  <2>2. Paused' /\ LeakBound'
    BY <1>0, <1>35 DEF OwnerStops, Paused, LeakBound
  <2> QED BY <2>0, <2>1, <2>2 DEF NtInv
<1>36. CASE UNCHANGED ntVars
  <2>0. NtFlags'
    BY <1>0, <1>36, Zenon DEF ntVars, NtFlags
  <2>1. NtKinds' /\ Held'
    BY <1>0, <1>36 DEF ntVars, NtKinds, Held
  <2>2. Paused' /\ LeakBound'
    BY <1>0, <1>36, Zenon DEF ntVars, Paused, LeakBound
  <2> QED BY <2>0, <2>1, <2>2 DEF NtInv
<1> QED
  BY <1>1, <1>2, <1>3, <1>4, <1>5, <1>6, <1>7, <1>8, <1>9, <1>10, <1>11, <1>12,
     <1>13, <1>14, <1>15, <1>16, <1>17, <1>30, <1>31, <1>32, <1>33,
     <1>34, <1>35, <1>36 DEF NtNext, Answers, Runs, Writes

\* NtInv holds before the thread runs.
LEMMA NtStarts ==
  ASSUME NtInit
  PROVE  NtInv
<1>1. NtKinds
  BY DEF NtInit, NtKinds, Points
<1>2. Paused /\ LeakBound
  <2>1. /\ attempts \in Nat /\ attempts <= MaxAttempts
        /\ sleeptime \in Nat /\ sleeptime <= 2 * attempts + 1 /\ sleeptime = 0
        /\ leaked \in Nat /\ leaked <= attempts /\ ~(leaked > 0) /\ at # "rtsp"
    <3>1. attempts = 0 /\ sleeptime = 0 /\ leaked = 0 /\ at = "start"
      BY Zenon DEF NtInit
    <3> QED BY <3>1, NtripClientAssumption
  <2> QED BY <2>1, Zenon DEF Paused, LeakBound
<1>3. Held
  BY DEF NtInit, Held, UdpPart, RtspPart, RtspOpen
<1>4. NtFlags
  BY Zenon DEF NtInit, NtFlags
<1> QED
  BY <1>1, <1>2, <1>3, <1>4 DEF NtInv

\* NtInv bounds the pause and the lost sockets by the number of attempts.
LEMMA NtTypes ==
  ASSUME NtInv
  PROVE  NtTypeOK
<1>1. NtFlags /\ NtKinds /\ Paused /\ LeakBound
  BY DEF NtInv
<1>2. /\ attempts \in Nat /\ attempts <= MaxAttempts
      /\ sleeptime \in Nat /\ sleeptime <= 2 * attempts + 1
      /\ leaked \in Nat /\ leaked <= attempts
  BY <1>1, Zenon DEF Paused, LeakBound
<1>3. /\ attempts \in 0..MaxAttempts /\ leaked \in 0..MaxAttempts
      /\ sleeptime \in 0..(2 * MaxAttempts + 1)
  BY <1>2, NtripClientAssumption
<1>4. at \in {"start", "top", "udp", "udp_loop", "udp_close", "rtsp", "rtsp_loop",
              "rtsp_teardown", "rtsp_udp", "tcp", "tcp_write", "tcp_nmea", "close"}
              \cup Waiting \cup Over \cup DOMAIN Recv
  BY <1>1 DEF NtKinds, Points, UdpPart, RtspPart, RtspOpen, TcpPart, Over, Waiting, Recv
<1> QED
  BY <1>1, <1>3, <1>4, Zenon DEF NtFlags, NtKinds, NtTypeOK

\* An attempt gives back what it took, whichever of its calls failed and whenever
\* it was stopped, for any number of attempts; the pause and the sockets that RTSP
\* loses stay in proportion to the attempts.
THEOREM AttemptCorrect == NtSpec => []AttemptLeavesNothing
<1>1. NtInit => NtInv
  BY NtStarts
<1>2. NtInv /\ [NtNext]_ntVars => NtInv'
  BY NtStep
<1>3. NtInv => AttemptLeavesNothing
  <2> SUFFICES ASSUME NtInv PROVE AttemptLeavesNothing
    OBVIOUS
  <2>1. NtFlags /\ NtKinds /\ LeakBound /\ Held
    BY DEF NtInv
  <2>2. NtTypeOK
    BY NtTypes
  <2> QED BY <2>1, <2>2 DEF NtKinds, LeakBound, Held, AttemptLeavesNothing, Over, UdpPart,
                            RtspOpen
<1> QED
  BY <1>1, <1>2, <1>3, PTL DEF NtSpec

-----------------------------------------------------------------------------
(* The command line tool *)

Commands == {"echo", "pub", "once", "play"}
CcKinds ==
  /\ clock \in 0..MaxClock
  /\ held \subseteq {"echo_node", "publish_node", "bagplay_node"}
  /\ file \in [0..MaxClock -> [made : BOOLEAN, lines : Seq(Line)]]
  /\ proc \in [User -> [at : {"idle", "register", "run", "leave", "over"}, cmd : Commands,
                        sec : 0..MaxClock, first : 0..MaxClock, sent : Seq(Line)]]

Publisher(u) == proc[u].cmd \in {"pub", "once"}
Sole(u) ==
  Publisher(u) /\ \A v \in User \ {u} : Publisher(v) => proc[v].sec # proc[u].sec

\* A process that has not begun, the clock of one that publishes, and the file of one
\* that plays: it was made by a publisher.
Begun(u) ==
  /\ proc[u].at = "idle" => proc[u] = Idle
  /\ Publisher(u) => proc[u].first <= clock
  /\ proc[u].cmd = "play" => file[proc[u].sec].made
Made(s) == file[s].made => \E u \in User : Publisher(u) /\ proc[u].sec = s

\* The file of a publisher that no other has emptied.
Recorded(u) ==
  LET out == proc[u].sent IN
  /\ Len(Lines(u)) <= Len(out)
  /\ Len(out) <= Len(Lines(u)) + 1
  /\ proc[u].at # "over" => Len(out) = Len(Lines(u))
  /\ \A k \in 1..Len(Lines(u)) :
       Lines(u)[k] = [time |-> out[k].time - proc[u].first, msg |-> out[k].msg]

\* What process v has played of it.
Replayed(v, lines) ==
  LET out == proc[v].sent IN
  /\ Len(out) <= Len(lines)
  /\ out # <<>> => proc[v].first = lines[Len(out)].time
  /\ \A k \in 1..Len(out) :
       /\ out[k].msg = lines[k].msg
       /\ k > 1 => out[k].time - out[k - 1].time >= lines[k].time - lines[k - 1].time

CcInv ==
  /\ CcKinds
  /\ \A u \in User : Begun(u)
  /\ \A s \in 0..MaxClock : Made(s)
  /\ \A u \in User : Sole(u) =>
       /\ Recorded(u)
       /\ \A v \in User : proc[v].cmd = "play" /\ proc[v].sec = proc[u].sec
                            => Replayed(v, Lines(u))

LEMMA CcParts ==
  ASSUME CcInv, NEW u \in User
  PROVE  /\ Begun(u) /\ proc[u].sec \in 0..MaxClock /\ proc[u].first \in 0..MaxClock
         /\ proc[u].sent \in Seq(Line) /\ proc[u].cmd \in Commands
         /\ proc[u].at \in {"idle", "register", "run", "leave", "over"}
         /\ Lines(u) \in Seq(Line)
         /\ clock \in 0..MaxClock /\ MaxClock \in Nat
BY ClientCmdAssumption DEF CcInv, CcKinds, Lines

\* A step that publishes, plays and records nothing: commands, files and times stay.
LEMMA QuietStep ==
  ASSUME CcInv, CcKinds', UNCHANGED file, clock' >= clock,
         \A u \in User : /\ proc'[u].cmd = proc[u].cmd /\ proc'[u].sec = proc[u].sec
                         /\ proc'[u].first = proc[u].first /\ proc'[u].sent = proc[u].sent
                         /\ proc'[u] = proc[u] \/ proc'[u].at # "idle"
                         /\ proc'[u].at # "over" => proc[u].at # "over"
  PROVE  CcInv'
<1>1. ASSUME NEW u \in User PROVE Begun(u)'
  <2>1. Begun(u) /\ proc[u].first \in 0..MaxClock /\ clock \in 0..MaxClock /\ MaxClock \in Nat
    BY CcParts
  <2>2. clock' \in 0..MaxClock
    BY DEF CcKinds
  <2> QED BY <2>1, <2>2 DEF Begun, Publisher, Idle
<1>2. ASSUME NEW s \in 0..MaxClock PROVE Made(s)'
  BY DEF CcInv, Made, Publisher
<1>3. ASSUME NEW u \in User, Sole(u)'
      PROVE  /\ Recorded(u)'
             /\ \A v \in User : (proc[v].cmd = "play" /\ proc[v].sec = proc[u].sec)'
                                  => Replayed(v, Lines(u))'
  <2>1. Sole(u)
    BY <1>3 DEF Sole, Publisher
  <2>2. Lines(u)' = Lines(u)
    BY DEF Lines
  <2>3. Recorded(u)'
    BY <2>1, <2>2 DEF CcInv, Recorded
  <2>4. ASSUME NEW v \in User, (proc[v].cmd = "play" /\ proc[v].sec = proc[u].sec)'
        PROVE  Replayed(v, Lines(u))'
    <3>1. Replayed(v, Lines(u))
      BY <2>1, <2>4 DEF CcInv
    <3> QED BY <2>2, <3>1 DEF Replayed
  <2> QED BY <2>3, <2>4
<1> QED
  BY <1>1, <1>2, <1>3 DEF CcInv

\* Where a process goes, with its command.
LEMMA AtStep ==
  ASSUME CcInv, NEW u \in User, NEW pc \in {"register", "run", "leave", "over"},
         proc' = [proc EXCEPT ![u].at = pc], proc[u].at # "over",
         UNCHANGED <<clock, file>>, held' \subseteq held \cup {NodeName[proc[u].cmd]}
  PROVE  CcInv'
<1>0. CcKinds /\ proc[u].cmd \in Commands
  BY CcParts DEF CcInv
<1>1. NodeName[proc[u].cmd] \in {"echo_node", "publish_node", "bagplay_node"}
  BY <1>0 DEF NodeName, Commands
<1>2. CcKinds'
  BY <1>0, <1>1 DEF CcKinds
<1>3. clock' >= clock
  BY <1>0, ClientCmdAssumption DEF CcKinds
<1>4. ASSUME NEW w \in User
      PROVE  /\ proc'[w].cmd = proc[w].cmd /\ proc'[w].sec = proc[w].sec
             /\ proc'[w].first = proc[w].first /\ proc'[w].sent = proc[w].sent
             /\ proc'[w] = proc[w] \/ proc'[w].at # "idle"
             /\ proc'[w].at # "over" => proc[w].at # "over"
  BY <1>0 DEF CcKinds
<1> QED
  BY <1>2, <1>3, <1>4, QuietStep

LEMMA TickStep ==
  ASSUME CcInv, Tick
  PROVE  CcInv'
<1>1. CcKinds'
  BY ClientCmdAssumption DEF CcInv, CcKinds, Tick
<1>2. clock' >= clock
  BY ClientCmdAssumption DEF CcInv, CcKinds, Tick
<1> QED
  BY <1>1, <1>2, QuietStep DEF Tick

LEMMA EchoStep ==
  ASSUME CcInv, NEW u \in User, RunEcho(u)
  PROVE  CcInv'
<1>1. proc[u] = Idle
  BY CcParts DEF RunEcho, Begun
<1>2. proc' = [proc EXCEPT ![u].at = "register"]
  BY <1>1 DEF RunEcho, CcInv, CcKinds
<1> QED
  BY <1>1, <1>2, AtStep DEF RunEcho, Idle

LEMMA PlayStart ==
  ASSUME CcInv, NEW u \in User, NEW s \in 0..MaxClock, RunPlay(u, s)
  PROVE  CcInv'
<1>0. /\ CcKinds /\ proc[u] = Idle /\ UNCHANGED <<clock, held, file>> /\ file[s].made
      /\ proc' = [proc EXCEPT ![u] = [Idle EXCEPT !.at = "register", !.cmd = "play",
                                                  !.sec = s]]
  BY CcParts DEF RunPlay, Begun, CcInv
<1>1. /\ proc'[u].at = "register" /\ proc'[u].cmd = "play" /\ proc'[u].sec = s
      /\ proc'[u].first = 0 /\ proc'[u].sent = <<>>
      /\ \A w \in User \ {u} : proc'[w] = proc[w]
  BY <1>0 DEF CcKinds, Idle
<1>2. CcKinds'
  <2>1. <<>> \in Seq(Line) /\ 0 \in 0..MaxClock
    BY ClientCmdAssumption
  <2> QED BY <1>0, <2>1 DEF CcKinds, Idle, Commands
<1>3. \A w \in User : Publisher(w)' <=> Publisher(w)
  BY <1>0, <1>1 DEF Publisher, Idle
<1>4. ASSUME NEW w \in User PROVE Begun(w)'
  BY <1>0, <1>1, CcParts DEF Begun, Publisher
<1>5. ASSUME NEW c \in 0..MaxClock PROVE Made(c)'
  <2>1. Made(c) /\ ~Publisher(u)
    BY <1>0 DEF CcInv, Publisher, Idle
  <2> QED BY <1>0, <1>1, <1>3, <2>1 DEF Made
<1>6. ASSUME NEW w \in User, Sole(w)'
      PROVE  /\ Recorded(w)'
             /\ \A v \in User : (proc[v].cmd = "play" /\ proc[v].sec = proc[w].sec)'
                                  => Replayed(v, Lines(w))'
  <2>1. w # u /\ Sole(w)
    BY <1>0, <1>1, <1>3, <1>6 DEF Sole, Publisher, Idle
  <2>2. Lines(w)' = Lines(w) /\ Lines(w) \in Seq(Line) /\ proc'[w] = proc[w]
    BY <1>0, <1>1, <2>1, CcParts DEF Lines
  <2>3. Recorded(w)'
    BY <2>1, <2>2 DEF CcInv, Recorded
  <2>4. ASSUME NEW v \in User, (proc[v].cmd = "play" /\ proc[v].sec = proc[w].sec)'
        PROVE  Replayed(v, Lines(w))'
    <3>1. CASE v = u
      <4>1. Len(proc'[v].sent) = 0 /\ proc'[v].sent = <<>>
        BY <1>1, <3>1
      <4> QED BY <2>2, <4>1 DEF Replayed
    <3>2. CASE v # u
      <4>1. Replayed(v, Lines(w)) /\ proc'[v] = proc[v]
        BY <1>1, <2>1, <2>2, <2>4, <3>2 DEF CcInv
      <4> QED BY <2>2, <4>1 DEF Replayed
    <3> QED BY <3>1, <3>2
  <2> QED BY <2>3, <2>4
<1> QED
  BY <1>2, <1>4, <1>5, <1>6 DEF CcInv

\* The file is emptied: of the publishers of that second none is alone any more, and
\* the new one is alone only when nobody has played the file.
LEMMA PubStart ==
  ASSUME CcInv, NEW u \in User, NEW cmd \in {"pub", "once"}, RunPub(u, cmd)
  PROVE  CcInv'
<1>0. /\ CcKinds /\ proc[u] = Idle /\ UNCHANGED <<clock, held>>
      /\ file' = [file EXCEPT ![clock] = [made |-> TRUE, lines |-> <<>>]]
      /\ proc' = [proc EXCEPT ![u] = [Idle EXCEPT !.at = "register", !.cmd = cmd,
                                                  !.sec = clock]]
  BY CcParts DEF RunPub, OpenRecord, Begun, CcInv
<1>a. clock \in 0..MaxClock /\ MaxClock \in Nat
  BY <1>0, ClientCmdAssumption DEF CcKinds
<1>1. /\ proc'[u].at = "register" /\ proc'[u].cmd = cmd /\ proc'[u].sec = clock
      /\ proc'[u].first = 0 /\ proc'[u].sent = <<>>
      /\ \A w \in User \ {u} : proc'[w] = proc[w]
  BY <1>0 DEF CcKinds, Idle
<1>2. /\ file'[clock].made /\ file'[clock].lines = <<>>
      /\ \A s \in (0..MaxClock) \ {clock} : file'[s] = file[s]
  BY <1>0, <1>a DEF CcKinds
<1>3. CcKinds'
  <2>1. <<>> \in Seq(Line) /\ 0 \in 0..MaxClock
    BY ClientCmdAssumption
  <2>2. file' \in [0..MaxClock -> [made : BOOLEAN, lines : Seq(Line)]]
    BY <1>0, <1>a, <2>1, Zenon DEF CcKinds
  <2>3. proc' \in [User -> [at : {"idle", "register", "run", "leave", "over"}, cmd : Commands,
                            sec : 0..MaxClock, first : 0..MaxClock, sent : Seq(Line)]]
    BY <1>0, <1>a, <2>1 DEF CcKinds, Idle, Commands
  <2> QED BY <1>0, <2>2, <2>3 DEF CcKinds
<1>4. Publisher(u)' /\ ~Publisher(u) /\ \A w \in User \ {u} : Publisher(w)' <=> Publisher(w)
  BY <1>0, <1>1 DEF Publisher, Idle
<1>5. ASSUME NEW w \in User PROVE Begun(w)'
  <2>1. CASE w = u
    BY <1>0, <1>1, <1>a, <2>1 DEF Begun, Publisher
  <2>2. CASE w # u
    <3>1. Begun(w) /\ proc[w].sec \in 0..MaxClock /\ proc'[w] = proc[w]
      BY <1>1, <2>2, CcParts
    <3>2. file[proc[w].sec].made => file'[proc[w].sec].made
      BY <1>2, <3>1
    <3> QED BY <1>0, <3>1, <3>2 DEF Begun, Publisher
  <2> QED BY <2>1, <2>2
<1>6. ASSUME NEW s \in 0..MaxClock PROVE Made(s)'
  <2>1. CASE s = clock
    BY <1>1, <1>4, <2>1 DEF Made
  <2>2. CASE s # clock
    <3>1. Made(s) /\ file'[s] = file[s]
      BY <1>2, <2>2 DEF CcInv
    <3> QED BY <1>1, <1>4, <3>1 DEF Made
  <2> QED BY <2>1, <2>2
<1>7. ASSUME NEW w \in User, Sole(w)'
      PROVE  /\ Recorded(w)'
             /\ \A v \in User : (proc[v].cmd = "play" /\ proc[v].sec = proc[w].sec)'
                                  => Replayed(v, Lines(w))'
  <2>1. CASE w = u
    <3>1. Lines(u)' = <<>> /\ Len(<<>>) = 0
      BY <1>1, <1>2 DEF Lines
    <3>2. Recorded(u)'
      BY <1>1, <3>1 DEF Recorded
    <3>3. ASSUME NEW v \in User, (proc[v].cmd = "play" /\ proc[v].sec = proc[u].sec)'
          PROVE  FALSE
      <4>1. v # u /\ proc[v].cmd = "play" /\ proc[v].sec = clock
        BY <1>1, <3>3
      <4>2. file[clock].made /\ Made(clock)
        BY <1>a, <4>1, CcParts DEF Begun, CcInv
      <4>3. PICK x \in User : Publisher(x) /\ proc[x].sec = clock
        BY <4>2 DEF Made
      <4>4. x # u /\ Publisher(x)' /\ proc'[x].sec = clock
        BY <1>1, <1>4, <4>3
      <4> QED BY <1>1, <1>7, <2>1, <4>4 DEF Sole
    <3> QED BY <2>1, <3>2, <3>3
  <2>2. CASE w # u
    <3>1. Sole(w) /\ proc[w].sec # clock /\ proc'[w] = proc[w]
      BY <1>1, <1>4, <1>7, <2>2 DEF Sole
    <3>2. Lines(w)' = Lines(w)
      BY <1>2, <3>1, CcParts DEF Lines
    <3>3. Recorded(w)'
      BY <3>1, <3>2 DEF CcInv, Recorded
    <3>4. ASSUME NEW v \in User, (proc[v].cmd = "play" /\ proc[v].sec = proc[w].sec)'
          PROVE  Replayed(v, Lines(w))'
      <4>1. v # u /\ proc'[v] = proc[v]
        BY <1>1, <3>4
      <4>2. Replayed(v, Lines(w))
        BY <3>1, <3>4, <4>1 DEF CcInv
      <4> QED BY <3>2, <4>1, <4>2 DEF Replayed
    <3> QED BY <3>3, <3>4
  <2> QED BY <2>1, <2>2
<1> QED
  BY <1>3, <1>5, <1>6, <1>7 DEF CcInv

\* What Append leaves as it is.
LEMMA AppendParts ==
  ASSUME NEW S, NEW q \in Seq(S), NEW e \in S
  PROVE  /\ Append(q, e) \in Seq(S) /\ Len(Append(q, e)) = Len(q) + 1
         /\ Len(q) \in Nat /\ Append(q, e)[Len(q) + 1] = e
         /\ \A k \in 1..Len(q) : Append(q, e)[k] = q[k]
         /\ Append(q, e) # <<>>
OBVIOUS

LEMMA PublishStep ==
  ASSUME CcInv, NEW u \in User, PublishMessage(u)
  PROVE  CcInv'
<1> DEFINE q == proc[u].sent
           c == proc[u].sec
<1>0. /\ CcKinds /\ Begun(u) /\ c \in 0..MaxClock /\ q \in Seq(Line) /\ Publisher(u)
      /\ proc[u].first \in 0..MaxClock /\ proc[u].first <= clock
      /\ clock \in 0..MaxClock /\ MaxClock \in Nat /\ Lines(u) \in Seq(Line)
      /\ proc[u].at \in {"run", "leave"}
  BY CcParts DEF PublishMessage, CcInv, Begun, Publisher
<1>1. PICK msg : msg = <<u, Len(q) + 1>>
  OBVIOUS
<1>2. msg \in User \X (1..MaxLines)
  <2>1. Len(q) \in Nat /\ Len(q) + 1 <= MaxLines
    BY <1>0, ClientCmdAssumption DEF PublishMessage
  <2>2. Len(q) + 1 \in 1..MaxLines
    BY <2>1, ClientCmdAssumption
  <2> QED BY <1>1, <2>2
<1>3. PICK row : row = [time |-> Stamp(u), msg |-> msg]
  OBVIOUS
<1>4. PICK out : out = [time |-> clock, msg |-> msg]
  OBVIOUS
<1>5. row \in Line /\ out \in Line
  <2>1. Stamp(u) \in 0..MaxClock
    BY <1>0 DEF Stamp
  <2> QED BY <1>0, <1>2, <1>3, <1>4, <2>1 DEF Line
<1>6. /\ UNCHANGED <<clock, held>>
      /\ file' = [file EXCEPT ![c].lines = Append(@, row)]
      /\ proc' = [proc EXCEPT ![u].sent = Append(@, out),
                              ![u].first = IF proc[u].sent = <<>> THEN clock ELSE @,
                              ![u].at = IF proc[u].cmd = "once" THEN "leave" ELSE @]
  BY <1>1, <1>3, <1>4, Zenon DEF PublishMessage
<1>7. /\ proc'[u].sent = Append(q, out) /\ proc'[u].cmd = proc[u].cmd /\ proc'[u].sec = c
      /\ proc'[u].first = (IF q = <<>> THEN clock ELSE proc[u].first)
      /\ proc'[u].at \in {"run", "leave"}
      /\ \A w \in User \ {u} : proc'[w] = proc[w]
  BY <1>0, <1>6 DEF CcKinds
<1>8. /\ file'[c].made = file[c].made /\ file'[c].lines = Append(file[c].lines, row)
      /\ \A s \in (0..MaxClock) \ {c} : file'[s] = file[s]
  BY <1>0, <1>6 DEF CcKinds
<1>9. CcKinds'
  <2>1. Append(q, out) \in Seq(Line) /\ Append(file[c].lines, row) \in Seq(Line)
    BY <1>0, <1>5, AppendParts DEF Lines
  <2>2. file' \in [0..MaxClock -> [made : BOOLEAN, lines : Seq(Line)]]
    <3>1. PICK new : new = [file[c] EXCEPT !.lines = Append(file[c].lines, row)]
      OBVIOUS
    <3>2. file' = [file EXCEPT ![c] = new]
      BY <1>6, <3>1, Zenon
    <3>3. file[c] \in [made : BOOLEAN, lines : Seq(Line)]
      BY <1>0, Zenon DEF CcKinds
    <3>4. new \in [made : BOOLEAN, lines : Seq(Line)]
      BY <2>1, <3>1, <3>3, Zenon
    <3> QED BY <1>0, <3>2, <3>4, Zenon DEF CcKinds
  <2>3. proc' \in [User -> [at : {"idle", "register", "run", "leave", "over"}, cmd : Commands,
                            sec : 0..MaxClock, first : 0..MaxClock, sent : Seq(Line)]]
    <3>1. proc[u].cmd \in Commands /\ proc[u].at \in {"run", "leave"}
      BY <1>0 DEF CcKinds
    <3>2. PICK me : me = [proc[u] EXCEPT !.sent = Append(q, out),
                                         !.first = IF q = <<>> THEN clock ELSE proc[u].first,
                                         !.at = IF proc[u].cmd = "once" THEN "leave" ELSE @]
      OBVIOUS
    <3>3. proc' = [proc EXCEPT ![u] = me]
      BY <1>0, <1>6, <3>2 DEF CcKinds
    <3>4. proc[u] \in [at : {"idle", "register", "run", "leave", "over"}, cmd : Commands,
                       sec : 0..MaxClock, first : 0..MaxClock, sent : Seq(Line)]
      BY <1>0 DEF CcKinds
    <3>5. me \in [at : {"idle", "register", "run", "leave", "over"}, cmd : Commands,
                  sec : 0..MaxClock, first : 0..MaxClock, sent : Seq(Line)]
      BY <1>0, <2>1, <3>2, <3>4
    <3> QED BY <1>0, <3>3, <3>5 DEF CcKinds
  <2> QED BY <1>0, <1>6, <2>2, <2>3 DEF CcKinds
<1>10. \A w \in User : (Publisher(w)' <=> Publisher(w)) /\ proc'[w].sec = proc[w].sec
  BY <1>7 DEF Publisher
<1>11. \A s \in 0..MaxClock : file'[s].made = file[s].made
  BY <1>8
<1>12. ASSUME NEW w \in User PROVE Begun(w)'
  <2>1. Begun(w) /\ proc[w].sec \in 0..MaxClock
    BY CcParts
  <2>2. CASE w = u
    BY <1>0, <1>6, <1>7, <1>11, <2>1, <2>2 DEF Begun, Publisher
  <2>3. CASE w # u
    BY <1>6, <1>7, <1>11, <2>1, <2>3 DEF Begun, Publisher
  <2> QED BY <2>2, <2>3
<1>13. ASSUME NEW s \in 0..MaxClock PROVE Made(s)'
  <2>1. Made(s)
    BY DEF CcInv
  <2> QED BY <1>10, <1>11, <2>1 DEF Made
<1>14. ASSUME NEW w \in User, Sole(w)'
       PROVE  /\ Recorded(w)'
              /\ \A v \in User : (proc[v].cmd = "play" /\ proc[v].sec = proc[w].sec)'
                                   => Replayed(v, Lines(w))'
  <2>0. Sole(w)
    BY <1>10, <1>14 DEF Sole
  <2>1. ASSUME NEW v \in User, (proc[v].cmd = "play" /\ proc[v].sec = proc[w].sec)'
        PROVE  proc'[v] = proc[v] /\ Replayed(v, Lines(w)) /\ proc[v].sent \in Seq(Line)
    <3>1. v # u
      BY <1>0, <1>7, <2>1 DEF Publisher
    <3> QED BY <1>7, <1>10, <2>0, <2>1, <3>1, CcParts DEF CcInv
  <2>2. CASE w # u
    <3>1. Lines(w)' = Lines(w) /\ proc'[w] = proc[w]
      BY <1>0, <1>7, <1>8, <2>0, <2>2, CcParts DEF Sole, Lines
    <3>2. Recorded(w)'
      BY <2>0, <3>1 DEF CcInv, Recorded
    <3> QED BY <2>1, <3>1, <3>2 DEF Replayed
  <2>3. CASE w = u
    <3>0. PICK old : old = Lines(u)
      OBVIOUS
    <3>1. old \in Seq(Line) /\ Lines(u)' = Append(old, row)
      BY <1>0, <1>7, <1>8, <3>0 DEF Lines
    <3>2. /\ Len(q) = Len(old) /\ Len(q) \in Nat
          /\ \A k \in 1..Len(old) : old[k] = [time |-> q[k].time - proc[u].first, msg |-> q[k].msg]
      BY <1>0, <2>0, <2>3, <3>0, <3>1 DEF CcInv, Recorded
    <3>3. /\ Len(Append(old, row)) = Len(old) + 1 /\ Len(Append(q, out)) = Len(q) + 1
          /\ Append(old, row)[Len(old) + 1] = row /\ Append(q, out)[Len(q) + 1] = out
          /\ \A k \in 1..Len(old) : Append(old, row)[k] = old[k] /\ Append(q, out)[k] = q[k]
      BY <1>0, <1>5, <3>1, <3>2, AppendParts
    <3>4. ASSUME NEW k \in 1..(Len(old) + 1)
          PROVE  Append(old, row)[k] = [time |-> Append(q, out)[k].time - proc'[u].first,
                                        msg |-> Append(q, out)[k].msg]
      <4>1. CASE k = Len(old) + 1
        <5>1. row.time = clock - proc'[u].first
          BY <1>0, <1>3, <1>7 DEF Stamp
        <5> QED BY <1>3, <1>4, <3>2, <3>3, <4>1, <5>1
      <4>2. CASE k # Len(old) + 1
        <5>1. k \in 1..Len(old) /\ q # <<>>
          BY <1>0, <3>2, <4>2
        <5> QED BY <1>7, <3>2, <3>3, <5>1
      <4> QED BY <4>1, <4>2
    <3>5. Recorded(u)'
      BY <1>7, <3>1, <3>2, <3>3, <3>4 DEF Recorded
    <3>6. ASSUME NEW v \in User, (proc[v].cmd = "play" /\ proc[v].sec = proc[w].sec)'
          PROVE  Replayed(v, Lines(w))'
      <4>1. proc'[v] = proc[v] /\ Replayed(v, old) /\ proc[v].sent \in Seq(Line)
        BY <2>1, <2>3, <3>0, <3>6
      <4>2. Len(proc[v].sent) \in Nat /\ (proc[v].sent # <<>> => Len(proc[v].sent) > 0)
        BY <4>1
      <4>3. Replayed(v, Append(old, row))
        BY <3>2, <3>3, <4>1, <4>2 DEF Replayed
      <4> QED BY <2>3, <3>1, <4>1, <4>3 DEF Replayed
    <3> QED BY <2>3, <3>5, <3>6
  <2> QED BY <2>2, <2>3
<1> QED
  BY <1>9, <1>12, <1>13, <1>14 DEF CcInv

\* A publisher that is interrupted between the publishing and the writing: one
\* message more, and no step after it.
LEMMA LastMessage ==
  ASSUME CcInv, NEW u \in User, NEW out \in Line, proc[u].at = "leave", proc[u].cmd = "pub",
         held' \subseteq held, UNCHANGED <<clock, file>>,
         proc' = [proc EXCEPT ![u].at = "over", ![u].sent = Append(@, out)]
  PROVE  CcInv'
<1> DEFINE q == proc[u].sent
<1>0. /\ CcKinds /\ Begun(u) /\ q \in Seq(Line) /\ Publisher(u) /\ Lines(u) \in Seq(Line)
  BY CcParts DEF CcInv, Publisher
<1>1. /\ proc'[u].sent = Append(q, out) /\ proc'[u].cmd = proc[u].cmd
      /\ proc'[u].sec = proc[u].sec /\ proc'[u].first = proc[u].first
      /\ proc'[u].at = "over" /\ \A w \in User \ {u} : proc'[w] = proc[w]
  BY <1>0 DEF CcKinds
<1>2. CcKinds'
  <2>1. Append(q, out) \in Seq(Line)
    BY <1>0, AppendParts
  <2>2. proc' \in [User -> [at : {"idle", "register", "run", "leave", "over"}, cmd : Commands,
                            sec : 0..MaxClock, first : 0..MaxClock, sent : Seq(Line)]]
    <3>1. PICK me : me = [proc[u] EXCEPT !.at = "over", !.sent = Append(q, out)]
      OBVIOUS
    <3>2. proc' = [proc EXCEPT ![u] = me]
      BY <1>0, <3>1 DEF CcKinds
    <3>3. proc[u] \in [at : {"idle", "register", "run", "leave", "over"}, cmd : Commands,
                       sec : 0..MaxClock, first : 0..MaxClock, sent : Seq(Line)]
      BY <1>0 DEF CcKinds
    <3>4. me \in [at : {"idle", "register", "run", "leave", "over"}, cmd : Commands,
                  sec : 0..MaxClock, first : 0..MaxClock, sent : Seq(Line)]
      BY <2>1, <3>1, <3>3
    <3> QED BY <1>0, <3>2, <3>4 DEF CcKinds
  <2> QED BY <1>0, <2>2 DEF CcKinds
<1>3. \A w \in User : /\ (Publisher(w)' <=> Publisher(w)) /\ proc'[w].sec = proc[w].sec
                      /\ Lines(w)' = Lines(w)
  BY <1>1 DEF Publisher, Lines
<1>4. ASSUME NEW w \in User PROVE Begun(w)'
  <2>1. Begun(w)
    BY CcParts
  <2>2. CASE w = u
    BY <1>0, <1>1, <2>2 DEF Begun, Publisher
  <2>3. CASE w # u
    BY <1>1, <2>1, <2>3 DEF Begun, Publisher
  <2> QED BY <2>2, <2>3
<1>5. ASSUME NEW s \in 0..MaxClock PROVE Made(s)'
  BY <1>3 DEF CcInv, Made
<1>6. ASSUME NEW w \in User, Sole(w)'
      PROVE  /\ Recorded(w)'
             /\ \A v \in User : (proc[v].cmd = "play" /\ proc[v].sec = proc[w].sec)'
                                  => Replayed(v, Lines(w))'
  <2>1. Sole(w)
    BY <1>3, <1>6 DEF Sole
  <2>2. Recorded(w)'
    <3>1. CASE w # u
      <4>1. Recorded(w) /\ proc'[w] = proc[w] /\ Lines(w)' = Lines(w)
        BY <1>1, <1>3, <2>1, <3>1 DEF CcInv
      <4> QED BY <4>1 DEF Recorded
    <3>2. CASE w = u
      <4>0. PICK old : old = Lines(u)
        OBVIOUS
      <4>1. /\ Len(q) = Len(old) /\ Len(q) \in Nat
            /\ \A k \in 1..Len(old) : old[k] = [time |-> q[k].time - proc[u].first,
                                                msg |-> q[k].msg]
        BY <1>0, <2>1, <3>2, <4>0 DEF CcInv, Recorded
      <4>2. /\ Len(Append(q, out)) = Len(q) + 1
            /\ \A k \in 1..Len(q) : Append(q, out)[k] = q[k]
        BY <1>0, AppendParts
      <4>3. Lines(u)' = old /\ proc'[u].sent = Append(q, out)
        BY <1>1, <1>3, <4>0
      <4>4. \A k \in 1..Len(old) : old[k] = [time |-> Append(q, out)[k].time - proc'[u].first,
                                             msg |-> Append(q, out)[k].msg]
        BY <1>1, <4>1, <4>2
      <4>5. Len(old) <= Len(Append(q, out)) /\ Len(Append(q, out)) <= Len(old) + 1
        BY <4>1, <4>2
      <4>6. Recorded(u)'
        BY <1>1, <4>3, <4>4, <4>5 DEF Recorded
      <4> QED BY <3>2, <4>6
    <3> QED BY <3>1, <3>2
  <2>3. ASSUME NEW v \in User, (proc[v].cmd = "play" /\ proc[v].sec = proc[w].sec)'
        PROVE  Replayed(v, Lines(w))'
    <3>1. v # u /\ proc'[v] = proc[v]
      BY <1>1, <2>3
    <3>2. Replayed(v, Lines(w))
      BY <1>3, <2>1, <2>3, <3>1 DEF CcInv
    <3> QED BY <1>3, <3>1, <3>2 DEF Replayed
  <2> QED BY <2>2, <2>3
<1> QED
  BY <1>2, <1>4, <1>5, <1>6 DEF CcInv

LEMMA PlayStep ==
  ASSUME CcInv, NEW u \in User, PlayLine(u)
  PROVE  CcInv'
<1> DEFINE q == proc[u].sent
           n == Len(proc[u].sent)
<1>0. /\ CcKinds /\ Begun(u) /\ q \in Seq(Line) /\ proc[u].cmd = "play" /\ Lines(u) \in Seq(Line)
      /\ n \in Nat /\ n + 1 <= Len(Lines(u)) /\ proc[u].at = "run" /\ clock \in 0..MaxClock
      /\ MaxClock \in Nat
  BY CcParts DEF CcInv, PlayLine
<1>1. PICK lines : lines = Lines(u)
  OBVIOUS
<1>2. /\ lines \in Seq(Line) /\ n + 1 \in 1..Len(lines) /\ Len(lines) \in Nat
      /\ lines[n + 1] \in Line
      /\ lines[n + 1].time \in 0..MaxClock /\ lines[n + 1].msg \in User \X (1..MaxLines)
  <2>1. lines \in Seq(Line) /\ n + 1 \in 1..Len(lines) /\ Len(lines) \in Nat
    BY <1>0, <1>1
  <2>2. lines[n + 1] \in Line
    BY <2>1
  <2> QED BY <2>1, <2>2 DEF Line
<1>3. PICK out : out = [time |-> clock, msg |-> lines[n + 1].msg]
  OBVIOUS
<1>4. out \in Line
  BY <1>0, <1>2, <1>3 DEF Line
<1>5. /\ UNCHANGED <<clock, held, file>>
      /\ proc' = [proc EXCEPT ![u].sent = Append(@, out), ![u].first = lines[n + 1].time]
      /\ n + 1 # 1 => clock >= q[n + 1 - 1].time + (lines[n + 1].time - proc[u].first)
  BY <1>1, <1>3 DEF PlayLine
<1>6. /\ proc'[u].sent = Append(q, out) /\ proc'[u].cmd = "play"
      /\ proc'[u].sec = proc[u].sec /\ proc'[u].first = lines[n + 1].time
      /\ proc'[u].at = "run" /\ \A w \in User \ {u} : proc'[w] = proc[w]
  BY <1>0, <1>5 DEF CcKinds
<1>7. CcKinds'
  <2>1. Append(q, out) \in Seq(Line)
    BY <1>0, <1>4, AppendParts
  <2>2. proc' \in [User -> [at : {"idle", "register", "run", "leave", "over"}, cmd : Commands,
                            sec : 0..MaxClock, first : 0..MaxClock, sent : Seq(Line)]]
    <3>1. PICK me : me = [proc[u] EXCEPT !.sent = Append(q, out), !.first = lines[n + 1].time]
      OBVIOUS
    <3>2. proc' = [proc EXCEPT ![u] = me]
      BY <1>0, <1>5, <3>1 DEF CcKinds
    <3>3. proc[u] \in [at : {"idle", "register", "run", "leave", "over"}, cmd : Commands,
                       sec : 0..MaxClock, first : 0..MaxClock, sent : Seq(Line)]
      BY <1>0 DEF CcKinds
    <3>4. me \in [at : {"idle", "register", "run", "leave", "over"}, cmd : Commands,
                  sec : 0..MaxClock, first : 0..MaxClock, sent : Seq(Line)]
      BY <1>2, <2>1, <3>1, <3>3
    <3> QED BY <1>0, <3>2, <3>4 DEF CcKinds
  <2> QED BY <1>0, <1>5, <2>2 DEF CcKinds
<1>8. \A w \in User : /\ (Publisher(w)' <=> Publisher(w)) /\ proc'[w].sec = proc[w].sec
                      /\ Lines(w)' = Lines(w)
  BY <1>0, <1>5, <1>6 DEF Publisher, Lines
<1>9. ~Publisher(u)
  BY <1>0 DEF Publisher
<1>10. ASSUME NEW w \in User PROVE Begun(w)'
  <2>1. Begun(w)
    BY CcParts
  <2>2. CASE w = u
    BY <1>0, <1>5, <1>6, <2>2 DEF Begun, Publisher
  <2>3. CASE w # u
    BY <1>5, <1>6, <2>1, <2>3 DEF Begun, Publisher
  <2> QED BY <2>2, <2>3
<1>11. ASSUME NEW s \in 0..MaxClock PROVE Made(s)'
  BY <1>5, <1>8 DEF CcInv, Made
<1>12. ASSUME NEW w \in User, Sole(w)'
       PROVE  /\ Recorded(w)'
              /\ \A v \in User : (proc[v].cmd = "play" /\ proc[v].sec = proc[w].sec)'
                                   => Replayed(v, Lines(w))'
  <2>1. Sole(w) /\ w # u
    BY <1>8, <1>9, <1>12 DEF Sole
  <2>2. Recorded(w)'
    BY <1>6, <1>8, <2>1 DEF CcInv, Recorded
  <2>3. ASSUME NEW v \in User, (proc[v].cmd = "play" /\ proc[v].sec = proc[w].sec)'
        PROVE  Replayed(v, Lines(w))'
    <3>1. proc[v].cmd = "play" /\ proc[v].sec = proc[w].sec
      BY <1>0, <1>6, <1>8, <2>3
    <3>2. Replayed(v, Lines(w))
      BY <2>1, <3>1 DEF CcInv
    <3>3. CASE v # u
      BY <1>6, <1>8, <3>2, <3>3 DEF Replayed
    <3>4. CASE v = u
      <4>1. Lines(w) = lines /\ Lines(w)' = lines
        BY <1>1, <1>8, <3>1, <3>4 DEF Lines
      <4>2. /\ n > 0 => proc[u].first = lines[n].time
            /\ \A k \in 1..n :
                 /\ q[k].msg = lines[k].msg
                 /\ k > 1 => q[k].time - q[k - 1].time >= lines[k].time - lines[k - 1].time
        BY <1>0, <3>2, <3>4, <4>1 DEF Replayed
      <4>3. /\ Len(Append(q, out)) = n + 1 /\ Append(q, out)[n + 1] = out
            /\ \A k \in 1..n : Append(q, out)[k] = q[k]
        BY <1>0, <1>4, AppendParts
      <4>4. ASSUME NEW k \in 1..(n + 1)
            PROVE  /\ Append(q, out)[k].msg = lines[k].msg
                   /\ k > 1 => Append(q, out)[k].time - Append(q, out)[k - 1].time
                                 >= lines[k].time - lines[k - 1].time
        <5>1. CASE k = n + 1
          <6>1. Append(q, out)[k].msg = lines[k].msg
            BY <1>3, <4>3, <5>1
          <6>2. ASSUME k > 1
                PROVE  Append(q, out)[k].time - Append(q, out)[k - 1].time
                         >= lines[k].time - lines[k - 1].time
            <7>1. n > 0 /\ n \in 1..n /\ k - 1 = n /\ n + 1 - 1 = n /\ n \in 1..Len(lines)
              BY <1>0, <1>2, <5>1, <6>2
            <7>2. q[n] \in Line /\ lines[n] \in Line
              BY <1>0, <1>2, <7>1
            <7>3. q[n].time \in Nat /\ lines[n].time \in Nat /\ lines[n + 1].time \in Nat
                  /\ clock \in Nat
              <8>1. q[n].time \in 0..MaxClock /\ lines[n].time \in 0..MaxClock
                BY <7>2 DEF Line
              <8> QED BY <1>0, <1>2, <8>1
            <7>4. clock >= q[n].time + (lines[n + 1].time - lines[n].time)
              BY <1>0, <1>5, <4>2, <7>1
            <7>5. Append(q, out)[k].time = clock /\ Append(q, out)[k - 1].time = q[n].time
              BY <1>3, <4>3, <5>1, <7>1
            <7>6. clock - q[n].time >= lines[n + 1].time - lines[n].time
              BY <7>3, <7>4
            <7> QED BY <5>1, <7>1, <7>5, <7>6
          <6> QED BY <6>1, <6>2
        <5>2. CASE k # n + 1
          <6>1. k \in 1..n /\ (k > 1 => k - 1 \in 1..n)
            BY <1>0, <5>2
          <6> QED BY <4>2, <4>3, <6>1
        <5> QED BY <5>1, <5>2
      <4>5. /\ proc'[u].sent = Append(q, out) /\ proc'[u].first = lines[n + 1].time
            /\ n + 1 <= Len(lines)
        BY <1>2, <1>6
      <4>6. Replayed(u, lines)'
        BY <4>3, <4>4, <4>5 DEF Replayed
      <4> QED BY <3>4, <4>1, <4>6 DEF Replayed
    <3> QED BY <3>3, <3>4
  <2> QED BY <2>2, <2>3
<1> QED
  BY <1>7, <1>10, <1>11, <1>12 DEF CcInv

LEMMA CcStep ==
  ASSUME CcInv, [CcNext]_ccVars
  PROVE  CcInv'
<1>1. CASE UNCHANGED ccVars
  <2>1. CcKinds' /\ clock' >= clock
    BY <1>1, ClientCmdAssumption DEF CcInv, CcKinds, ccVars
  <2> QED BY <1>1, <2>1, QuietStep DEF ccVars
<1>2. CASE Tick
  BY <1>2, TickStep
<1>3. ASSUME NEW u \in User, RunPub(u, "pub") \/ RunPub(u, "once")
      PROVE  CcInv'
  BY <1>3, PubStart
<1>4. ASSUME NEW u \in User, RunEcho(u) PROVE CcInv'
  BY <1>4, EchoStep
<1>5. ASSUME NEW u \in User, PrintsAndEnds(u) PROVE CcInv'
  BY <1>5, AtStep DEF PrintsAndEnds
<1>6. ASSUME NEW u \in User, NEW s \in 0..MaxClock, RunPlay(u, s) PROVE CcInv'
  BY <1>6, PlayStart
<1>7. ASSUME NEW u \in User, Register(u) PROVE CcInv'
  <2>1. CASE NodeName[proc[u].cmd] \notin held
    BY <1>7, <2>1, AtStep DEF Register
  <2>2. CASE NodeName[proc[u].cmd] \in held
    BY <1>7, <2>2, AtStep DEF Register
  <2> QED BY <2>1, <2>2
<1>8. ASSUME NEW u \in User, PublishMessage(u) PROVE CcInv'
  BY <1>8, PublishStep
<1>9. ASSUME NEW u \in User, PlayLine(u) PROVE CcInv'
  BY <1>9, PlayStep
<1>10. ASSUME NEW u \in User, PlayEnds(u) \/ Interrupt(u) PROVE CcInv'
  BY <1>10, AtStep DEF PlayEnds, Interrupt
<1>11. ASSUME NEW u \in User, LeaveNode(u) PROVE CcInv'
  <2>1. /\ proc[u].at = "leave" /\ held' \subseteq held /\ UNCHANGED <<clock, file>>
    BY <1>11 DEF LeaveNode
  <2>2. CASE proc' = [proc EXCEPT ![u].at = "over"]
    BY <2>1, <2>2, AtStep
  <2>3. CASE proc' # [proc EXCEPT ![u].at = "over"]
    <3>1. /\ proc[u].cmd = "pub" /\ Len(proc[u].sent) < MaxLines
          /\ proc' = [proc EXCEPT ![u].at = "over",
                        ![u].sent = Append(@, [time |-> clock, msg |-> <<u, Len(@) + 1>>])]
      BY <1>11, <2>3, Zenon DEF LeaveNode
    <3>2. PICK out : out = [time |-> clock, msg |-> <<u, Len(proc[u].sent) + 1>>]
      OBVIOUS
    <3>3. out \in Line
      <4>1. Len(proc[u].sent) \in Nat /\ clock \in 0..MaxClock
        BY CcParts
      <4>2. Len(proc[u].sent) + 1 \in 1..MaxLines
        BY <3>1, <4>1, ClientCmdAssumption
      <4> QED BY <3>2, <4>1, <4>2 DEF Line
    <3>4. proc' = [proc EXCEPT ![u].at = "over", ![u].sent = Append(@, out)]
      BY <3>1, <3>2 DEF CcInv, CcKinds
    <3> QED BY <2>1, <3>1, <3>3, <3>4, LastMessage
  <2> QED BY <2>2, <2>3
<1> QED
  BY <1>1, <1>2, <1>3, <1>4, <1>5, <1>6, <1>7, <1>8, <1>9, <1>10, <1>11 DEF CcNext

\* What pub records is what it has published, and bag play publishes it again in the
\* same order and never faster: main.cpp's publish_message and bag_play, for any
\* number of users, messages and seconds.
THEOREM ReplayCorrect == CcSpec => []RecordAndReplay
<1>1. CcInit => CcInv
  <2> SUFFICES ASSUME CcInit PROVE CcInv
    OBVIOUS
  <2>1. <<>> \in Seq(Line) /\ 0 \in 0..MaxClock
    BY ClientCmdAssumption
  <2>2. file \in [0..MaxClock -> [made : BOOLEAN, lines : Seq(Line)]]
    BY <2>1, Zenon DEF CcInit, NoFile
  <2>3. CcKinds
    BY <2>1, <2>2 DEF CcInit, CcKinds, Idle, Commands
  <2>4. \A u \in User : proc[u] = Idle /\ ~Publisher(u) /\ proc[u].cmd = "echo"
    BY DEF CcInit, Publisher, Idle
  <2>5. \A s \in 0..MaxClock : ~file[s].made
    BY DEF CcInit, NoFile
  <2> QED BY <2>3, <2>4, <2>5 DEF CcInv, Begun, Made, Sole
<1>2. CcInv /\ [CcNext]_ccVars => CcInv'
  BY CcStep
<1>3. CcInv => RecordAndReplay
  <2> SUFFICES ASSUME CcInv PROVE RecordAndReplay
    OBVIOUS
  <2>1. CcTypeOK
    <3>1. clock \in 0..MaxClock /\ held \subseteq {"echo_node", "publish_node", "bagplay_node"}
      BY DEF CcInv, CcKinds
    <3>2. ASSUME NEW s \in 0..MaxClock, NEW k \in DOMAIN file[s].lines
          PROVE  file[s].lines[k] \in Line
      <4>1. file[s].lines \in Seq(Line)
        BY DEF CcInv, CcKinds
      <4> QED BY <3>2, <4>1
    <3>3. ASSUME NEW u \in User
          PROVE  /\ proc[u].at \in {"idle", "register", "run", "leave", "over"}
                 /\ proc[u].cmd \in DOMAIN NodeName
                 /\ \A k \in DOMAIN proc[u].sent : proc[u].sent[k] \in Line
      <4>1. /\ proc[u].sent \in Seq(Line) /\ proc[u].cmd \in Commands
            /\ proc[u].at \in {"idle", "register", "run", "leave", "over"}
        BY CcParts
      <4>2. proc[u].cmd \in DOMAIN NodeName
        BY <4>1 DEF Commands, NodeName
      <4> QED BY <4>1, <4>2
    <3> QED BY <3>1, <3>2, <3>3 DEF CcTypeOK
  <2>2. ASSUME NEW u \in Recorders
        PROVE  LET out == proc[u].sent IN
               /\ Len(out) - Len(Lines(u)) \in 0..(IF proc[u].at = "over" THEN 1 ELSE 0)
               /\ \A k \in DOMAIN Lines(u) :
                    Lines(u)[k] = [time |-> out[k].time - proc[u].first, msg |-> out[k].msg]
               /\ \A v \in User : (proc[v].cmd = "play" /\ proc[v].sec = proc[u].sec) =>
                    \A k \in DOMAIN proc[v].sent :
                      /\ proc[v].sent[k].msg = out[k].msg
                      /\ k > 1 => proc[v].sent[k].time - proc[v].sent[k - 1].time
                                    >= out[k].time - out[k - 1].time
    <3>0. PICK out, lines, f : out = proc[u].sent /\ lines = Lines(u) /\ f = proc[u].first
      OBVIOUS
    <3>1. u \in User /\ Sole(u)
      BY <2>2 DEF Recorders, Sole, Publisher
    <3>2. /\ out \in Seq(Line) /\ lines \in Seq(Line) /\ Len(out) \in Nat
          /\ Len(lines) \in Nat /\ DOMAIN lines = 1..Len(lines) /\ f \in Nat
      BY <3>0, <3>1, CcParts
    <3>3. Recorded(u)
      BY <3>1 DEF CcInv
    <3>4. /\ Len(lines) <= Len(out) /\ Len(out) <= Len(lines) + 1
          /\ proc[u].at # "over" => Len(out) = Len(lines)
          /\ \A k \in 1..Len(lines) : lines[k] = [time |-> out[k].time - f, msg |-> out[k].msg]
      BY <3>0, <3>3 DEF Recorded
    <3>5. Len(out) - Len(lines) \in 0..(IF proc[u].at = "over" THEN 1 ELSE 0)
      BY <3>2, <3>4
    <3>6. ASSUME NEW v \in User, proc[v].cmd = "play", proc[v].sec = proc[u].sec,
                 NEW k \in DOMAIN proc[v].sent
          PROVE  /\ proc[v].sent[k].msg = out[k].msg
                 /\ k > 1 => proc[v].sent[k].time - proc[v].sent[k - 1].time
                               >= out[k].time - out[k - 1].time
      <4>1. Replayed(v, lines)
        BY <3>0, <3>1, <3>6 DEF CcInv
      <4>2. PICK p : p = proc[v].sent
        OBVIOUS
      <4>3. p \in Seq(Line) /\ k \in 1..Len(p) /\ Len(p) \in Nat
        BY <3>6, <4>2, CcParts
      <4>4. /\ Len(p) <= Len(lines) /\ p[k].msg = lines[k].msg
            /\ k > 1 => p[k].time - p[k - 1].time >= lines[k].time - lines[k - 1].time
        BY <4>1, <4>2, <4>3 DEF Replayed
      <4>5. k \in 1..Len(lines) /\ k \in 1..Len(out)
        BY <3>2, <3>4, <4>3, <4>4
      <4>6. p[k].msg = out[k].msg
        <5>1. lines[k] = [time |-> out[k].time - f, msg |-> out[k].msg]
          BY <3>4, <4>5
        <5> QED BY <4>4, <5>1
      <4>7. ASSUME k > 1
            PROVE  p[k].time - p[k - 1].time >= out[k].time - out[k - 1].time
        <5>1. k - 1 \in 1..Len(lines) /\ k - 1 \in 1..Len(out)
          BY <3>2, <4>5, <4>7
        <5>2. out[k] \in Line /\ out[k - 1] \in Line
          BY <3>2, <4>5, <5>1
        <5>3. out[k].time \in Nat /\ out[k - 1].time \in Nat
          BY <5>2, ClientCmdAssumption DEF Line
        <5>4. lines[k].time = out[k].time - f /\ lines[k - 1].time = out[k - 1].time - f
          <6>1. /\ lines[k] = [time |-> out[k].time - f, msg |-> out[k].msg]
                /\ lines[k - 1] = [time |-> out[k - 1].time - f, msg |-> out[k - 1].msg]
            BY <3>4, <4>5, <5>1
          <6> QED BY <6>1
        <5>5. lines[k].time - lines[k - 1].time = out[k].time - out[k - 1].time
          BY <3>2, <5>3, <5>4
        <5> QED BY <4>4, <4>7, <5>5
      <4> QED BY <4>2, <4>6, <4>7
    <3> QED BY <3>0, <3>2, <3>4, <3>5, <3>6
  <2> QED BY <2>1, <2>2 DEF RecordAndReplay
<1> QED
  BY <1>1, <1>2, <1>3, PTL DEF CcSpec

-----------------------------------------------------------------------------
(* The DGPS node *)

\* The number with which the receiver sends a piece: the inverse of PieceNo.
Number(p) == IF p[2] = "a" THEN 2 * p[1] - 1 ELSE 2 * p[1]

\* What a string and the threads before it hold, in the order of the receiver.
Chunk == IF reader.at = "nmea" THEN reader.got ELSE <<>>
NmeaChain == g_nmea \o Chunk \o tty
SbufChain == sbuf \o reader.got \o tty

\* A line that was taken ends with a newline that the receiver sent before anything
\* that is still on the way.
Cut(line, q, n) ==
  /\ line # <<>> /\ line[Len(line)] \in Piece /\ line[Len(line)][2] = "b"
  /\ Number(line[Len(line)]) <= n
  /\ \A i \in 1..Len(q) : Number(line[Len(line)]) < Number(q[i])

\* Pieces on the way are in order.
Flow(lines, q, n) ==
  /\ q \in Seq(Piece) /\ lines \in Seq(Seq(Piece))
  /\ \A i \in 1..Len(q) : Number(q[i]) <= n
  /\ \A i, j \in 1..Len(q) : i < j => Number(q[i]) < Number(q[j])
  /\ \A k \in 1..Len(lines) : Cut(lines[k], q, n)
  /\ Rising(lines)

\* None of them is missing, and the last of them is the last that was sent.
Whole(lines, q) ==
  /\ \A i \in 1..Len(q) : i > 1 => Number(q[i]) = Number(q[i - 1]) + 1
  /\ \A k \in 1..Len(lines) : WholeLine(lines[k])
Level(q, n) == q # <<>> => Number(q[Len(q)]) = n

Bare == g_nmea = <<>> /\ sbuf = <<>> /\ reader.got = <<>> /\ tty = <<>>

\* The threads that have found the device closed and are about to open it.
About == (IF reader.at = "init" THEN 1 ELSE 0) + (IF opening THEN 1 ELSE 0)

\* A device that is plugged in and was opened is open, and at most two openings
\* come together.
DeviceInv ==
  /\ sx.opens \in 0..2
  /\ at = "start" => sx.opens = 0 /\ ~opening /\ reader.at = "loop"
  /\ sx.opens = 0 => ~sx.open /\ Bare
  /\ sx.opens > 0 /\ plugged => sx.open /\ sx.opens + About <= 2

DgKinds ==
  /\ node \in {"up", "joining", "gone"}
  /\ sx \in [open : BOOLEAN, opens : Nat]
  /\ plugged \in BOOLEAN /\ opening \in BOOLEAN
  /\ produced \in 0..MaxPieces
  /\ tty \in Seq(Piece) /\ g_nmea \in Seq(Piece) /\ sbuf \in Seq(Piece)
  /\ reader \in [at : {"loop", "init", "nmea", "sbuf"}, got : Seq(Piece)]
  /\ reader.at \in {"loop", "init"} => reader.got = <<>>

\* A device that is opened once loses nothing until it is unplugged.
FlowInv(lines, q) ==
  /\ Flow(lines, q, produced)
  /\ sx.opens <= 1 => Whole(lines, q)
  /\ sx.opens <= 1 /\ plugged => Level(q, produced)
NmeaFlow == FlowInv(published, NmeaChain)
SbufFlow == FlowInv(sent, SbufChain)

DgInv == NtInv /\ DgKinds /\ DeviceInv /\ NmeaFlow /\ SbufFlow

\* The order of the numbers is well-founded.
LEMMA OrderedNaturals ==
  \E R : IsWellFoundedOn(R, Nat) /\ \A x, y \in Nat : x < y => <<x, y>> \in R
<1>1. IsWellFoundedOn(OpToRel(<, Nat), Nat)
  BY NatLessThanWellFounded
<1>2. \A x, y \in Nat : x < y => <<x, y>> \in OpToRel(<, Nat)
  BY Zenon DEF OpToRel
<1> QED
  BY <1>1, <1>2, Zenon

\* A set of numbers that is not empty has a least one.
LEMMA Least ==
  ASSUME NEW T, T \subseteq Nat, T # {}
  PROVE  \E x \in T : \A y \in T : x <= y
<1>1. PICK R : IsWellFoundedOn(R, Nat) /\ \A x, y \in Nat : x < y => <<x, y>> \in R
  BY OrderedNaturals
<1>2. PICK x \in T : \A y \in T : ~(<<y, x>> \in R)
  <2>1. IsWellFoundedOn(R, Nat)
    BY <1>1, Zenon
  <2>2. \E x \in T : \A y \in T : ~(<<y, x>> \in R)
    BY ONLY <2>1, T \subseteq Nat, T # {}, WFMin, Zenon
  <2> QED BY ONLY <2>2, Zenon
<1>3. \A y \in T : ~(y < x)
  BY <1>1, <1>2
<1>4. \A y \in T : x <= y
  BY <1>3
<1> QED
  BY <1>4

\* The pieces and their numbers.
LEMMA PieceNumbers ==
  /\ \A p \in Piece : /\ Number(p) \in Nat /\ p[1] \in Nat /\ p[2] \in {"a", "b"}
                      /\ p = <<p[1], p[2]>>
  /\ \A n \in 1..MaxPieces : PieceNo(n) \in Piece /\ Number(PieceNo(n)) = n
<1> USE DgpsNodeAssumption DEF Piece, Number
<1>1. ASSUME NEW p \in Piece
      PROVE  Number(p) \in Nat /\ p[1] \in Nat /\ p[2] \in {"a", "b"} /\ p = <<p[1], p[2]>>
  BY <1>1
<1>2. ASSUME NEW n \in 1..MaxPieces PROVE PieceNo(n) \in Piece /\ Number(PieceNo(n)) = n
  <2>1. CASE n % 2 = 1
    <3>1. PieceNo(n) = <<(n + 1) \div 2, "a">> /\ (n + 1) \div 2 \in 1..MaxPieces
          /\ 2 * ((n + 1) \div 2) - 1 = n
      BY <2>1 DEF PieceNo
    <3> QED BY <3>1
  <2>2. CASE n % 2 # 1
    <3>1. PieceNo(n) = <<n \div 2, "b">> /\ n \div 2 \in 1..MaxPieces /\ 2 * (n \div 2) = n
      BY <2>2 DEF PieceNo
    <3> QED BY <3>1
  <2> QED BY <2>1, <2>2
<1> QED
  BY <1>1, <1>2

\* The places of sequences in their concatenation.
LEMMA Joined ==
  ASSUME NEW S, NEW a \in Seq(S), NEW b \in Seq(S)
  PROVE  /\ a \o b \in Seq(S)
         /\ Len(a) \in Nat /\ Len(b) \in Nat /\ Len(a \o b) = Len(a) + Len(b)
         /\ \A i \in 1..Len(a) : (a \o b)[i] = a[i]
         /\ \A i \in 1..Len(b) : (a \o b)[Len(a) + i] = b[i]
<1>1. a \o b \in Seq(S)
  OBVIOUS
<1>2. Len(a) \in Nat /\ Len(b) \in Nat /\ Len(a \o b) = Len(a) + Len(b)
  OBVIOUS
<1>3. \A i \in 1..Len(a) : (a \o b)[i] = a[i]
  BY <1>2
<1>4. ASSUME NEW i \in 1..Len(b) PROVE (a \o b)[Len(a) + i] = b[i]
  <2>1. Len(a) + i \in 1..(Len(a) + Len(b)) /\ Len(a) + i > Len(a) /\ (Len(a) + i) - Len(a) = i
    BY <1>2
  <2> QED BY <1>2, <2>1
<1> QED
  BY <1>1, <1>2, <1>3, <1>4

LEMMA Places ==
  ASSUME NEW S, NEW a \in Seq(S), NEW b \in Seq(S), NEW c \in Seq(S)
  PROVE  /\ a \o b \o c \in Seq(S)
         /\ Len(a) \in Nat /\ Len(b) \in Nat /\ Len(c) \in Nat
         /\ Len(a \o b \o c) = Len(a) + Len(b) + Len(c)
         /\ \A i \in 1..Len(a) : (a \o b \o c)[i] = a[i]
         /\ \A i \in 1..Len(b) : (a \o b \o c)[Len(a) + i] = b[i]
         /\ \A i \in 1..Len(c) : (a \o b \o c)[Len(a) + Len(b) + i] = c[i]
<1>1. /\ a \o b \in Seq(S) /\ Len(a \o b) = Len(a) + Len(b)
      /\ Len(a) \in Nat /\ Len(b) \in Nat /\ Len(c) \in Nat
      /\ \A i \in 1..Len(a) : (a \o b)[i] = a[i]
      /\ \A i \in 1..Len(b) : (a \o b)[Len(a) + i] = b[i]
  BY Joined
<1>2. PICK d : d = a \o b
  OBVIOUS
<1>3. /\ d \o c \in Seq(S) /\ Len(d \o c) = Len(d) + Len(c)
      /\ \A i \in 1..Len(d) : (d \o c)[i] = d[i]
      /\ \A i \in 1..Len(c) : (d \o c)[Len(d) + i] = c[i]
  BY <1>1, <1>2, Joined
<1>4. ASSUME NEW i \in 1..Len(a) PROVE (d \o c)[i] = a[i]
  BY <1>1, <1>2, <1>3
<1>5. ASSUME NEW i \in 1..Len(b) PROVE (d \o c)[Len(a) + i] = b[i]
  <2>1. Len(a) + i \in 1..Len(d)
    BY <1>1, <1>2
  <2> QED BY <1>1, <1>2, <1>3, <2>1
<1>6. /\ d \o c \in Seq(S) /\ Len(d \o c) = Len(a) + Len(b) + Len(c)
      /\ \A i \in 1..Len(c) : (d \o c)[Len(a) + Len(b) + i] = c[i]
  BY <1>1, <1>2, <1>3
<1> QED
  BY <1>1, <1>2, <1>4, <1>5, <1>6

\* A flow from which something is taken away at one end or at both, or cut anew.
LEMMA FlowPart ==
  ASSUME NEW lines, NEW q, NEW n \in Nat, Flow(lines, q, n),
         NEW r \in Seq(Piece), NEW k \in Nat, Len(r) + k <= Len(q),
         \A i \in 1..Len(r) : r[i] = q[i + k]
  PROVE  /\ Flow(lines, r, n)
         /\ Whole(lines, q) => Whole(lines, r)
         /\ Level(q, n) /\ Len(r) + k = Len(q) => Level(r, n)
<1>1. /\ Len(r) \in Nat /\ Len(q) \in Nat /\ q \in Seq(Piece)
      /\ \A i \in 1..Len(r) : i + k \in 1..Len(q)
  BY DEF Flow
<1>2. \A i \in 1..Len(q) : Number(q[i]) \in Nat
  BY <1>1, PieceNumbers
<1>3. \A i \in 1..Len(r) : Number(r[i]) <= n
  BY <1>1 DEF Flow
<1>4. ASSUME NEW i \in 1..Len(r), NEW j \in 1..Len(r), i < j
      PROVE  Number(r[i]) < Number(r[j])
  <2>1. i + k \in 1..Len(q) /\ j + k \in 1..Len(q) /\ i + k < j + k
    BY <1>1, <1>4
  <2> QED BY <2>1 DEF Flow
<1>5. \A m \in 1..Len(lines) : Cut(lines[m], r, n)
  BY <1>1 DEF Flow, Cut
<1>6. ASSUME Whole(lines, q), NEW i \in 1..Len(r), i > 1 PROVE Number(r[i]) = Number(r[i - 1]) + 1
  <2>1. /\ i + k \in 1..Len(q) /\ i + k > 1 /\ (i - 1) + k = (i + k) - 1 /\ i - 1 \in 1..Len(r)
    BY <1>1, <1>6
  <2>2. Number(q[i + k]) = Number(q[(i + k) - 1]) + 1
    BY <1>6, <2>1 DEF Whole
  <2> QED BY <2>1, <2>2
<1>7. ASSUME Level(q, n), Len(r) + k = Len(q), r # <<>> PROVE Number(r[Len(r)]) = n
  <2>1. Len(r) \in 1..Len(r) /\ q # <<>>
    BY <1>1, <1>7
  <2>2. Number(q[Len(q)]) = n
    BY <1>7, <2>1 DEF Level
  <2> QED BY <1>7, <2>1, <2>2
<1>8. Flow(lines, r, n)
  BY <1>3, <1>4, <1>5 DEF Flow
<1>9. Whole(lines, q) => Whole(lines, r)
  BY <1>6 DEF Whole
<1>10. Level(q, n) /\ Len(r) + k = Len(q) => Level(r, n)
  BY <1>7 DEF Level
<1> QED
  BY <1>8, <1>9, <1>10

\* The receiver sends the next piece, and it is kept.
LEMMA FlowMore ==
  ASSUME NEW lines, NEW q, NEW n \in Nat, Flow(lines, q, n), n + 1 \in 1..MaxPieces,
         NEW r \in Seq(Piece), Len(r) = Len(q) + 1,
         \A i \in 1..Len(q) : r[i] = q[i], r[Len(q) + 1] = PieceNo(n + 1)
  PROVE  /\ Flow(lines, r, n + 1) /\ Level(r, n + 1)
         /\ Whole(lines, q) /\ Level(q, n) => Whole(lines, r)
<1>1. /\ Len(r) \in Nat /\ Len(q) \in Nat /\ q \in Seq(Piece)
      /\ 1..Len(r) = 1..Len(q) \cup {Len(q) + 1}
  BY DEF Flow
<1>2. /\ \A i \in 1..Len(q) : Number(q[i]) \in Nat /\ Number(q[i]) <= n
      /\ Number(r[Len(q) + 1]) = n + 1
  BY <1>1, PieceNumbers DEF Flow
<1>3. \A i \in 1..Len(r) : Number(r[i]) <= n + 1
  BY <1>1, <1>2
<1>4. ASSUME NEW i \in 1..Len(r), NEW j \in 1..Len(r), i < j
      PROVE  Number(r[i]) < Number(r[j])
  <2>1. i \in 1..Len(q)
    BY <1>1, <1>4
  <2>2. CASE j \in 1..Len(q)
    BY <1>4, <2>1, <2>2 DEF Flow
  <2>3. CASE j = Len(q) + 1
    BY <1>2, <2>1, <2>3
  <2> QED BY <1>1, <2>2, <2>3
<1>5. ASSUME NEW k \in 1..Len(lines) PROVE Cut(lines[k], r, n + 1)
  <2>1. Cut(lines[k], q, n)
    BY DEF Flow
  <2>2. PICK x \in Nat : x = Number(lines[k][Len(lines[k])])
    BY <2>1, PieceNumbers DEF Cut
  <2>3. x <= n /\ \A i \in 1..Len(q) : x < Number(q[i])
    BY <2>1, <2>2 DEF Cut
  <2>4. x <= n + 1 /\ \A i \in 1..Len(r) : x < Number(r[i])
    BY <1>1, <1>2, <2>3
  <2> QED BY <2>1, <2>2, <2>4 DEF Cut
<1>6. ASSUME Whole(lines, q), Level(q, n), NEW i \in 1..Len(r), i > 1
      PROVE  Number(r[i]) = Number(r[i - 1]) + 1
  <2>1. i - 1 \in 1..Len(q) /\ r[i - 1] = q[i - 1]
    BY <1>1, <1>6
  <2>2. CASE i \in 1..Len(q)
    BY <1>6, <2>1, <2>2 DEF Whole
  <2>3. CASE i = Len(q) + 1
    <3>1. q # <<>> /\ i - 1 = Len(q)
      BY <1>1, <2>1, <2>3
    <3>2. Number(q[Len(q)]) = n
      BY <1>6, <3>1 DEF Level
    <3> QED BY <1>2, <2>1, <2>3, <3>1, <3>2
  <2> QED BY <1>1, <2>2, <2>3
<1>7. Whole(lines, q) /\ Level(q, n) => Whole(lines, r)
  BY <1>6 DEF Whole
<1>8. Flow(lines, r, n + 1)
  BY <1>3, <1>4, <1>5 DEF Flow
<1>9. Level(r, n + 1)
  BY <1>2 DEF Level
<1> QED
  BY <1>7, <1>8, <1>9

\* The receiver sends and nobody listens.
LEMMA FlowMissed ==
  ASSUME NEW lines, NEW q, NEW n \in Nat, Flow(lines, q, n)
  PROVE  Flow(lines, q, n + 1)
<1>1. Len(q) \in Nat /\ q \in Seq(Piece)
  BY DEF Flow
<1>2. \A i \in 1..Len(q) : Number(q[i]) \in Nat /\ Number(q[i]) <= n + 1
  BY <1>1, PieceNumbers DEF Flow
<1>3. ASSUME NEW k \in 1..Len(lines) PROVE Cut(lines[k], q, n + 1)
  <2>1. Cut(lines[k], q, n)
    BY DEF Flow
  <2>2. PICK x \in Nat : x = Number(lines[k][Len(lines[k])])
    BY <2>1, PieceNumbers DEF Cut
  <2>3. x <= n + 1
    BY <2>1, <2>2 DEF Cut
  <2> QED BY <2>1, <2>2, <2>3 DEF Cut
<1> QED
  BY <1>2, <1>3 DEF Flow

\* What is cut off a sequence, and what is left of it.
LEMMA Split ==
  ASSUME NEW S, NEW q \in Seq(S), NEW m \in 1..Len(q)
  PROVE  LET c == SubSeq(q, 1, m)
             r == SubSeq(q, m + 1, Len(q)) IN
         /\ c \in Seq(S) /\ Len(c) = m /\ \A i \in 1..m : c[i] = q[i]
         /\ r \in Seq(S) /\ Len(r) + m = Len(q) /\ \A i \in 1..Len(r) : r[i] = q[i + m]
<1> DEFINE c == SubSeq(q, 1, m)
           r == SubSeq(q, m + 1, Len(q))
<1>1. Len(q) \in Nat /\ m \in Nat /\ 1 <= m /\ m <= Len(q)
  OBVIOUS
<1>2. c \in Seq(S) /\ Len(c) = m /\ \A i \in 1..m : c[i] = q[i]
  BY <1>1
<1>3. r \in Seq(S)
  <2>1. \A i \in (m + 1)..Len(q) : q[i] \in S
    BY <1>1
  <2> QED BY <1>1, <2>1
<1>4. Len(r) = Len(q) - m
  <2>1. CASE m + 1 <= Len(q)
    BY <1>1, <2>1
  <2>2. CASE m = Len(q)
    BY <1>1, <2>2
  <2>3. m + 1 <= Len(q) \/ m = Len(q)
    BY <1>1
  <2> QED BY <2>1, <2>2, <2>3, Zenon
<1>5. ASSUME NEW i \in 1..Len(r) PROVE r[i] = q[i + m]
  <2>1. i \in 1..(Len(q) - m)
    BY <1>4
  <2>2. i \in 1..(Len(q) - (m + 1) + 1) /\ (m + 1) + i - 1 = i + m
    BY <1>1, <2>1
  <2> QED BY <1>1, <2>2
<1>6. Len(r) + m = Len(q)
  BY <1>1, <1>4
<1> QED
  BY <1>2, <1>3, <1>5, <1>6

\* r is q without its first m elements, and line is the first line of q, of length m.
Without(r, q, m) == Len(q) = Len(r) + m /\ \A i \in 1..Len(r) : r[i] = q[i + m]
First(line, q, m) ==
  /\ m \in 1..Len(q) /\ q[m][2] = "b" /\ \A i \in 1..(m - 1) : q[i][2] = "a"
  /\ line \in Seq(Piece) /\ Len(line) = m /\ \A i \in 1..m : line[i] = q[i]

\* getNmea and ntrip_client cut a string behind its first newline.
LEMMA FirstLine ==
  ASSUME NEW q \in Seq(Piece), HasLine(q)
  PROVE  /\ First(Candidate(q), q, FirstNewline(q))
         /\ Rest(q) \in Seq(Piece) /\ Without(Rest(q), q, FirstNewline(q))
<1>1. Newlines(q) \subseteq Nat /\ Newlines(q) # {} /\ Len(q) \in Nat /\ DOMAIN q = 1..Len(q)
  BY DEF Newlines, HasLine
<1>2. \E k \in Newlines(q) : \A j \in Newlines(q) : k <= j
  BY <1>1, Least
<1>3. PICK m : m = FirstNewline(q)
  OBVIOUS
<1>4. m \in Newlines(q) /\ \A j \in Newlines(q) : m <= j
  BY <1>2, <1>3 DEF FirstNewline
<1>5. m \in 1..Len(q) /\ q[m][2] = "b"
  BY <1>1, <1>4 DEF Newlines
<1>6. ASSUME NEW i \in 1..(m - 1) PROVE q[i][2] = "a"
  <2>1. i \in 1..Len(q) /\ ~(m <= i)
    BY <1>1, <1>5
  <2>2. q[i][2] # "b"
    BY <1>1, <1>4, <2>1 DEF Newlines
  <2> QED BY <2>1, <2>2, PieceNumbers
<1>7. Candidate(q) = SubSeq(q, 1, m) /\ Rest(q) = SubSeq(q, m + 1, Len(q))
  BY <1>3 DEF Candidate, Rest
<1>8. /\ Candidate(q) \in Seq(Piece) /\ Len(Candidate(q)) = m
      /\ \A i \in 1..m : Candidate(q)[i] = q[i]
      /\ Rest(q) \in Seq(Piece) /\ Len(Rest(q)) + m = Len(q)
      /\ \A i \in 1..Len(Rest(q)) : Rest(q)[i] = q[i + m]
  BY <1>5, <1>7, Split
<1>9. Len(q) = Len(Rest(q)) + m
  BY <1>8
<1> QED
  BY <1>3, <1>5, <1>6, <1>8, <1>9 DEF First, Without

\* The line up to the first newline is taken and kept: among pieces without a gap it is
\* a whole line unless it is the end of one.
LEMMA FlowTaken ==
  ASSUME NEW lines, NEW q, NEW n \in Nat, Flow(lines, q, n),
         NEW line, NEW m, First(line, q, m), \E i \in 1..m : line[i][2] = "a",
         NEW r \in Seq(Piece), Without(r, q, m)
  PROVE  /\ Flow(Append(lines, line), r, n)
         /\ Whole(lines, q) => Whole(Append(lines, line), r)
         /\ Level(q, n) => Level(r, n)
<1> USE DEF First, Without
<1>0. /\ Len(q) \in Nat /\ Len(r) \in Nat /\ q \in Seq(Piece) /\ m \in Nat
      /\ lines \in Seq(Seq(Piece)) /\ Len(lines) \in Nat
  BY DEF Flow
<1>1. /\ Flow(lines, r, n) /\ (Whole(lines, q) => Whole(lines, r))
      /\ Level(q, n) => Level(r, n)
  <2>1. Len(r) + m <= Len(q) /\ Len(r) + m = Len(q)
    BY <1>0
  <2> QED BY <1>0, <2>1, FlowPart
<1>2. PICK ls : ls = Append(lines, line)
  OBVIOUS
<1>3. /\ ls \in Seq(Seq(Piece)) /\ Len(ls) = Len(lines) + 1 /\ ls[Len(lines) + 1] = line
      /\ \A k \in 1..Len(lines) : ls[k] = lines[k]
      /\ 1..Len(ls) = 1..Len(lines) \cup {Len(lines) + 1}
  BY <1>0, <1>2
<1>4. /\ q[m] \in Piece /\ q[m] = <<q[m][1], "b">> /\ q[m][1] \in Nat
      /\ Number(q[m]) = 2 * q[m][1] /\ line[Len(line)] = q[m]
  BY <1>0, PieceNumbers DEF Number
<1>5. Cut(line, r, n)
  <2>1. \A i \in 1..Len(r) : Number(q[m]) < Number(r[i])
    <3>1. \A i \in 1..Len(r) : i + m \in 1..Len(q) /\ m < i + m
      BY <1>0
    <3> QED BY <3>1 DEF Flow
  <2>2. Number(q[m]) <= n /\ line # <<>>
    BY <1>0 DEF Flow
  <2> QED BY <1>4, <2>1, <2>2 DEF Cut
<1>6. \A k \in 1..Len(ls) : Cut(ls[k], r, n)
  BY <1>1, <1>3, <1>5 DEF Flow
<1>7. Rising(ls)
  <2> SUFFICES ASSUME NEW i \in 1..Len(ls), NEW j \in 1..Len(ls), i < j
               PROVE  ls[i][Len(ls[i])][1] < ls[j][Len(ls[j])][1]
    <3>1. DOMAIN ls = 1..Len(ls)
      BY <1>3
    <3> QED BY <3>1, Zenon DEF Rising
  <2>1. i \in 1..Len(lines)
    BY <1>0, <1>3
  <2>2. CASE j \in 1..Len(lines)
    <3>1. DOMAIN lines = 1..Len(lines) /\ Rising(lines)
      BY <1>0 DEF Flow
    <3>2. lines[i][Len(lines[i])][1] < lines[j][Len(lines[j])][1]
      BY <2>1, <2>2, <3>1 DEF Rising
    <3> QED BY <1>3, <2>1, <2>2, <3>2
  <2>3. CASE j = Len(lines) + 1
    <3>1. Cut(lines[i], q, n)
      BY <2>1 DEF Flow
    <3>2. PICK p \in Piece : p = lines[i][Len(lines[i])]
      BY <3>1 DEF Cut
    <3>3. p[2] = "b" /\ Number(p) < Number(q[m]) /\ p[1] \in Nat
      BY <3>1, <3>2, PieceNumbers DEF Cut
    <3>4. Number(p) = 2 * p[1]
      BY <3>3 DEF Number
    <3>5. p[1] < q[m][1]
      BY <1>4, <3>3, <3>4
    <3> QED BY <1>3, <1>4, <2>1, <2>3, <3>2, <3>5
  <2> QED BY <1>3, <2>2, <2>3
<1>8. ASSUME Whole(lines, q) PROVE WholeLine(line)
  <2>1. m >= 2
    BY <1>4
  <2>2. m - 1 \in 1..Len(q) /\ m - 1 \in 1..(m - 1) /\ q[m - 1] \in Piece /\ q[m - 1][2] = "a"
    BY <1>0, <2>1
  <2>3. /\ q[m - 1] = <<q[m - 1][1], "a">> /\ q[m - 1][1] \in Nat
        /\ Number(q[m - 1]) = 2 * q[m - 1][1] - 1
    BY <2>2, PieceNumbers DEF Number
  <2>4. Number(q[m]) = Number(q[m - 1]) + 1
    BY <1>8, <2>1 DEF Whole
  <2>5. q[m - 1] = <<q[m][1], "a">>
    <3>1. q[m - 1][1] = q[m][1]
      BY <1>4, <2>3, <2>4
    <3> QED BY <2>3, <3>1
  <2>6. m = 2
    <3> SUFFICES ASSUME m >= 3 PROVE FALSE
      BY <1>0, <2>1
    <3>1. m - 2 \in 1..Len(q) /\ m - 2 \in 1..(m - 1) /\ q[m - 2] \in Piece /\ q[m - 2][2] = "a"
      BY <1>0
    <3>2. q[m - 2][1] \in Nat /\ Number(q[m - 2]) = 2 * q[m - 2][1] - 1
      BY <3>1, PieceNumbers DEF Number
    <3>3. m - 1 > 1 /\ (m - 1) - 1 = m - 2
      BY <1>0
    <3>4. Number(q[m - 1]) = Number(q[m - 2]) + 1
      BY <1>8, <2>2, <3>3 DEF Whole
    <3>5. 2 * q[m - 1][1] - 1 = 2 * q[m - 2][1]
      BY <2>3, <3>2, <3>4
    <3>6. \A x, y \in Nat : 2 * x - 1 # 2 * y
      OBVIOUS
    <3> QED BY <2>3, <3>2, <3>5, <3>6
  <2>7. Len(line) = 2 /\ line[1] = q[1] /\ line[2] = q[2] /\ m - 1 = 1
    BY <2>6
  <2>8. line[1] = <<line[2][1], "a">> /\ line[2][2] = "b"
    BY <2>5, <2>6, <2>7
  <2> QED BY <2>7, <2>8 DEF WholeLine
<1>9. Whole(lines, q) => Whole(ls, r)
  BY <1>1, <1>3, <1>8 DEF Whole
<1>10. Flow(ls, r, n)
  BY <1>1, <1>3, <1>6, <1>7 DEF Flow
<1> QED
  BY <1>1, <1>2, <1>9, <1>10

\* What the threads hold are pieces.
LEMMA Chains ==
  ASSUME DgKinds
  PROVE  /\ g_nmea \in Seq(Piece) /\ sbuf \in Seq(Piece) /\ tty \in Seq(Piece)
         /\ reader.got \in Seq(Piece) /\ Chunk \in Seq(Piece)
         /\ NmeaChain \in Seq(Piece) /\ SbufChain \in Seq(Piece)
         /\ produced \in Nat /\ sx.opens \in Nat
<1>1. /\ g_nmea \in Seq(Piece) /\ sbuf \in Seq(Piece) /\ tty \in Seq(Piece)
      /\ reader.got \in Seq(Piece) /\ Chunk \in Seq(Piece) /\ <<>> \in Seq(Piece)
      /\ produced \in Nat /\ sx.opens \in Nat
  BY DgpsNodeAssumption DEF DgKinds, Chunk
<1>2. NmeaChain \in Seq(Piece) /\ SbufChain \in Seq(Piece)
  BY <1>1, Places DEF NmeaChain, SbufChain
<1> QED
  BY <1>1, <1>2

\* What the kernel holds is thrown away.
LEMMA FlowFlushed ==
  ASSUME NEW lines, NEW a \in Seq(Piece), NEW b \in Seq(Piece), NEW c \in Seq(Piece),
         NEW n \in Nat, Flow(lines, a \o b \o c, n)
  PROVE  /\ Flow(lines, a \o b \o <<>>, n)
         /\ Whole(lines, a \o b \o c) => Whole(lines, a \o b \o <<>>)
<1>1. PICK q, r : q = a \o b \o c /\ r = a \o b \o <<>>
  OBVIOUS
<1>2. /\ r \in Seq(Piece) /\ Len(q) = Len(a) + Len(b) + Len(c) /\ Len(r) = Len(a) + Len(b)
      /\ Len(a) \in Nat /\ Len(b) \in Nat /\ Len(c) \in Nat
  BY <1>1, Places
<1>3. Len(r) + 0 <= Len(q) /\ 0 \in Nat
  BY <1>2
<1>4. ASSUME NEW i \in 1..Len(r) PROVE r[i] = q[i + 0]
  <2>1. /\ a \o b \in Seq(Piece) /\ i \in 1..Len(a \o b) /\ <<>> \in Seq(Piece)
    BY <1>2, Joined
  <2>2. r[i] = (a \o b)[i] /\ q[i] = (a \o b)[i]
    BY <1>1, <2>1, Joined
  <2>3. i + 0 = i
    BY <1>2
  <2> QED BY <2>2, <2>3
<1>5. Flow(lines, r, n) /\ (Whole(lines, q) => Whole(lines, r))
  BY <1>1, <1>2, <1>3, <1>4, FlowPart
<1> QED
  BY <1>1, <1>5

\* The device is opened, lost or found.
LEMMA FlowsKept ==
  ASSUME DgKinds, NmeaFlow, SbufFlow,
         UNCHANGED <<g_nmea, sbuf, Chunk, reader.got, published, sent, produced>>,
         tty' = tty \/ tty' = <<>>, sx'.opens <= 1 => sx.opens <= 1,
         sx'.opens <= 1 /\ plugged' => Bare \/ (plugged /\ tty' = tty)
  PROVE  NmeaFlow' /\ SbufFlow'
<1>1. /\ g_nmea \in Seq(Piece) /\ sbuf \in Seq(Piece) /\ tty \in Seq(Piece)
      /\ reader.got \in Seq(Piece) /\ Chunk \in Seq(Piece) /\ produced \in Nat
  BY Chains
<1>2. <<>> \o <<>> \o <<>> = <<>>
  OBVIOUS
<1>3. Bare => NmeaChain' = <<>> /\ SbufChain' = <<>>
  BY <1>2 DEF Bare, Chunk, NmeaChain, SbufChain
<1>4. ASSUME tty' = <<>>
      PROVE  /\ Flow(published, NmeaChain', produced) /\ Flow(sent, SbufChain', produced)
             /\ Whole(published, NmeaChain) => Whole(published, NmeaChain')
             /\ Whole(sent, SbufChain) => Whole(sent, SbufChain')
  <2>1. /\ Flow(published, g_nmea \o Chunk \o tty, produced)
        /\ Flow(sent, sbuf \o reader.got \o tty, produced)
    BY DEF NmeaFlow, SbufFlow, FlowInv, NmeaChain, SbufChain
  <2>2. /\ NmeaChain = g_nmea \o Chunk \o tty /\ NmeaChain' = g_nmea \o Chunk \o <<>>
        /\ SbufChain = sbuf \o reader.got \o tty /\ SbufChain' = sbuf \o reader.got \o <<>>
    BY <1>4 DEF NmeaChain, SbufChain
  <2> QED BY <1>1, <2>1, <2>2, FlowFlushed
<1>5. tty' = tty => NmeaChain' = NmeaChain /\ SbufChain' = SbufChain
  BY DEF NmeaChain, SbufChain
<1>6. /\ Flow(published, NmeaChain', produced) /\ Flow(sent, SbufChain', produced)
      /\ Whole(published, NmeaChain) => Whole(published, NmeaChain')
      /\ Whole(sent, SbufChain) => Whole(sent, SbufChain')
  BY <1>4, <1>5 DEF NmeaFlow, SbufFlow, FlowInv
<1>7. ASSUME sx'.opens <= 1, plugged'
      PROVE  Level(NmeaChain', produced) /\ Level(SbufChain', produced)
  BY <1>3, <1>5, <1>7 DEF NmeaFlow, SbufFlow, FlowInv, Level
<1> QED
  BY <1>6, <1>7 DEF NmeaFlow, SbufFlow, FlowInv

\* Nothing is joined to a sequence.
LEMMA EmptyJoined ==
  ASSUME NEW S, NEW q \in Seq(S)
  PROVE  q \o <<>> = q
OBVIOUS

\* The last of three sequences grows.
LEMMA ChainGrows ==
  ASSUME NEW lines, NEW a \in Seq(Piece), NEW b \in Seq(Piece), NEW c \in Seq(Piece),
         NEW n \in Nat, n + 1 \in 1..MaxPieces, Flow(lines, a \o b \o c, n)
  PROVE  LET r == a \o b \o Append(c, PieceNo(n + 1)) IN
         /\ Flow(lines, r, n + 1) /\ Level(r, n + 1)
         /\ Whole(lines, a \o b \o c) /\ Level(a \o b \o c, n) => Whole(lines, r)
<1>1. PICK q, d, r : q = a \o b \o c /\ d = Append(c, PieceNo(n + 1)) /\ r = a \o b \o d
  OBVIOUS
<1>2. /\ d \in Seq(Piece) /\ Len(d) = Len(c) + 1 /\ d[Len(c) + 1] = PieceNo(n + 1)
      /\ \A i \in 1..Len(c) : d[i] = c[i]
  BY <1>1, PieceNumbers
<1>3. /\ Len(q) = Len(a) + Len(b) + Len(c)
      /\ Len(a) \in Nat /\ Len(b) \in Nat /\ Len(c) \in Nat
      /\ a \o b \in Seq(Piece) /\ Len(a \o b) = Len(a) + Len(b)
      /\ r \in Seq(Piece) /\ Len(r) = Len(q) + 1
  BY <1>1, <1>2, Places, Joined
<1>4. ASSUME NEW i \in 1..Len(q) PROVE r[i] = q[i]
  <2>1. CASE i \in 1..Len(a \o b)
    BY <1>1, <1>2, <1>3, <2>1, Joined
  <2>2. CASE i \notin 1..Len(a \o b)
    <3>1. PICK j \in 1..Len(c) : i = Len(a \o b) + j
      <4>1. i - Len(a \o b) \in 1..Len(c) /\ i = Len(a \o b) + (i - Len(a \o b))
        BY <1>3, <2>2
      <4> QED BY <4>1
    <3>2. q[i] = c[j] /\ r[i] = d[j]
      <4>1. j \in 1..Len(d)
        BY <1>2, <1>3
      <4> QED BY <1>1, <1>2, <1>3, <3>1, <4>1, Joined
    <3> QED BY <1>2, <3>2
  <2> QED BY <2>1, <2>2
<1>5. r[Len(q) + 1] = PieceNo(n + 1)
  <2>1. Len(q) + 1 = Len(a) + Len(b) + (Len(c) + 1) /\ Len(c) + 1 \in 1..Len(d)
    BY <1>2, <1>3
  <2> QED BY <1>1, <1>2, <2>1, Places
<1>6. /\ Flow(lines, r, n + 1) /\ Level(r, n + 1)
      /\ Whole(lines, q) /\ Level(q, n) => Whole(lines, r)
  <2>1. Flow(lines, q, n)
    BY <1>1
  <2> QED BY <1>3, <1>4, <1>5, <2>1, FlowMore
<1> QED
  BY <1>1, <1>6

\* A read moves what it returns from the kernel to the thread.
LEMMA ChainMoves ==
  ASSUME NEW lines, NEW a \in Seq(Piece), NEW c \in Seq(Piece), NEW m \in 1..Len(c),
         NEW n \in Nat, Flow(lines, a \o <<>> \o c, n)
  PROVE  LET r == a \o SubSeq(c, 1, m) \o SubSeq(c, m + 1, Len(c)) IN
         /\ Flow(lines, r, n)
         /\ Whole(lines, a \o <<>> \o c) => Whole(lines, r)
         /\ Level(a \o <<>> \o c, n) => Level(r, n)
<1>1. PICK q, d, e, r : /\ q = a \o <<>> \o c /\ d = SubSeq(c, 1, m)
                        /\ e = SubSeq(c, m + 1, Len(c)) /\ r = a \o d \o e
  OBVIOUS
<1>2. /\ d \in Seq(Piece) /\ Len(d) = m /\ \A i \in 1..m : d[i] = c[i]
      /\ e \in Seq(Piece) /\ Len(e) + m = Len(c) /\ \A i \in 1..Len(e) : e[i] = c[i + m]
  BY <1>1, Split
<1>3. /\ Len(a) \in Nat /\ Len(c) \in Nat /\ Len(e) \in Nat /\ m \in Nat
      /\ q = a \o c /\ Len(q) = Len(a) + Len(c)
      /\ r \in Seq(Piece) /\ Len(r) = Len(a) + Len(d) + Len(e)
  BY <1>1, <1>2, Places, Joined, EmptyJoined
<1>4. Len(r) + 0 = Len(q) /\ Len(r) + 0 <= Len(q) /\ 0 \in Nat
  <2>1. /\ Len(r) = Len(a) + Len(d) + Len(e) /\ Len(q) = Len(a) + Len(c) /\ Len(d) = m
        /\ Len(e) + m = Len(c) /\ Len(a) \in Nat /\ Len(c) \in Nat /\ Len(e) \in Nat /\ m \in Nat
    BY <1>2, <1>3, Zenon
  <2> QED BY <2>1
<1>5. ASSUME NEW i \in 1..Len(r) PROVE r[i] = q[i + 0]
  <2>0. i + 0 = i /\ i \in Nat /\ 1 <= i /\ i <= Len(a) + Len(c)
    BY <1>3, <1>4
  <2>1. CASE i <= Len(a)
    <3>1. i \in 1..Len(a)
      BY <1>3, <2>0, <2>1
    <3>2. r[i] = a[i]
      BY <1>1, <1>2, <3>1, Places
    <3>3. q[i] = a[i]
      BY <1>3, <3>1, Joined
    <3> QED BY <2>0, <3>2, <3>3
  <2>2. CASE Len(a) < i /\ i <= Len(a) + m
    <3>1. PICK j \in 1..m : i = Len(a) + j
      <4>1. i - Len(a) \in 1..m /\ i = Len(a) + (i - Len(a))
        BY <1>3, <2>0, <2>2
      <4> QED BY <4>1
    <3>2. j \in 1..Len(d) /\ j \in 1..Len(c)
      BY <1>2, <1>3
    <3>3. r[i] = d[j]
      BY <1>1, <1>2, <3>1, <3>2, Places
    <3>4. q[i] = c[j]
      BY <1>3, <3>1, <3>2, Joined
    <3> QED BY <1>2, <2>0, <3>3, <3>4
  <2>3. CASE Len(a) + m < i
    <3>1. PICK j \in 1..Len(e) : i = Len(a) + Len(d) + j
      <4>1. i - (Len(a) + m) \in 1..Len(e) /\ i = Len(a) + Len(d) + (i - (Len(a) + m))
        BY <1>2, <1>3, <2>0, <2>3
      <4> QED BY <4>1
    <3>2. j + m \in 1..Len(c) /\ i = Len(a) + (j + m)
      BY <1>2, <1>3, <3>1
    <3>3. r[i] = e[j]
      BY <1>1, <1>2, <3>1, Places
    <3>4. q[i] = c[j + m]
      BY <1>3, <3>2, Joined
    <3> QED BY <1>2, <2>0, <3>1, <3>3, <3>4
  <2>4. i <= Len(a) \/ (Len(a) < i /\ i <= Len(a) + m) \/ Len(a) + m < i
    BY <1>3, <2>0
  <2> QED BY <2>1, <2>2, <2>3, <2>4, Zenon
<1>6. Flow(lines, q, n)
  BY <1>1
<1>7. /\ Flow(lines, r, n) /\ (Whole(lines, q) => Whole(lines, r))
      /\ Level(q, n) => Level(r, n)
  BY <1>3, <1>4, <1>5, <1>6, FlowPart
<1> QED
  BY <1>1, <1>7

\* The first of three sequences loses its beginning.
LEMMA ChainLoses ==
  ASSUME NEW a \in Seq(Piece), NEW b \in Seq(Piece), NEW c \in Seq(Piece),
         NEW m \in 1..Len(a), NEW d \in Seq(Piece), Without(d, a, m)
  PROVE  LET q == a \o b \o c
             r == d \o b \o c IN
         /\ q \in Seq(Piece) /\ r \in Seq(Piece) /\ m \in 1..Len(q)
         /\ Without(r, q, m) /\ \A i \in 1..Len(a) : q[i] = a[i]
<1>1. PICK q, r : q = a \o b \o c /\ r = d \o b \o c
  OBVIOUS
<1>3. /\ Len(a) \in Nat /\ Len(b) \in Nat /\ Len(c) \in Nat /\ Len(d) \in Nat /\ m \in Nat
      /\ q \in Seq(Piece) /\ Len(q) = Len(a) + Len(b) + Len(c)
      /\ r \in Seq(Piece) /\ Len(r) = Len(d) + Len(b) + Len(c)
      /\ \A i \in 1..Len(a) : q[i] = a[i]
  BY <1>1, Places
<1>2. /\ Len(a) = Len(d) + m /\ Len(q) = Len(a) + Len(b) + Len(c)
      /\ Len(r) = Len(d) + Len(b) + Len(c)
      /\ Len(a) \in Nat /\ Len(b) \in Nat /\ Len(c) \in Nat /\ Len(d) \in Nat /\ m \in Nat
      /\ 1 <= m
  <2>1. Len(a) = Len(d) + m /\ 1 <= m
    BY DEF Without
  <2> QED BY <1>3, <2>1, Zenon
<1>4. Len(q) = Len(r) + m /\ m \in 1..Len(q)
  BY <1>2
<1>5. ASSUME NEW i \in 1..Len(r) PROVE r[i] = q[i + m]
  <2>0. i \in Nat /\ 1 <= i /\ i <= Len(d) + Len(b) + Len(c)
    BY <1>3
  <2>1. CASE i <= Len(d)
    <3>1. i \in 1..Len(d) /\ i + m \in 1..Len(a)
      BY <1>2, <1>3, <2>0, <2>1
    <3>2. r[i] = d[i]
      BY <1>1, <3>1, Places
    <3>3. d[i] = a[i + m]
      BY <3>1 DEF Without
    <3> QED BY <1>3, <3>1, <3>2, <3>3
  <2>2. CASE Len(d) < i /\ i <= Len(d) + Len(b)
    <3>1. PICK j \in 1..Len(b) : i = Len(d) + j
      <4>1. i - Len(d) \in 1..Len(b) /\ i = Len(d) + (i - Len(d))
        BY <1>3, <2>0, <2>2
      <4> QED BY <4>1
    <3>2. i + m = Len(a) + j
      BY <1>2, <3>1
    <3>3. r[i] = b[j]
      BY <1>1, <3>1, Places
    <3>4. q[Len(a) + j] = b[j]
      BY <1>1, Places
    <3> QED BY <3>2, <3>3, <3>4
  <2>3. CASE Len(d) + Len(b) < i
    <3>1. PICK j \in 1..Len(c) : i = Len(d) + Len(b) + j
      <4>1. i - (Len(d) + Len(b)) \in 1..Len(c) /\ i = Len(d) + Len(b) + (i - (Len(d) + Len(b)))
        BY <1>3, <2>0, <2>3
      <4> QED BY <4>1
    <3>2. i + m = Len(a) + Len(b) + j
      BY <1>2, <3>1
    <3>3. r[i] = c[j]
      BY <1>1, <3>1, Places
    <3>4. q[Len(a) + Len(b) + j] = c[j]
      BY <1>1, Places
    <3> QED BY <3>2, <3>3, <3>4
  <2>4. i <= Len(d) \/ (Len(d) < i /\ i <= Len(d) + Len(b)) \/ Len(d) + Len(b) < i
    BY <1>3, <2>0
  <2> QED BY <2>1, <2>2, <2>3, <2>4, Zenon
<1> QED
  BY <1>1, <1>3, <1>4, <1>5 DEF Without

\* A line is cut off the first of three sequences; it is kept or not.
LEMMA ChainLosesLine ==
  ASSUME NEW lines, NEW a \in Seq(Piece), NEW b \in Seq(Piece), NEW c \in Seq(Piece),
         NEW n \in Nat, HasLine(a), Flow(lines, a \o b \o c, n)
  PROVE  LET r == Rest(a) \o b \o c
             ls == Append(lines, Candidate(a)) IN
         /\ Flow(lines, r, n)
         /\ Whole(lines, a \o b \o c) => Whole(lines, r)
         /\ Level(a \o b \o c, n) => Level(r, n)
         /\ Matches(Candidate(a)) =>
              Flow(ls, r, n) /\ (Whole(lines, a \o b \o c) => Whole(ls, r))
<1>1. PICK q, d, r, line : q = a \o b \o c /\ d = Rest(a) /\ r = d \o b \o c /\ line = Candidate(a)
  OBVIOUS
<1>2. PICK m : m = FirstNewline(a)
  OBVIOUS
<1>3. First(line, a, m) /\ d \in Seq(Piece) /\ Without(d, a, m)
  BY <1>1, <1>2, FirstLine
<1>4. /\ q \in Seq(Piece) /\ r \in Seq(Piece) /\ m \in 1..Len(q)
      /\ Without(r, q, m) /\ \A i \in 1..Len(a) : q[i] = a[i]
  <2>1. m \in 1..Len(a)
    BY <1>3 DEF First
  <2> QED BY <1>1, <1>3, <2>1, ChainLoses
<1>5. Flow(lines, q, n) /\ m \in Nat /\ Len(q) \in Nat /\ Len(r) \in Nat
  BY <1>1, <1>4
<1>6. /\ Flow(lines, r, n) /\ (Whole(lines, q) => Whole(lines, r))
      /\ Level(q, n) => Level(r, n)
  <2>1. Len(r) + m = Len(q) /\ Len(r) + m <= Len(q) /\ \A i \in 1..Len(r) : r[i] = q[i + m]
    BY <1>4, <1>5 DEF Without
  <2> QED BY <1>4, <1>5, <2>1, FlowPart
<1>7. ASSUME Matches(line)
      PROVE  Flow(Append(lines, line), r, n) /\ (Whole(lines, q) => Whole(Append(lines, line), r))
  <2>1. First(line, q, m)
    <3>1. \A i \in 1..m : i \in 1..Len(a) /\ q[i] = a[i]
      BY <1>3, <1>4 DEF First
    <3>2. m \in 1..m /\ \A i \in 1..(m - 1) : i \in 1..m
      BY <1>4
    <3> QED BY <1>3, <1>4, <3>1, <3>2 DEF First
  <2>2. \E i \in 1..m : line[i][2] = "a"
    BY <1>3, <1>7 DEF Matches, First
  <2> QED BY <1>4, <1>5, <2>1, <2>2, FlowTaken
<1> QED
  BY <1>1, <1>6, <1>7

\* What the receiver sends comes last on both ways.
LEMMA ReceiverFlows ==
  ASSUME DgKinds, DeviceInv, NmeaFlow, SbufFlow, Receiver
  PROVE  NmeaFlow' /\ SbufFlow'
<1>1. /\ g_nmea \in Seq(Piece) /\ sbuf \in Seq(Piece) /\ tty \in Seq(Piece)
      /\ reader.got \in Seq(Piece) /\ Chunk \in Seq(Piece)
      /\ produced \in Nat /\ produced + 1 \in 1..MaxPieces
  BY Chains, DgpsNodeAssumption DEF Receiver, DgKinds
<1>2. /\ plugged /\ produced' = produced + 1 /\ Chunk' = Chunk
      /\ UNCHANGED <<g_nmea, sbuf, reader, published, sent, sx, plugged>>
  BY DEF Receiver, dgLines, Chunk
<1>3. /\ Flow(published, g_nmea \o Chunk \o tty, produced)
      /\ Flow(sent, sbuf \o reader.got \o tty, produced)
  BY DEF NmeaFlow, SbufFlow, FlowInv, NmeaChain, SbufChain
<1>4. CASE sx.open
  <2>1. tty' = Append(tty, PieceNo(produced + 1))
    BY <1>4 DEF Receiver
  <2>2. /\ NmeaChain' = g_nmea \o Chunk \o Append(tty, PieceNo(produced + 1))
        /\ SbufChain' = sbuf \o reader.got \o Append(tty, PieceNo(produced + 1))
        /\ NmeaChain = g_nmea \o Chunk \o tty /\ SbufChain = sbuf \o reader.got \o tty
    BY <1>2, <2>1 DEF NmeaChain, SbufChain
  <2>3. /\ Flow(published, NmeaChain', produced + 1) /\ Level(NmeaChain', produced + 1)
        /\ Whole(published, NmeaChain) /\ Level(NmeaChain, produced) => Whole(published, NmeaChain')
    BY <1>1, <1>3, <2>2, ChainGrows
  <2>4. /\ Flow(sent, SbufChain', produced + 1) /\ Level(SbufChain', produced + 1)
        /\ Whole(sent, SbufChain) /\ Level(SbufChain, produced) => Whole(sent, SbufChain')
    BY <1>1, <1>3, <2>2, ChainGrows
  <2> QED BY <1>2, <2>3, <2>4 DEF NmeaFlow, SbufFlow, FlowInv
<1>5. CASE ~sx.open
  <2>1. NmeaChain' = NmeaChain /\ SbufChain' = SbufChain
    BY <1>2, <1>5 DEF Receiver, NmeaChain, SbufChain
  <2>2. Flow(published, NmeaChain, produced + 1) /\ Flow(sent, SbufChain, produced + 1)
    BY <1>1, FlowMissed DEF NmeaFlow, SbufFlow, FlowInv
  <2>3. sx.opens <= 1 => NmeaChain = <<>> /\ SbufChain = <<>>
    <3>1. sx.opens \in 0..2 /\ ~(sx.opens > 0)
      BY <1>2, <1>5 DEF DeviceInv
    <3>2. Bare
      BY <3>1 DEF DeviceInv
    <3>3. <<>> \o <<>> \o <<>> = <<>>
      OBVIOUS
    <3> QED BY <3>2, <3>3 DEF Bare, Chunk, NmeaChain, SbufChain
  <2> QED BY <1>2, <2>1, <2>2, <2>3 DEF NmeaFlow, SbufFlow, FlowInv, Level
<1> QED
  BY <1>4, <1>5

\* SerialRead takes nothing out of either way.
LEMMA ReadFlows ==
  ASSUME DgKinds, NmeaFlow, SbufFlow, ReaderReads
  PROVE  NmeaFlow' /\ SbufFlow'
<1>1. /\ g_nmea \in Seq(Piece) /\ sbuf \in Seq(Piece) /\ tty \in Seq(Piece) /\ produced \in Nat
  BY Chains
<1>2. PICK m \in 1..Len(tty) : /\ reader' = [at |-> "nmea", got |-> SubSeq(tty, 1, m)]
                               /\ tty' = SubSeq(tty, m + 1, Len(tty))
  BY DEF ReaderReads
<1>3. /\ reader.got = <<>> /\ Chunk = <<>> /\ Chunk' = SubSeq(tty, 1, m)
      /\ reader'.got = SubSeq(tty, 1, m)
      /\ UNCHANGED <<g_nmea, sbuf, published, sent, sx, plugged, produced>>
  BY <1>2 DEF ReaderReads, DgKinds, Chunk, dgLines
<1>4. /\ NmeaChain = g_nmea \o <<>> \o tty /\ SbufChain = sbuf \o <<>> \o tty
      /\ NmeaChain' = g_nmea \o SubSeq(tty, 1, m) \o SubSeq(tty, m + 1, Len(tty))
      /\ SbufChain' = sbuf \o SubSeq(tty, 1, m) \o SubSeq(tty, m + 1, Len(tty))
  BY <1>2, <1>3 DEF NmeaChain, SbufChain
<1>5. Flow(published, NmeaChain, produced) /\ Flow(sent, SbufChain, produced)
  BY DEF NmeaFlow, SbufFlow, FlowInv
<1>6. /\ Flow(published, NmeaChain', produced)
      /\ Whole(published, NmeaChain) => Whole(published, NmeaChain')
      /\ Level(NmeaChain, produced) => Level(NmeaChain', produced)
  BY <1>1, <1>4, <1>5, ChainMoves
<1>7. /\ Flow(sent, SbufChain', produced)
      /\ Whole(sent, SbufChain) => Whole(sent, SbufChain')
      /\ Level(SbufChain, produced) => Level(SbufChain', produced)
  BY <1>1, <1>4, <1>5, ChainMoves
<1> QED
  BY <1>3, <1>6, <1>7 DEF NmeaFlow, SbufFlow, FlowInv

\* Appending to g_nmea, and then to sbuf, changes neither way.
LEMMA AppendFlows ==
  ASSUME DgKinds, NmeaFlow, SbufFlow, ReaderAppends
  PROVE  NmeaFlow' /\ SbufFlow'
<1>1. /\ g_nmea \in Seq(Piece) /\ sbuf \in Seq(Piece) /\ tty \in Seq(Piece)
      /\ reader.got \in Seq(Piece)
      /\ reader \in [at : {"loop", "init", "nmea", "sbuf"}, got : Seq(Piece)]
  BY Chains DEF DgKinds
<1>2. UNCHANGED <<published, sent, sx, plugged, produced, tty>>
  BY DEF ReaderAppends, dgSerial
<1>3. NmeaChain' = NmeaChain /\ SbufChain' = SbufChain
  <2>1. CASE reader.at = "nmea" /\ g_nmea' = g_nmea \o reader.got
             /\ reader' = [reader EXCEPT !.at = "sbuf"] /\ UNCHANGED sbuf
    <3>1. Chunk = reader.got /\ Chunk' = <<>> /\ reader'.got = reader.got
      BY <1>1, <2>1 DEF Chunk
    <3>2. (g_nmea \o reader.got) \o <<>> = g_nmea \o reader.got
      BY <1>1, Joined, EmptyJoined
    <3> QED BY <1>2, <2>1, <3>1, <3>2 DEF NmeaChain, SbufChain
  <2>2. CASE reader.at = "sbuf" /\ sbuf' = sbuf \o reader.got
             /\ reader' = [at |-> "loop", got |-> <<>>] /\ UNCHANGED g_nmea
    <3>1. Chunk = <<>> /\ Chunk' = <<>> /\ reader'.got = <<>>
      BY <2>2 DEF Chunk
    <3>2. (sbuf \o reader.got) \o <<>> = sbuf \o reader.got
      BY <1>1, Joined, EmptyJoined
    <3> QED BY <1>2, <2>2, <3>1, <3>2 DEF NmeaChain, SbufChain
  <2> QED BY <2>1, <2>2 DEF ReaderAppends
<1> QED
  BY <1>2, <1>3 DEF NmeaFlow, SbufFlow, FlowInv

\* timer_callback takes the first line of g_nmea.
LEMMA TimerFlows ==
  ASSUME DgKinds, NmeaFlow, SbufFlow, timer_callback
  PROVE  NmeaFlow' /\ SbufFlow'
<1>1. /\ g_nmea \in Seq(Piece) /\ tty \in Seq(Piece) /\ Chunk \in Seq(Piece) /\ produced \in Nat
  BY Chains
<1>2. /\ HasLine(g_nmea) /\ g_nmea' = Rest(g_nmea) /\ Chunk' = Chunk
      /\ UNCHANGED <<sbuf, sent, reader, sx, plugged, produced, tty>>
  BY DEF timer_callback, dgSerial, Chunk
<1>3. \/ published' = published
      \/ published' = Append(published, Candidate(g_nmea)) /\ Matches(Candidate(g_nmea))
  BY DEF timer_callback
<1>4. /\ NmeaChain = g_nmea \o Chunk \o tty /\ NmeaChain' = Rest(g_nmea) \o Chunk \o tty
      /\ SbufChain' = SbufChain
  BY <1>2 DEF NmeaChain, SbufChain
<1>5. Flow(published, NmeaChain, produced)
  BY DEF NmeaFlow, FlowInv
<1>6. /\ Flow(published, NmeaChain', produced)
      /\ Whole(published, NmeaChain) => Whole(published, NmeaChain')
      /\ Level(NmeaChain, produced) => Level(NmeaChain', produced)
      /\ Matches(Candidate(g_nmea)) =>
           LET ls == Append(published, Candidate(g_nmea)) IN
           Flow(ls, NmeaChain', produced) /\ (Whole(published, NmeaChain) => Whole(ls, NmeaChain'))
  BY <1>1, <1>2, <1>4, <1>5, ChainLosesLine
<1> QED
  BY <1>2, <1>3, <1>4, <1>6 DEF NmeaFlow, SbufFlow, FlowInv

\* ntrip_client takes the first line of sbuf.
LEMMA TakeFlows ==
  ASSUME DgKinds, NmeaFlow, SbufFlow, TakeLine
  PROVE  NmeaFlow' /\ SbufFlow'
<1>1. /\ sbuf \in Seq(Piece) /\ tty \in Seq(Piece) /\ reader.got \in Seq(Piece) /\ produced \in Nat
  BY Chains
<1>2. /\ Chunk' = Chunk /\ NmeaChain' = NmeaChain
      /\ UNCHANGED <<g_nmea, published, reader, sx, plugged, produced, tty>>
  BY DEF TakeLine, dgSerial, Chunk, NmeaChain
<1>3. NmeaFlow'
  BY <1>2 DEF NmeaFlow, FlowInv
<1>4. CASE UNCHANGED <<sbuf, sent>>
  <2>1. SbufChain' = SbufChain
    BY <1>2, <1>4 DEF SbufChain
  <2> QED BY <1>2, <1>3, <1>4, <2>1 DEF SbufFlow, FlowInv
<1>5. CASE HasLine(sbuf) /\ sbuf' = Rest(sbuf)
           /\ (sent' = sent \/ (sent' = Append(sent, Candidate(sbuf)) /\ IsGGA(Candidate(sbuf))))
  <2>1. SbufChain = sbuf \o reader.got \o tty /\ SbufChain' = Rest(sbuf) \o reader.got \o tty
    BY <1>2, <1>5 DEF SbufChain
  <2>2. Flow(sent, SbufChain, produced)
    BY DEF SbufFlow, FlowInv
  <2>3. IsGGA(Candidate(sbuf)) => Matches(Candidate(sbuf))
    <3>1. First(Candidate(sbuf), sbuf, FirstNewline(sbuf))
      BY <1>1, <1>5, FirstLine
    <3>2. 1 \in DOMAIN Candidate(sbuf)
      BY <3>1 DEF First
    <3> QED BY <3>2 DEF IsGGA, Matches
  <2>4. /\ Flow(sent, SbufChain', produced)
        /\ Whole(sent, SbufChain) => Whole(sent, SbufChain')
        /\ Level(SbufChain, produced) => Level(SbufChain', produced)
        /\ Matches(Candidate(sbuf)) =>
             LET ls == Append(sent, Candidate(sbuf)) IN
             Flow(ls, SbufChain', produced) /\ (Whole(sent, SbufChain) => Whole(ls, SbufChain'))
    BY <1>1, <1>5, <2>1, <2>2, ChainLosesLine
  <2> QED BY <1>2, <1>3, <1>5, <2>3, <2>4 DEF SbufFlow, FlowInv
<1> QED
  BY <1>4, <1>5 DEF TakeLine

\* A step of the node is one of its client, or none.
LEMMA ClientStep ==
  ASSUME NtInv, [DgNext]_dgVars
  PROVE  [NtNext]_ntVars /\ (at' = "start" => at = "start")
<1>0. stop \in BOOLEAN
  BY DEF NtInv, NtFlags
<1> USE DEF ntVars, ntRest, ntConn, Go, Fine
<1>1. CASE Receiver \/ Plug \/ Unplug \/ Reader \/ timer_callback \/ UNCHANGED dgVars
  BY <1>1 DEF Receiver, Plug, Unplug, Reader, ReaderOpens, ReaderInit, ReaderReads,
              ReaderAppends, timer_callback, dgVars
<1>2. CASE TakeLine
  <2>1. TcpNmea(TRUE) \/ TcpNmea(FALSE)
    BY <1>2 DEF TakeLine
  <2>2. TcpNmea(FALSE) => UNCHANGED ntVars
    BY DEF TcpNmea
  <2>3. TcpNmea(TRUE) => at' # "start"
    BY DEF TcpNmea
  <2> QED BY <2>1, <2>2, <2>3 DEF NtNext
<1>3. CASE ClientStarts
  <2>1. NtStart /\ at = "start"
    BY <1>3 DEF ClientStarts, NtStart
  <2> QED BY <2>1 DEF NtNext, Runs
<1>4. CASE ClientWrites
  <2>1. UNCHANGED ntVars \/ \E how \in {"written", "chunk", "failed", "reopened"} : TcpWrite(how)
    BY <1>4 DEF ClientWrites
  <2>2. (\E how \in {"written", "chunk", "failed", "reopened"} : TcpWrite(how)) => at' # "start"
    BY DEF TcpWrite
  <2> QED BY <2>1, <2>2 DEF NtNext, Writes
<1>5. CASE ClientRuns
  <2>1. Runs \/ Answers
    BY <1>5 DEF ClientRuns
  <2>2. at' # "start" \/ at' = at
    <3>1. Answers => at' # "start"
      BY DEF Answers, UdpAnswer, UdpRecv, RtspSetup, RtspPlay, TcpEnds, TcpHead, TcpData, TcpTable
    <3>2. NtStart \/ NtAttempt \/ TcpConnect \/ NtClose => at' # "start"
      BY DEF NtStart, NtAttempt, Way, TcpConnect, NtClose
    <3>3. TcpLoop => at' \in {"close", "tcp_head", "tcp_data", "tcp_table"}
      BY DEF TcpLoop, Recv
    <3>4. UdpRequest \/ UdpLoop \/ UdpClose => at' # "start" \/ at' = at
      BY DEF UdpRequest, UdpLoop, UdpClose
    <3>5. RtspStart \/ RtspLoop \/ RtspTeardown \/ RtspUdp => at' # "start" \/ at' = at
      BY DEF RtspStart, Leaks, RtspLoop, RtspTeardown, RtspUdp
    <3> QED BY <2>1, <3>1, <3>2, <3>3, <3>4, <3>5 DEF Runs
  <2> QED BY <2>1, <2>2 DEF NtNext
<1>6. CASE Destructor
  <2>1. /\ UNCHANGED <<error, at, ntRest, ntConn>>
        /\ stop' = TRUE \/ stop' = stop
    BY <1>6 DEF Destructor
  <2>2. OwnerStops \/ UNCHANGED ntVars
    BY <1>0, <2>1, Zenon DEF OwnerStops
  <2> QED BY <2>1, <2>2 DEF NtNext
<1> QED
  BY <1>1, <1>2, <1>3, <1>4, <1>5, <1>6 DEF DgNext

\* SerialInit, on a device that is not there or was not open.
LEMMA Opened ==
  ASSUME DgKinds, DeviceInv, SerialInit, UNCHANGED plugged, About' \in 0..2,
         sx.opens = 0 \/ About = About' + 1
  PROVE  /\ sx' \in [open : BOOLEAN, opens : Nat] /\ sx'.opens \in 0..2
         /\ tty' = tty \/ tty' = <<>>
         /\ sx'.opens <= 1 => sx.opens <= 1
         /\ sx'.opens <= 1 /\ plugged' => sx.opens = 0 /\ Bare
         /\ sx'.opens = 0 => sx.opens = 0 /\ ~sx'.open /\ tty' = tty
         /\ sx'.opens > 0 /\ plugged' => sx'.open /\ (sx.opens > 0 => sx'.opens + About' <= 2)
         /\ sx.opens = 0 /\ plugged => sx'.opens = 1
<1>0. sx \in [open : BOOLEAN, opens : Nat] /\ sx.opens \in 0..2
  BY DEF DgKinds, DeviceInv
<1>1. CASE plugged
  <2>1. sx' = [open |-> TRUE, opens |-> sx.opens + 1] /\ tty' = <<>>
    BY <1>1 DEF SerialInit
  <2>2. sx'.open /\ sx'.opens = sx.opens + 1
    BY <2>1
  <2>3. sx.opens > 0 => sx.opens + About <= 2
    BY <1>1 DEF DeviceInv
  <2>4. sx.opens > 0 => sx'.opens + About' <= 2 /\ sx'.opens <= 2
    BY <1>0, <2>2, <2>3
  <2>5. sx'.opens \in 0..2 /\ sx'.opens # 0 /\ (sx'.opens <= 1 => sx.opens = 0)
    BY <1>0, <2>2, <2>4
  <2>6. sx' \in [open : BOOLEAN, opens : Nat]
    BY <1>0, <2>1
  <2>7. sx.opens = 0 => Bare /\ sx'.opens = 1
    BY <2>2 DEF DeviceInv
  <2> QED BY <1>0, <2>1, <2>2, <2>4, <2>5, <2>6, <2>7
<1>2. CASE ~plugged
  <2>1. sx' = [sx EXCEPT !.open = FALSE] /\ tty' = tty
    BY <1>2 DEF SerialInit
  <2>2. ~sx'.open /\ sx'.opens = sx.opens /\ sx' \in [open : BOOLEAN, opens : Nat]
    BY <1>0, <2>1
  <2> QED BY <1>0, <1>2, <2>1, <2>2
<1> QED
  BY <1>1, <1>2

\* A step that leaves the device alone, and opens it in no other thread.
LEMMA DeviceStays ==
  ASSUME DgKinds, DeviceInv, UNCHANGED <<sx, plugged, opening>>,
         at' = "start" => at = "start" /\ reader'.at = reader.at,
         reader'.at = "init" => reader.at = "init", sx.opens = 0 => Bare'
  PROVE  DeviceInv'
<1>1. About \in 0..2 /\ About' \in 0..2 /\ About' <= About /\ sx.opens \in Nat
  BY DEF About, DgKinds
<1>2. sx.opens > 0 /\ plugged => sx.open /\ sx.opens + About <= 2
  BY DEF DeviceInv
<1>3. sx.opens > 0 /\ plugged => sx.opens + About' <= 2
  BY <1>1, <1>2
<1> QED
  BY <1>2, <1>3 DEF DeviceInv

\* The steps that only move pieces.
LEMMA LinesDevice ==
  ASSUME DgKinds, DeviceInv, at' = "start" => at = "start",
         ReaderReads \/ ReaderAppends \/ timer_callback \/ TakeLine
  PROVE  DgKinds' /\ DeviceInv'
<1>0. /\ sx \in [open : BOOLEAN, opens : Nat] /\ sx.opens \in 0..2
      /\ tty \in Seq(Piece) /\ g_nmea \in Seq(Piece) /\ sbuf \in Seq(Piece)
      /\ reader \in [at : {"loop", "init", "nmea", "sbuf"}, got : Seq(Piece)]
      /\ reader.got \in Seq(Piece)
  BY DEF DgKinds, DeviceInv
<1>1. at = "start" => reader.at = "loop" /\ sx.opens = 0
  BY DEF DeviceInv
<1>2. sx.opens = 0 => Bare /\ ~sx.open
  BY DEF DeviceInv
<1>3. ~HasLine(<<>>) /\ <<>> \o <<>> = <<>>
  BY DEF HasLine, Newlines
<1>4. CASE ReaderReads
  <2>1. /\ sx.open /\ at # "start"
        /\ UNCHANGED <<node, sx, plugged, produced, opening, g_nmea, sbuf>>
    BY <1>4 DEF ReaderReads, SerialThread, dgLines
  <2>2. PICK m \in 1..Len(tty) : /\ reader' = [at |-> "nmea", got |-> SubSeq(tty, 1, m)]
                                 /\ tty' = SubSeq(tty, m + 1, Len(tty))
    BY <1>4 DEF ReaderReads
  <2>3. SubSeq(tty, 1, m) \in Seq(Piece) /\ SubSeq(tty, m + 1, Len(tty)) \in Seq(Piece)
    BY <1>0, Split
  <2>4. reader' \in [at : {"loop", "init", "nmea", "sbuf"}, got : Seq(Piece)] /\ reader'.at = "nmea"
    BY <2>2, <2>3
  <2>5. DgKinds'
    BY <2>1, <2>2, <2>3, <2>4 DEF DgKinds
  <2> QED BY <1>2, <2>1, <2>4, <2>5, DeviceStays
<1>5. CASE ReaderAppends
  <2>1. /\ UNCHANGED <<node, sx, plugged, produced, tty, opening>>
    BY <1>5 DEF ReaderAppends, dgSerial
  <2>2. CASE reader.at = "nmea" /\ g_nmea' = g_nmea \o reader.got
             /\ reader' = [reader EXCEPT !.at = "sbuf"] /\ UNCHANGED sbuf
    <3>1. /\ reader' \in [at : {"loop", "init", "nmea", "sbuf"}, got : Seq(Piece)]
          /\ reader'.at = "sbuf" /\ reader'.got = reader.got
      BY <1>0, <2>2
    <3>2. g_nmea' \in Seq(Piece)
      BY <1>0, <2>2, Joined
    <3>3. DgKinds'
      BY <2>1, <2>2, <3>1, <3>2 DEF DgKinds
    <3>4. Bare => Bare'
      BY <1>3, <2>1, <2>2, <3>1 DEF Bare
    <3> QED BY <1>1, <1>2, <2>1, <2>2, <3>1, <3>3, <3>4, DeviceStays
  <2>3. CASE reader.at = "sbuf" /\ sbuf' = sbuf \o reader.got
             /\ reader' = [at |-> "loop", got |-> <<>>] /\ UNCHANGED g_nmea
    <3>1. /\ reader' \in [at : {"loop", "init", "nmea", "sbuf"}, got : Seq(Piece)]
          /\ reader'.at = "loop" /\ reader'.got = <<>>
      BY <2>3
    <3>2. sbuf' \in Seq(Piece)
      BY <1>0, <2>3, Joined
    <3>3. DgKinds'
      BY <2>1, <2>3, <3>1, <3>2 DEF DgKinds
    <3>4. Bare => Bare'
      BY <1>3, <2>1, <2>3, <3>1 DEF Bare
    <3> QED BY <1>1, <1>2, <2>1, <2>3, <3>1, <3>3, <3>4, DeviceStays
  <2> QED BY <1>5, <2>2, <2>3 DEF ReaderAppends
<1>6. CASE timer_callback
  <2>1. /\ UNCHANGED <<node, sx, plugged, produced, tty, opening, reader, sbuf>>
        /\ HasLine(g_nmea) /\ g_nmea' = Rest(g_nmea)
    BY <1>6 DEF timer_callback, dgSerial
  <2>2. g_nmea' \in Seq(Piece)
    BY <1>0, <2>1, FirstLine
  <2>3. DgKinds'
    BY <2>1, <2>2 DEF DgKinds
  <2>4. ~Bare
    BY <1>3, <2>1 DEF Bare
  <2> QED BY <1>2, <2>1, <2>3, <2>4, DeviceStays
<1>7. CASE TakeLine
  <2>1. UNCHANGED <<node, sx, plugged, produced, tty, opening, reader, g_nmea>>
    BY <1>7 DEF TakeLine, dgSerial
  <2>2. sbuf' = sbuf \/ (HasLine(sbuf) /\ sbuf' = Rest(sbuf))
    BY <1>7 DEF TakeLine
  <2>3. sbuf' \in Seq(Piece)
    BY <1>0, <2>2, FirstLine
  <2>4. DgKinds'
    BY <2>1, <2>3 DEF DgKinds
  <2>5. Bare => Bare'
    BY <1>3, <2>1, <2>2 DEF Bare
  <2> QED BY <1>2, <2>1, <2>4, <2>5, DeviceStays
<1> QED
  BY <1>4, <1>5, <1>6, <1>7

\* The receiver's own steps.
LEMMA ReceiverDevice ==
  ASSUME DgKinds, DeviceInv, at' = "start" => at = "start", Receiver \/ Plug \/ Unplug
  PROVE  DgKinds' /\ DeviceInv'
<1>0. /\ sx.opens \in 0..2 /\ tty \in Seq(Piece) /\ produced \in 0..MaxPieces
      /\ sx.opens = 0 => Bare /\ ~sx.open
  BY DEF DgKinds, DeviceInv
<1>1. CASE Receiver
  <2>1. /\ UNCHANGED <<node, sx, plugged, reader, opening, g_nmea, sbuf>>
        /\ produced < MaxPieces /\ produced' = produced + 1
        /\ tty' = IF sx.open THEN Append(tty, PieceNo(produced + 1)) ELSE tty
    BY <1>1 DEF Receiver, dgLines
  <2>2. produced' \in 0..MaxPieces /\ produced + 1 \in 1..MaxPieces
    BY <1>0, <2>1, DgpsNodeAssumption
  <2>3. PieceNo(produced + 1) \in Piece
    BY <2>2, PieceNumbers
  <2>4. tty' \in Seq(Piece)
    BY <1>0, <2>1, <2>3
  <2>5. DgKinds'
    BY <2>1, <2>2, <2>4 DEF DgKinds
  <2>6. sx.opens = 0 => Bare'
    BY <1>0, <2>1 DEF Bare
  <2> QED BY <2>1, <2>5, <2>6, DeviceStays
<1>2. CASE Plug
  <2>1. /\ UNCHANGED <<at, node, sx, produced, tty, reader, opening, g_nmea, sbuf>>
        /\ sx.opens = 0 /\ plugged' = TRUE
    BY <1>2 DEF Plug, dgLines, ntVars
  <2>2. DgKinds'
    BY <2>1 DEF DgKinds
  <2>3. Bare' = Bare
    BY <2>1 DEF Bare
  <2> QED BY <1>0, <2>1, <2>2, <2>3 DEF DeviceInv
<1>3. CASE Unplug
  <2>1. /\ UNCHANGED <<at, node, sx, produced, reader, opening, g_nmea, sbuf>>
        /\ plugged' = FALSE /\ tty' = <<>>
    BY <1>3 DEF Unplug, dgLines, ntVars
  <2>2. <<>> \in Seq(Piece)
    OBVIOUS
  <2>3. tty' \in Seq(Piece) /\ plugged' \in BOOLEAN
    BY <2>1, <2>2, Zenon
  <2>4. DgKinds'
    BY <2>1, <2>3, Zenon DEF DgKinds
  <2>5. Bare => Bare'
    BY <2>1 DEF Bare
  <2> QED BY <1>0, <2>1, <2>4, <2>5 DEF DeviceInv
<1> QED
  BY <1>1, <1>2, <1>3

\* The steps in which a thread finds the device closed, and opens it.
LEMMA OpenDevice ==
  ASSUME DgKinds, DeviceInv, at' = "start" => at = "start",
         ReaderOpens \/ ReaderInit \/ ClientStarts \/ ClientWrites
  PROVE  DgKinds' /\ DeviceInv'
<1>0. /\ sx \in [open : BOOLEAN, opens : Nat] /\ sx.opens \in 0..2 /\ tty \in Seq(Piece)
      /\ <<>> \in Seq(Piece) /\ opening \in BOOLEAN
      /\ reader \in [at : {"loop", "init", "nmea", "sbuf"}, got : Seq(Piece)]
      /\ sx.opens = 0 => Bare /\ ~sx.open
      /\ at = "start" => sx.opens = 0 /\ ~opening /\ reader.at = "loop"
      /\ ~sx.open => ~(sx.opens > 0 /\ plugged)
  BY DEF DgKinds, DeviceInv
<1>1. CASE ReaderOpens
  <2>1. /\ UNCHANGED <<node, sx, plugged, produced, tty, opening, g_nmea, sbuf>>
        /\ at # "start" /\ reader.at = "loop" /\ ~sx.open
        /\ reader' = [reader EXCEPT !.at = "init"]
    BY <1>1 DEF ReaderOpens, SerialThread, dgSerial, dgLines
  <2>2. /\ reader' \in [at : {"loop", "init", "nmea", "sbuf"}, got : Seq(Piece)]
        /\ reader'.at = "init" /\ reader'.got = reader.got
    BY <1>0, <2>1
  <2>3. DgKinds'
    BY <2>1, <2>2 DEF DgKinds
  <2>4. Bare' = Bare
    BY <2>1, <2>2 DEF Bare
  <2> QED BY <1>0, <2>1, <2>3, <2>4 DEF DeviceInv
<1>2. CASE ReaderInit
  <2>1. /\ UNCHANGED <<node, plugged, produced, opening, g_nmea, sbuf>>
        /\ reader.at = "init" /\ reader' = [reader EXCEPT !.at = "loop"] /\ SerialInit
    BY <1>2 DEF ReaderInit, dgLines
  <2>2. /\ reader' \in [at : {"loop", "init", "nmea", "sbuf"}, got : Seq(Piece)]
        /\ reader'.at = "loop" /\ reader'.got = reader.got
    BY <1>0, <2>1
  <2>3. About' \in 0..1 /\ About' \in 0..2 /\ About = About' + 1
    BY <1>0, <2>1, <2>2 DEF About
  <2>4. /\ sx' \in [open : BOOLEAN, opens : Nat] /\ sx'.opens \in 0..2
        /\ tty' = tty \/ tty' = <<>>
        /\ sx'.opens = 0 => sx.opens = 0 /\ ~sx'.open /\ tty' = tty
        /\ sx'.opens > 0 /\ plugged' => sx'.open /\ (sx.opens > 0 => sx'.opens + About' <= 2)
        /\ sx.opens = 0 /\ plugged => sx'.opens = 1
    BY <2>1, <2>3, Opened
  <2>5. DgKinds'
    BY <1>0, <2>1, <2>2, <2>4 DEF DgKinds
  <2>6. sx'.opens = 0 => Bare'
    BY <1>0, <2>1, <2>2, <2>4 DEF Bare
  <2>7. sx'.opens > 0 /\ plugged' => sx'.opens + About' <= 2
    BY <1>0, <2>1, <2>3, <2>4
  <2> QED BY <1>0, <2>1, <2>4, <2>5, <2>6, <2>7 DEF DeviceInv
<1>3. CASE ClientStarts
  <2>1. /\ UNCHANGED <<node, plugged, produced, reader, opening, g_nmea, sbuf>>
        /\ at = "start" /\ at' # "start" /\ (SerialInit \/ UNCHANGED <<sx, tty>>)
    BY <1>3 DEF ClientStarts, NtStart, Go, dgLines
  <2>2. About' = 0 /\ sx.opens = 0 /\ About' \in 0..2
    BY <1>0, <2>1 DEF About
  <2>3. CASE UNCHANGED <<sx, tty>>
    <3>1. DgKinds'
      BY <2>1, <2>3 DEF DgKinds
    <3> QED BY <1>0, <2>1, <2>2, <2>3, <3>1, DeviceStays DEF Bare
  <2>4. CASE SerialInit
    <3>1. /\ sx' \in [open : BOOLEAN, opens : Nat] /\ sx'.opens \in 0..2
          /\ tty' = tty \/ tty' = <<>>
          /\ sx'.opens = 0 => ~sx'.open /\ tty' = tty
          /\ sx'.opens > 0 /\ plugged' => sx'.open
          /\ plugged => sx'.opens = 1
      BY <2>1, <2>2, <2>4, Opened
    <3>2. DgKinds'
      BY <1>0, <2>1, <3>1 DEF DgKinds
    <3>3. sx'.opens = 0 => Bare'
      BY <1>0, <2>1, <2>2, <3>1 DEF Bare
    <3>4. sx'.opens > 0 /\ plugged' => sx'.opens + About' <= 2
      BY <2>1, <2>2, <3>1
    <3> QED BY <2>1, <3>1, <3>2, <3>3, <3>4 DEF DeviceInv
  <2> QED BY <2>1, <2>3, <2>4
<1>4. CASE ClientWrites
  <2>0. UNCHANGED <<node, plugged, produced, reader, g_nmea, sbuf>>
    BY <1>4 DEF ClientWrites, dgLines
  <2>1. CASE /\ at = "tcp_write" /\ ~sx.open /\ opening' = TRUE
             /\ UNCHANGED <<ntVars, sx, tty>>
    <3>1. DgKinds'
      BY <2>0, <2>1 DEF DgKinds
    <3>2. Bare' = Bare /\ at' # "start"
      BY <2>0, <2>1 DEF Bare, ntVars
    <3> QED BY <1>0, <2>0, <2>1, <3>1, <3>2 DEF DeviceInv
  <2>2. CASE opening /\ SerialInit /\ opening' = FALSE
    <3>1. About' \in 0..1 /\ About' \in 0..2 /\ About = About' + 1
      BY <1>0, <2>0, <2>2 DEF About
    <3>0. opening' \in BOOLEAN
      BY <2>2, Zenon
    <3>2. /\ sx' \in [open : BOOLEAN, opens : Nat] /\ sx'.opens \in 0..2
          /\ tty' = tty \/ tty' = <<>>
          /\ sx'.opens = 0 => sx.opens = 0 /\ ~sx'.open /\ tty' = tty
          /\ sx'.opens > 0 /\ plugged' => sx'.open /\ (sx.opens > 0 => sx'.opens + About' <= 2)
          /\ sx.opens = 0 /\ plugged => sx'.opens = 1
      BY <2>0, <2>2, <3>1, Opened
    <3>3. DgKinds'
      BY <1>0, <2>0, <3>0, <3>2 DEF DgKinds
    <3>4. sx'.opens = 0 => Bare'
      BY <1>0, <2>0, <3>2 DEF Bare
    <3>5. sx'.opens > 0 /\ plugged' => sx'.opens + About' <= 2
      BY <1>0, <2>0, <3>1, <3>2
    <3>6. at' # "start"
      BY <1>0, <2>2
    <3> QED BY <3>2, <3>3, <3>4, <3>5, <3>6 DEF DeviceInv
  <2>3. CASE UNCHANGED <<sx, tty, opening>>
    <3>1. DgKinds'
      BY <2>0, <2>3 DEF DgKinds
    <3>2. Bare' = Bare
      BY <2>0, <2>3 DEF Bare
    <3> QED BY <1>0, <2>0, <2>3, <3>1, <3>2, DeviceStays
  <2> QED BY <1>4, <2>1, <2>2, <2>3 DEF ClientWrites
<1> QED
  BY <1>1, <1>2, <1>3, <1>4

\* Opening a device, or losing it, throws away only what the kernel holds.
LEMMA DeviceFlows ==
  ASSUME DgKinds, DeviceInv, NmeaFlow, SbufFlow,
         Plug \/ Unplug \/ ReaderOpens \/ ReaderInit \/ ClientStarts \/ ClientWrites
  PROVE  NmeaFlow' /\ SbufFlow'
<1>0. /\ opening \in BOOLEAN
      /\ reader \in [at : {"loop", "init", "nmea", "sbuf"}, got : Seq(Piece)]
      /\ sx.opens = 0 => Bare /\ ~sx.open
      /\ at = "start" => sx.opens = 0 /\ ~opening /\ reader.at = "loop"
  BY DEF DgKinds, DeviceInv
<1>1. UNCHANGED <<g_nmea, sbuf, Chunk, reader.got, published, sent, produced>>
  <2>1. UNCHANGED <<g_nmea, sbuf, published, sent, produced>>
    BY DEF Plug, Unplug, ReaderOpens, ReaderInit, ClientStarts, ClientWrites, dgLines, dgSerial
  <2>2. \/ reader' = reader
        \/ reader.at = "loop" /\ reader' = [reader EXCEPT !.at = "init"]
        \/ reader.at = "init" /\ reader' = [reader EXCEPT !.at = "loop"]
    BY DEF Plug, Unplug, ReaderOpens, ReaderInit, ClientStarts, ClientWrites
  <2>3. reader'.got = reader.got /\ (reader'.at = "nmea" <=> reader.at = "nmea")
    BY <1>0, <2>2
  <2> QED BY <2>1, <2>3 DEF Chunk
<1>2. CASE Plug
  BY <1>0, <1>1, <1>2, FlowsKept DEF Plug
<1>3. CASE Unplug
  BY <1>1, <1>3, FlowsKept DEF Unplug
<1>4. CASE UNCHANGED <<sx, plugged, tty>>
  BY <1>1, <1>4, FlowsKept
<1>5. CASE /\ SerialInit /\ UNCHANGED plugged /\ About' \in 0..2
           /\ sx.opens = 0 \/ About = About' + 1
  <2>1. /\ tty' = tty \/ tty' = <<>>
        /\ sx'.opens <= 1 => sx.opens <= 1
        /\ sx'.opens <= 1 /\ plugged' => Bare
    BY <1>5, Opened
  <2> QED BY <1>1, <2>1, FlowsKept
<1>6. CASE ReaderOpens
  BY <1>4, <1>6 DEF ReaderOpens, dgSerial
<1>7. CASE ReaderInit
  <2>1. reader'.at = "loop" /\ reader.at = "init" /\ opening' = opening
    BY <1>0, <1>7 DEF ReaderInit
  <2>2. About' \in 0..2 /\ About = About' + 1
    BY <1>0, <2>1 DEF About
  <2> QED BY <1>5, <1>7, <2>2 DEF ReaderInit
<1>8. CASE ClientStarts
  <2>1. /\ at = "start" /\ UNCHANGED <<plugged, reader, opening>>
        /\ SerialInit \/ UNCHANGED <<sx, tty>>
    BY <1>8 DEF ClientStarts, NtStart
  <2>2. About' \in 0..2 /\ sx.opens = 0
    BY <1>0, <2>1 DEF About
  <2> QED BY <1>4, <1>5, <2>1, <2>2
<1>9. CASE ClientWrites
  <2>1. /\ UNCHANGED <<plugged, reader>>
        /\ UNCHANGED <<sx, tty>> \/ (opening /\ SerialInit /\ opening' = FALSE)
    BY <1>9 DEF ClientWrites
  <2>2. opening /\ opening' = FALSE => About' \in 0..2 /\ About = About' + 1
    BY <1>0, <2>1 DEF About
  <2> QED BY <1>4, <1>5, <2>1, <2>2
<1> QED
  BY <1>2, <1>3, <1>6, <1>7, <1>8, <1>9

\* Every step of the node preserves its invariant.
LEMMA DgStep ==
  ASSUME DgInv, [DgNext]_dgVars
  PROVE  DgInv'
<1>0. NtInv /\ DgKinds /\ DeviceInv /\ NmeaFlow /\ SbufFlow
  BY DEF DgInv
<1>1. [NtNext]_ntVars /\ (at' = "start" => at = "start")
  BY <1>0, ClientStep
<1>2. NtInv'
  BY <1>0, <1>1, NtStep
<1>3. CASE Receiver
  BY <1>0, <1>1, <1>2, <1>3, ReceiverDevice, ReceiverFlows DEF DgInv
<1>4. CASE Plug \/ Unplug
  BY <1>0, <1>1, <1>2, <1>4, ReceiverDevice, DeviceFlows DEF DgInv
<1>5. CASE ReaderOpens \/ ReaderInit \/ ClientStarts \/ ClientWrites
  BY <1>0, <1>1, <1>2, <1>5, OpenDevice, DeviceFlows DEF DgInv
<1>6. CASE ReaderReads
  BY <1>0, <1>1, <1>2, <1>6, LinesDevice, ReadFlows DEF DgInv
<1>7. CASE ReaderAppends
  BY <1>0, <1>1, <1>2, <1>7, LinesDevice, AppendFlows DEF DgInv
<1>8. CASE timer_callback
  BY <1>0, <1>1, <1>2, <1>8, LinesDevice, TimerFlows DEF DgInv
<1>9. CASE TakeLine
  BY <1>0, <1>1, <1>2, <1>9, LinesDevice, TakeFlows DEF DgInv
<1>10. CASE ClientRuns \/ Destructor \/ UNCHANGED dgVars
  <2>1. UNCHANGED <<sx, plugged, produced, tty, opening, reader, g_nmea, sbuf, published, sent>>
    BY <1>10 DEF ClientRuns, Destructor, dgVars, dgOwn, dgSerial, dgLines
  <2>2. node' = node \/ node' \in {"joining", "gone"}
    BY <1>10 DEF ClientRuns, Destructor, dgVars, dgOwn
  <2>3. DgKinds'
    BY <1>0, <2>1, <2>2 DEF DgKinds
  <2>4. DeviceInv'
    BY <1>0, <1>1, <2>1, DeviceStays DEF DeviceInv, Bare
  <2>5. NmeaFlow' /\ SbufFlow'
    BY <1>0, <2>1 DEF NmeaFlow, SbufFlow, FlowInv, NmeaChain, SbufChain, Chunk
  <2> QED BY <1>2, <2>3, <2>4, <2>5 DEF DgInv
<1> QED
  BY <1>3, <1>4, <1>5, <1>6, <1>7, <1>8, <1>9, <1>10 DEF DgNext, Reader

\* It holds before the threads run.
LEMMA DgStarts ==
  ASSUME DgInit
  PROVE  DgInv
<1>1. NtInv /\ at = "start"
  BY NtStarts DEF DgInit, NtInit
<1>2. /\ node = "up" /\ sx = [open |-> FALSE, opens |-> 0] /\ plugged \in BOOLEAN
      /\ produced = 0 /\ reader = [at |-> "loop", got |-> <<>>] /\ opening = FALSE
      /\ tty = <<>> /\ g_nmea = <<>> /\ sbuf = <<>> /\ published = <<>> /\ sent = <<>>
  BY DEF DgInit, DgRest
<1>3. /\ <<>> \in Seq(Piece) /\ <<>> \in Seq(Seq(Piece)) /\ Len(<<>>) = 0
      /\ <<>> \o <<>> \o <<>> = <<>>
  OBVIOUS
<1>4. DgKinds
  <2>1. produced \in 0..MaxPieces
    BY <1>2, DgpsNodeAssumption
  <2>2. sx \in [open : BOOLEAN, opens : Nat]
    BY <1>2
  <2>3. reader \in [at : {"loop", "init", "nmea", "sbuf"}, got : Seq(Piece)] /\ reader.got = <<>>
    BY <1>2, <1>3
  <2>4. opening \in BOOLEAN
    BY <1>2, Zenon
  <2> QED BY <1>2, <1>3, <2>1, <2>2, <2>3, <2>4 DEF DgKinds
<1>5. DeviceInv
  BY <1>2 DEF DeviceInv, Bare
<1>6. NmeaChain = <<>> /\ SbufChain = <<>>
  BY <1>2, <1>3 DEF NmeaChain, SbufChain, Chunk
<1>7. Flow(<<>>, <<>>, 0) /\ Whole(<<>>, <<>>) /\ Level(<<>>, 0)
  BY <1>3 DEF Flow, Rising, Whole, Level
<1>8. NmeaFlow /\ SbufFlow
  BY <1>2, <1>6, <1>7 DEF NmeaFlow, SbufFlow, FlowInv
<1> QED
  BY <1>1, <1>4, <1>5, <1>8 DEF DgInv

\* What it says of the lines that were taken.
LEMMA LinesWhole ==
  ASSUME DgInv
  PROVE  WholeLines
<1>1. NtTypeOK
  BY NtTypes DEF DgInv
<1>2. DgKinds /\ sx.opens \in 0..2
  BY DEF DgInv, DeviceInv
<1>3. sx \in [open : BOOLEAN, opens : 0..2]
  BY <1>2 DEF DgKinds
<1>4. \A q \in Seq(Piece) : \A k \in DOMAIN q : q[k] \in Piece
  OBVIOUS
<1>5. /\ tty \in Seq(Piece) /\ reader.got \in Seq(Piece) /\ g_nmea \in Seq(Piece)
      /\ sbuf \in Seq(Piece) /\ reader.at \in {"loop", "init", "nmea", "sbuf"}
  BY <1>2 DEF DgKinds
<1>6. \A q \in {tty, reader.got, g_nmea, sbuf} : \A k \in DOMAIN q : q[k] \in Piece
  BY <1>4, <1>5, Zenon
<1>7. DgTypeOK
  BY <1>1, <1>2, <1>3, <1>5, <1>6, Zenon DEF DgKinds, DgTypeOK
<1>8. Flow(published, NmeaChain, produced) /\ Flow(sent, SbufChain, produced)
  BY DEF DgInv, NmeaFlow, SbufFlow, FlowInv
<1>9. /\ Rising(published) /\ Rising(sent)
      /\ DOMAIN published = 1..Len(published) /\ DOMAIN sent = 1..Len(sent)
  BY <1>8 DEF Flow
<1>10. sx.opens <= 1 => Whole(published, NmeaChain) /\ Whole(sent, SbufChain)
  BY DEF DgInv, NmeaFlow, SbufFlow, FlowInv
<1> QED
  BY <1>7, <1>9, <1>10 DEF Whole, WholeLines

\* Whatever the receiver sends and however often it is read: the timer publishes the
\* receiver's lines, and ntrip_client sends its GGA lines, in their order and none
\* twice, although the serial thread appends to g_nmea and sbuf while they look for
\* the newline; and every line is whole as long as the device was opened once.
THEOREM WholeLinesCorrect == DgSpec => []WholeLines
<1>1. DgInit => DgInv
  BY DgStarts
<1>2. DgInv /\ [DgNext]_dgVars => DgInv'
  BY DgStep
<1>3. DgInv => WholeLines
  BY LinesWhole
<1> QED
  BY <1>1, <1>2, <1>3, PTL DEF DgSpec
=============================================================================
