------------------------------ MODULE AppBridge ------------------------------
(***************************************************************************)
(* The OpenHarmony application: ArkTS pages call runCommand and            *)
(* stopCommand (napi_init.cpp), which make nodes inside the application's  *)
(* own process and run each on a thread of its own (napi_util.cpp).  What  *)
(* the nodes have to say goes through g_state.messages to the ArkTS        *)
(* thread, woken with uv_async_send.                                       *)
(*                                                                         *)
(* The ArkTS thread runs one call at a time; only the join in stopCommand  *)
(* makes it wait for another thread.  A node name is <op>_node_<topic>; the *)
(* model has one topic, so the operation is the name.  A node that nothing *)
(* refers to in a circle ("once": it has neither a timer nor a subscriber) *)
(* is destroyed when stopCommand returns, and ~NodeImpl calls exit.        *)
(*                                                                         *)
(* Bounds: MaxCommands started commands, MaxPending messages in the queue  *)
(* when a callback begins.                                                 *)
(***************************************************************************)
EXTENDS Naturals, Sequences

CONSTANTS MaxCommands, MaxPending

ASSUME AppBridgeAssumption == MaxCommands \in Nat /\ MaxPending \in Nat

Op == {"echo", "record", "pub", "play"}
NoNode == "none"

VARIABLES
  app,       \* "up", "exited", or "aborted": an exception, a null pointer
  why,       \* what ended it
  ark,       \* the ArkTS thread: [at, op, node], the last two of stopCommand
  callback,  \* g_state.env and g_state.callback are set
  names,     \* names the master has for this process
  g_nodes,   \* g_nodes[n]: NoNode, "looped" or "once"
  g_threads, \* names with a joinable thread
  stopped,   \* names whose m_ioc has been stopped
  thread,    \* thread[n]: "none", "ready", "running", "callback", "ended"
  messages,  \* g_state.messages
  wake,      \* uv_async_send was called and OnAsyncMessage has not run since
  commands

abVars == <<app, why, ark, callback, names, g_nodes, g_threads, stopped, thread,
            messages, wake, commands>>
nodeVars == <<names, g_nodes, g_threads, stopped, thread>>

AbInit ==
  /\ app = "up" /\ why = "" /\ ark = [at |-> "loop", op |-> "echo", node |-> NoNode]
  /\ callback = FALSE
  /\ names = {} /\ g_threads = {} /\ stopped = {}
  /\ g_nodes = [n \in Op |-> NoNode]
  /\ thread = [n \in Op |-> "none"]
  /\ messages = <<>> /\ wake = FALSE /\ commands = 0

AppEnds(how, reason) == app' = how /\ why' = reason

\* RegisterMessageCallback, when a page appears.
RegisterMessageCallback ==
  /\ ark.at = "loop"
  /\ ~callback
  /\ callback' = TRUE
  /\ UNCHANGED <<app, why, ark, nodeVars, messages, wake, commands>>

\* SendToArkTS drops the message while no callback is registered.
SendToArkTS(n) ==
  IF callback THEN messages' = Append(messages, n) /\ wake' = TRUE
              ELSE UNCHANGED <<messages, wake>>

\* Mutant: one message for each wake-up.
DrainsOne == messages' = Tail(messages) /\ wake' = FALSE

\* One uv_async_send may stand for several messages.
Drains == messages' = <<>> /\ wake' = FALSE

OnAsyncMessage ==
  /\ ark.at = "loop"
  /\ wake
  /\ Drains
  /\ UNCHANGED <<app, why, ark, callback, nodeVars, commands>>

-----------------------------------------------------------------------------
(* runCommand *)

\* A command that makes no node: a list, a wrong command, a topic without a type,
\* an unknown message type, a message that cannot be made, a file that cannot be
\* read or is empty.
RunNothing ==
  /\ ark.at = "loop"
  /\ commands < MaxCommands
  /\ commands' = commands + 1
  /\ UNCHANGED <<app, why, ark, callback, nodeVars, messages, wake>>

\* std::make_shared<Node>, and the publisher or subscriber: the master refuses a
\* name it has, and nothing catches what the constructor then throws.
MakesNode(n) == n \notin names /\ names' = names \cup {n}
NodeRefused(n) ==
  /\ n \in names
  /\ AppEnds("aborted", "refused")
  /\ UNCHANGED <<nodeVars, messages, wake>>
CreateFails ==
  /\ AppEnds("aborted", "create")
  /\ UNCHANGED <<nodeVars, messages, wake>>

\* g_nodes[name] = node, a thread for node->run(), and the thread into g_threads.
\* A joinable thread that is dropped ends the process: emplace drops the new one
\* when the name is there, an assignment drops the old one.
RunsNode(n, kind) ==
  \/ /\ n \notin g_threads
     /\ g_nodes' = [g_nodes EXCEPT ![n] = kind]
     /\ g_threads' = g_threads \cup {n}
     /\ stopped' = stopped \ {n}
     /\ thread' = [thread EXCEPT ![n] = "ready"]
     /\ UNCHANGED <<app, why>>
  \/ /\ n \in g_threads
     /\ AppEnds("aborted", "joinable")
     /\ UNCHANGED <<g_nodes, g_threads, stopped, thread>>

subscribe_and_echo ==
  \/ NodeRefused("echo") \/ CreateFails
  \/ MakesNode("echo") /\ RunsNode("echo", "looped") /\ UNCHANGED <<messages, wake>>

subscribe_and_record ==
  \/ NodeRefused("record") \/ CreateFails
  \/ MakesNode("record") /\ RunsNode("record", "looped") /\ UNCHANGED <<messages, wake>>

\* --once publishes on the ArkTS thread, otherwise a timer does on the node's.
create_publisher ==
  \/ NodeRefused("pub")
  \/ MakesNode("pub") /\ RunsNode("pub", "looped") /\ UNCHANGED <<messages, wake>>
  \/ MakesNode("pub") /\ SendToArkTS("pub") /\ RunsNode("pub", "once")
  \/ CreateFails

\* A bag of one message is published at once; msg is dereferenced even when it
\* could not be made.
bag_play ==
  \/ NodeRefused("play") \/ CreateFails
  \/ MakesNode("play") /\ RunsNode("play", "looped") /\ UNCHANGED <<messages, wake>>
  \/ MakesNode("play") /\ SendToArkTS("play") /\ RunsNode("play", "once")

RunCommand ==
  /\ ark.at = "loop"
  /\ commands < MaxCommands
  /\ commands' = commands + 1
  /\ subscribe_and_echo \/ subscribe_and_record \/ create_publisher \/ bag_play
  /\ UNCHANGED <<ark, callback>>

-----------------------------------------------------------------------------
(* The threads of the nodes *)

\* run() returns at once when stop() came first.
ThreadRuns(n) ==
  /\ thread[n] = "ready"
  /\ thread' = [thread EXCEPT ![n] = IF n \in stopped THEN "ended" ELSE "running"]
  /\ UNCHANGED <<app, why, ark, callback, names, g_nodes, g_threads, stopped,
                 messages, wake, commands>>

\* A timer or a message calls back; stop() does not interrupt it.
CallbackBegins(n) ==
  /\ thread[n] = "running" /\ n \notin stopped
  /\ g_nodes[n] = "looped"
  /\ Len(messages) < MaxPending
  /\ thread' = [thread EXCEPT ![n] = "callback"]
  /\ UNCHANGED <<app, why, ark, callback, names, g_nodes, g_threads, stopped,
                 messages, wake, commands>>

\* publish_message, or the lambda of echo, record and play.  The first call of a
\* timer creates the publisher, which throws when the master does not know the
\* node; the message of a bag may be null.
CallbackEnds(n) ==
  /\ thread[n] = "callback"
  /\ \/ /\ n \in names
        /\ SendToArkTS(n)
        /\ thread' = [thread EXCEPT ![n] = "running"]
        /\ UNCHANGED <<app, why>>
     \/ /\ AppEnds("aborted", IF n \in names THEN "create" ELSE "unknown")
        /\ UNCHANGED <<thread, messages, wake>>
  /\ UNCHANGED <<ark, callback, names, g_nodes, g_threads, stopped, commands>>

ThreadEnds(n) ==
  /\ thread[n] = "running" /\ n \in stopped
  /\ thread' = [thread EXCEPT ![n] = "ended"]
  /\ UNCHANGED <<app, why, ark, callback, names, g_nodes, g_threads, stopped,
                 messages, wake, commands>>

-----------------------------------------------------------------------------
(* stopCommand *)

\* node->stop() for a node that is found.
Stops(n) == stopped' = IF g_nodes[n] # NoNode THEN stopped \cup {n} ELSE stopped

\* The node and the thread are taken under g_mu, then stop().
StopTakes(n) ==
  /\ ark.at = "loop"
  /\ ark' = [at |-> IF n \in g_threads THEN "join" ELSE "post", op |-> n,
              node |-> g_nodes[n]]
  /\ Stops(n)
  /\ g_nodes' = [g_nodes EXCEPT ![n] = NoNode]
  /\ g_threads' = g_threads \ {n}
  /\ UNCHANGED <<app, why, callback, names, thread, messages, wake, commands>>

\* Mutant: the thread is not waited for.
StopJoinsNot ==
  /\ ark.at = "join"
  /\ ark' = [ark EXCEPT !.at = "post"]
  /\ UNCHANGED <<app, why, callback, nodeVars, messages, wake, commands>>

StopJoins ==
  /\ ark.at = "join"
  /\ thread[ark.op] = "ended"
  /\ ark' = [ark EXCEPT !.at = "post"]
  /\ thread' = [thread EXCEPT ![ark.op] = "none"]
  /\ UNCHANGED <<app, why, callback, names, g_nodes, g_threads, stopped, messages,
                 wake, commands>>

\* NodeStopController: the node of that name, with its publishers and subscribers,
\* leaves the master.
handlePost(n) == names' = names \ {n}

\* POST /node/stop; the local reference is the last one of a node without a circle.
StopPosts ==
  /\ ark.at = "post"
  /\ ark' = [ark EXCEPT !.at = "loop", !.node = NoNode]
  /\ handlePost(ark.op)
  /\ IF ark.node = "once" THEN AppEnds("exited", "destroyed") ELSE UNCHANGED <<app, why>>
  /\ UNCHANGED <<callback, g_nodes, g_threads, stopped, thread, messages, wake, commands>>

-----------------------------------------------------------------------------
Stop == StopJoins \/ StopPosts
NodeThread(n) == ThreadRuns(n) \/ CallbackEnds(n) \/ ThreadEnds(n)

AbNext ==
  /\ app = "up"
  /\ \/ RegisterMessageCallback \/ OnAsyncMessage \/ Stop \/ RunNothing \/ RunCommand
     \/ \E n \in Op : NodeThread(n) \/ CallbackBegins(n) \/ StopTakes(n)

AbSpec == AbInit /\ [][AbNext]_abVars

AbTypeOK ==
  /\ app \in {"up", "exited", "aborted"}
  /\ why \in {"", "refused", "create", "joinable", "unknown", "destroyed"}
  /\ ark \in [at : {"loop", "join", "post"}, op : Op,
             node : {NoNode, "looped", "once"}]
  /\ callback \in BOOLEAN /\ wake \in BOOLEAN
  /\ names \subseteq Op /\ g_threads \subseteq Op /\ stopped \subseteq Op
  /\ g_nodes \in [Op -> {NoNode, "looped", "once"}]
  /\ thread \in [Op -> {"none", "ready", "running", "callback", "ended"}]
  /\ \A k \in DOMAIN messages : messages[k] \in Op
  /\ commands \in 0..MaxCommands

\* The registration with the master, g_nodes and g_threads agree whenever no
\* stopCommand is under way.  So a name that is used twice is refused by the master
\* before a joinable thread is dropped, and, because stopCommand joins before it
\* tells the master, no callback runs for a node the master no longer knows.
NodesAgree ==
  /\ AbTypeOK
  /\ why \notin {"joinable", "unknown"}
  /\ app = "up" =>
       \A n \in Op \ {IF ark.at = "loop" THEN "" ELSE ark.op} :
         n \in names <=> g_nodes[n] # NoNode /\ n \in g_threads /\ thread[n] # "none"

\* stopCommand returns, whatever its node's thread is doing, and every message
\* reaches ArkTS although several share one wake-up.
BridgeProgress ==
  /\ (app = "up" /\ ark.at # "loop") ~> (app # "up" \/ ark.at = "loop")
  /\ (app = "up" /\ messages # <<>>) ~> (app # "up" \/ messages = <<>>)
=============================================================================
