------------------------------ MODULE Directory ------------------------------
(***************************************************************************)
(* How the masters of several hosts keep track of each other's nodes       *)
(* (src/src/Master/src: InterfaceManager, interface/, shm/controller/).    *)
(*                                                                         *)
(* Every master knows its own nodes with the topics they publish and       *)
(* subscribe (m_nodes) and has a copy of the others' (hostlist), kept up   *)
(* to date by broadcast requests and, whenever a connection comes up, by a *)
(* full list.  From the copies it derives topic2host, the hosts a message  *)
(* of a topic is sent to.  Each host has a TCP connection of its own to    *)
(* every other one, with a queue of requests in front of it.  All hosts    *)
(* are on one segment: requests are not relayed.                           *)
(*                                                                         *)
(* Bounds: MaxOps registrations and removals, MaxFaults broken connections *)
(* and restarts of a master.                                               *)
(***************************************************************************)
EXTENDS Naturals, Sequences

CONSTANTS
  Host, Node, Topic, NoTopic,
  WithNodes,  \* the hosts that run nodes
  MaxOps, MaxFaults

ASSUME DirectoryAssumption ==
  /\ NoTopic \notin Topic
  /\ WithNodes \subseteq Host
  /\ MaxOps \in Nat /\ MaxFaults \in Nat

VARIABLES
  reg,        \* reg[h]: the nodes, publishers and subscribers of h (m_nodes)
  view,       \* view[o][h]: the same, as host o knows it (hostlist[h])
  topic2host, \* topic2host[o]: the pairs <<topic, host>>
  conn,       \* conn[h][o]: the connection from h to o: "down", "up", "dead"
              \* (o has closed it, h does not know) or "reset" (h's next write
              \* fails)
  queue,      \* queue[h][o]: m_requestQueue of h for o
  wire,       \* wire[h][o]: requests written to the connection, not yet read
  late,       \* late[h][o]: requests of earlier connections, not yet read
  gap,        \* gap[h][o]: since the last list from h, o has missed a request of
              \* h or handled one of an earlier connection
  ops, faults

linkVars == <<conn, queue, wire, late, gap>>
vars == <<reg, view, topic2host, linkVars, ops, faults>>

\* What a master records of a node: that it is there, or that it publishes or
\* subscribes a topic.
Entry == [node : Node, role : {"node"}, topic : {NoTopic}]
           \cup [node : Node, role : {"pub", "sub"}, topic : Topic]

\* Requests between masters: POST /node, /node/pub and /node/sub; DELETE /node;
\* POST and PUT /new with the list of getAllNodeInfo.
Request == [kind : {"add"}, entry : Entry]
             \cup [kind : {"delete"}, node : Node]
             \cup [kind : {"new", "reply"}, body : SUBSET Entry]

Others(h) == Host \ {h}
PerLink(x) == [h \in Host |-> [o \in Host |-> x]]

Init ==
  /\ reg = [h \in Host |-> {}]
  /\ view = PerLink({})
  /\ topic2host = [h \in Host |-> {}]
  /\ conn = PerLink("down")
  /\ queue = PerLink(<<>>)
  /\ wire = PerLink(<<>>)
  /\ late = PerLink(<<>>)
  /\ gap = PerLink(FALSE)
  /\ ops = 0 /\ faults = 0

\* Mutant: published topics count as well.
AllTopics(entries) == {e.topic : e \in entries}

\* The topics that the nodes of a host subscribe, and the entries of one node.
Topics(entries) == {e.topic : e \in {x \in entries : x.role = "sub"}}
OfNode(entries, n) == {e \in entries : e.node = n}

-----------------------------------------------------------------------------
(* Changes at a host, from requests of its node processes *)

\* broadcast: the request goes to the queue for every other host.
broadcast(h, req) ==
  queue' = [queue EXCEPT ![h] = [o \in Host |->
              IF o = h THEN @[o] ELSE Append(@[o], req)]]

\* addNode refuses a known name; addPublish and addSubscrie refuse an unknown
\* node and a second Publish or Subscribe of the topic.
MayAdd(h, e) ==
  /\ e \notin reg[h]
  /\ e.role # "node" =>
       [node |-> e.node, role |-> "node", topic |-> NoTopic] \in reg[h]

Add(h, e) ==
  /\ ops < MaxOps
  /\ MayAdd(h, e)
  /\ reg' = [reg EXCEPT ![h] = @ \cup {e}]
  /\ broadcast(h, [kind |-> "add", entry |-> e])
  /\ ops' = ops + 1
  /\ UNCHANGED <<view, topic2host, conn, wire, late, gap, faults>>

DeleteNode(h, n) ==
  /\ ops < MaxOps
  /\ OfNode(reg[h], n) # {}
  /\ reg' = [reg EXCEPT ![h] = @ \ OfNode(@, n)]
  /\ broadcast(h, [kind |-> "delete", node |-> n])
  /\ ops' = ops + 1
  /\ UNCHANGED <<view, topic2host, conn, wire, late, gap, faults>>

-----------------------------------------------------------------------------
(* Connections *)

\* Mutant: a new connection is not announced.
OnNewSilent(h) == queue' = queue

\* onNew: the list of all nodes, to all hosts.
onNew(h) == broadcast(h, [kind |-> "new", body |-> reg[h]])

\* onConnect without error.  What is in the queue is older than the list.
Connect(h, o) ==
  /\ o # h
  /\ conn[h][o] = "down"
  /\ conn' = [conn EXCEPT ![h][o] = "up"]
  /\ onNew(h)
  /\ UNCHANGED <<reg, view, topic2host, wire, late, gap, ops, faults>>

\* doWrite takes the next request.  The first write to a connection the peer has
\* closed succeeds, the second one fails; neither arrives, and onWrite closes
\* the connection after the second.
Write(h, o) ==
  /\ queue[h][o] # <<>>
  /\ conn[h][o] # "down"
  /\ queue' = [queue EXCEPT ![h][o] = Tail(@)]
  /\ \/ /\ conn[h][o] = "up"
        /\ wire' = [wire EXCEPT ![h][o] = Append(@, Head(queue[h][o]))]
        /\ UNCHANGED conn
     \/ /\ conn[h][o] # "up"
        /\ conn' = [conn EXCEPT ![h][o] = IF @ = "dead" THEN "reset" ELSE "down"]
        /\ UNCHANGED wire
  /\ UNCHANGED <<reg, view, topic2host, late, gap, ops, faults>>

\* onWrite with an error, or after a timeout: the connection is closed.  Of what
\* was written the first k requests still arrive.
Break(h, o) ==
  /\ conn[h][o] = "up"
  /\ faults < MaxFaults
  /\ faults' = faults + 1
  /\ conn' = [conn EXCEPT ![h][o] = "down"]
  /\ \E k \in 0..Len(wire[h][o]) :
       late' = [late EXCEPT ![h][o] = @ \o SubSeq(wire[h][o], 1, k)]
  /\ wire' = [wire EXCEPT ![h][o] = <<>>]
  /\ UNCHANGED <<reg, view, topic2host, queue, gap, ops>>

\* A master ends and starts again, without its nodes.
Restart(h) ==
  /\ faults < MaxFaults
  /\ faults' = faults + 1
  /\ reg' = [reg EXCEPT ![h] = {}]
  /\ view' = [view EXCEPT ![h] = [o \in Host |-> {}]]
  /\ topic2host' = [topic2host EXCEPT ![h] = {}]
  /\ conn' = [g \in Host |-> [o \in Host |->
       IF g = h THEN "down"
       ELSE IF o = h /\ conn[g][o] = "up" THEN "dead" ELSE conn[g][o]]]
  /\ queue' = [queue EXCEPT ![h] = [o \in Host |-> <<>>]]
  /\ wire' = [g \in Host |-> [o \in Host |->
       IF h \in {g, o} THEN <<>> ELSE wire[g][o]]]
  /\ late' = [g \in Host |-> [o \in Host |->
       IF o = h THEN <<>>
       ELSE IF g = h THEN late[g][o] \o wire[g][o] ELSE late[g][o]]]
  /\ gap' = [g \in Host |-> [o \in Host |-> gap[g][o] \/ o = h]]
  /\ UNCHANGED ops

-----------------------------------------------------------------------------
(* Requests from another host: the controllers in interface/controller *)

\* POST /node, /node/pub, /node/sub
HandleAdd(o, h, e) ==
  /\ view' = [view EXCEPT ![o][h] = @ \cup {e}]
  /\ topic2host' = [topic2host EXCEPT ![o] =
       @ \cup (Topics({e}) \X {h})]
  /\ UNCHANGED queue

\* Mutant: the topics of the deleted node stay in topic2host.
NoTopics(entries, n) == {}

\* Host::deleteNode returns the topics of all the nodes of the host.
RemovedTopics(entries, n) == Topics(entries)

\* DELETE /node
HandleDelete(o, h, n) ==
  /\ view' = [view EXCEPT ![o][h] = @ \ OfNode(@, n)]
  /\ topic2host' = [topic2host EXCEPT ![o] =
       @ \ (RemovedTopics(view[o][h], n) \X {h})]
  /\ UNCHANGED queue

\* Mutant: the list is added to what is already there.
MergeList(o, h, body) ==
  /\ view' = [view EXCEPT ![o][h] = @ \cup body]
  /\ topic2host' = [topic2host EXCEPT ![o] = @ \cup (Topics(body) \X {h})]

\* NewController: the list replaces all that is known of the host.
TakeList(o, h, body) ==
  /\ view' = [view EXCEPT ![o][h] = body]
  /\ topic2host' = [topic2host EXCEPT ![o] =
       {x \in @ : x[2] # h} \cup (Topics(body) \X {h})]

\* POST /new is answered with this host's list, PUT /new is not.
HandleNew(o, h, req) ==
  /\ TakeList(o, h, req.body)
  /\ queue' = IF req.kind = "new"
              THEN [queue EXCEPT ![o][h] =
                      Append(@, [kind |-> "reply", body |-> reg[o]])]
              ELSE queue

Handle(o, h, req) ==
  \/ req.kind = "add" /\ HandleAdd(o, h, req.entry)
  \/ req.kind = "delete" /\ HandleDelete(o, h, req.node)
  \/ req.kind \in {"new", "reply"} /\ HandleNew(o, h, req)

\* Server::onRead handles a request and doRead clears the buffer: requests that
\* came with the same read are dropped.
Receive(h, o) ==
  LET w == wire[h][o] IN
  /\ w # <<>>
  /\ Handle(o, h, Head(w))
  /\ \E k \in 1..Len(w) :
       /\ wire' = [wire EXCEPT ![h][o] = SubSeq(w, k + 1, Len(w))]
       /\ gap' = [gap EXCEPT ![h][o] =
            k > 1 \/ (@ /\ Head(w).kind \notin {"new", "reply"})]
  /\ UNCHANGED <<reg, conn, late, ops, faults>>

\* Only the beginning of the next request came with the read: the rest is no
\* request, and the receiver closes the connection.
ReceiveCut(h, o) ==
  LET w == wire[h][o] IN
  /\ Len(w) > 1
  /\ Handle(o, h, Head(w))
  /\ wire' = [wire EXCEPT ![h][o] = <<>>]
  /\ conn' = [conn EXCEPT ![h][o] = "dead"]
  /\ gap' = [gap EXCEPT ![h][o] = TRUE]
  /\ UNCHANGED <<reg, late, ops, faults>>

\* The reader of an earlier connection goes on beside that of the present one.
ReceiveLate(h, o) ==
  LET w == late[h][o] IN
  /\ w # <<>>
  /\ Handle(o, h, Head(w))
  /\ \E k \in 1..Len(w) :
       late' = [late EXCEPT ![h][o] = SubSeq(w, k + 1, Len(w))]
  /\ gap' = [gap EXCEPT ![h][o] = TRUE]
  /\ UNCHANGED <<reg, conn, wire, ops, faults>>

Next ==
  \/ \E h \in WithNodes : \/ \E e \in Entry : Add(h, e)
                          \/ \E n \in Node : DeleteNode(h, n)
  \/ \E h \in Host : Restart(h)
  \/ \E h, o \in Host : \/ Connect(h, o) \/ Write(h, o) \/ Break(h, o)
                        \/ Receive(h, o) \/ ReceiveCut(h, o) \/ ReceiveLate(h, o)

Spec == Init /\ [][Next]_vars

\* A host that is not connected tries again every 60 seconds; a connection
\* carries what is written to it.
Fairness ==
  \A h, o \in Host : /\ WF_vars(Connect(h, o)) /\ WF_vars(Write(h, o))
                     /\ WF_vars(Receive(h, o)) /\ WF_vars(ReceiveLate(h, o))

FairSpec == Spec /\ Fairness

-----------------------------------------------------------------------------
(* Properties *)

TypeOK ==
  /\ reg \in [Host -> SUBSET Entry]
  /\ view \in [Host -> [Host -> SUBSET Entry]]
  /\ topic2host \in [Host -> SUBSET (Topic \X Host)]
  /\ conn \in [Host -> [Host -> {"down", "up", "dead", "reset"}]]
  /\ queue \in [Host -> [Host -> Seq(Request)]]
  /\ wire \in [Host -> [Host -> Seq(Request)]]
  /\ late \in [Host -> [Host -> Seq(Request)]]
  /\ gap \in [Host -> [Host -> BOOLEAN]]
  /\ ops \in Nat /\ faults \in Nat

\* Whatever was lost with earlier connections and restarts: once a connection is
\* up, all its requests have been read, and no read has swallowed one since the
\* last list, the receiver knows exactly the sender's nodes and topics.
CopyAgrees ==
  \A h \in Host : \A o \in Others(h) :
    (conn[h][o] = "up" /\ queue[h][o] \o wire[h][o] = <<>> /\ ~gap[h][o])
       => view[o][h] = reg[h]

\* InterfaceManager::publish sends a topic only to hosts that are known to have
\* a subscriber of it.
NoStrayHost ==
  \A o, h \in Host : \A t \in Topic :
    <<t, h>> \in topic2host[o] => t \in Topics(view[o][h])

\* topic2host maps a topic to every host that has a subscriber of it: messages
\* reach all of them (the comment of the member says "topic to host mapping").
EveryHostOfTopic ==
  \A o, h \in Host : \A t \in Topic :
    t \in Topics(view[o][h]) => <<t, h>> \in topic2host[o]

\* When nodes stop coming and going and connections stop breaking, every host
\* ends up with every other host's list, or with a gap that no list has closed.
EventuallyAgree ==
  \A h \in Host : \A o \in Others(h) : <>[](gap[h][o] \/ view[o][h] = reg[h])
=============================================================================
