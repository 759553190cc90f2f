------------------------------ MODULE ShmTopic ------------------------------
(***************************************************************************)
(* One topic inside one host: how a message goes from a Publisher in a     *)
(* node process, through the master, to the Subscribers of other node      *)
(* processes (src/src/Node and src/src/Master/src/shm).                    *)
(*                                                                         *)
(* Every Publisher and every Subscriber has a bounded single-producer      *)
(* single-consumer queue in shared memory and an eventfd that counts the   *)
(* messages its consumer has not been told of yet.  The producer pushes    *)
(* and then adds one to the eventfd; the consumer reads the eventfd, which *)
(* resets it, and pops that many messages.  Node processes run in parallel *)
(* with the master; the master's handlers run one at a time.               *)
(*                                                                         *)
(* Bounds: a process publishes MaxPub messages, MaxRemote messages arrive  *)
(* from other hosts, MaxCrashes processes die without signing off.         *)
(***************************************************************************)
EXTENDS Naturals, Sequences, FiniteSets, Functions

CONSTANTS
  Proc,       \* node processes; each starts at most once
  Pubs, Subs, \* those whose program creates a Publisher, a Subscriber
  Name,       \* node names
  NameOf,     \* NameOf[p]: the name process p registers under
  NoProc,     \* no process
  Remote,     \* the source of messages from other hosts
  QueueSize,  \* QUEUE_SIZE
  MaxPub, MaxRemote, MaxCrashes

ASSUME ProcAssumption ==
  /\ Pubs \subseteq Proc /\ Subs \subseteq Proc
  /\ NameOf \in [Proc -> Name]
  /\ NoProc \notin Proc /\ Remote \notin Proc

ASSUME BoundAssumption ==
  /\ QueueSize \in Nat \ {0}
  /\ MaxPub \in Nat /\ MaxRemote \in Nat /\ MaxCrashes \in Nat

VARIABLES
  proc,        \* a process is "new", "up", "leaving" (signed off) or "gone"
  nodes,       \* m_nodes: name -> the process registered under it, or NoProc
  publishes,   \* m_publishes of the topic
  subscribes,  \* m_subscribes of the topic
  created,     \* the processes that have their Publisher
  reading,     \* the eventfd read of a Publish: "off", "armed" or "ready"
  value,       \* m_eventfdValue: messages a Publish still has to pop
  busy,        \* the Publish whose onEventfdRead is running, or NoProc
  pubQueue, pubFd, unsignalled,  \* queue and eventfd of a Publisher
  subQueue, subFd, subValue,     \* queue, eventfd and pops of a Subscriber
  count,       \* messages published so far, by process and by Remote
  forwarded,   \* messages handed to InterfaceManager::publish
  got,         \* got[s]: the messages the callback of s was called with
  crashes

pubVars == <<reading, value, pubQueue, pubFd, unsignalled>>
subVars == <<subQueue, subFd, subValue, got>>
regVars == <<proc, nodes, publishes, subscribes, created>>
vars == <<regVars, pubVars, subVars, busy, count, forwarded, crashes>>

Source == Proc \cup {Remote}
Message == [src : Source, no : Nat]
Empty == [src |-> Remote, no |-> 0]   \* what pop leaves in the string it got

Init ==
  /\ proc = [p \in Proc |-> "new"]
  /\ nodes = [n \in Name |-> NoProc]
  /\ publishes = {} /\ subscribes = {} /\ created = {}
  /\ reading = [p \in Proc |-> "off"]
  /\ value = [p \in Proc |-> 0]
  /\ busy = NoProc
  /\ pubQueue = [p \in Proc |-> <<>>]
  /\ pubFd = [p \in Proc |-> 0]
  /\ unsignalled = [p \in Proc |-> 0]
  /\ subQueue = [p \in Proc |-> <<>>]
  /\ subFd = [p \in Proc |-> 0]
  /\ subValue = [p \in Proc |-> 0]
  /\ count = [s \in Source |-> 0]
  /\ forwarded = <<>>
  /\ got = [p \in Proc |-> <<>>]
  /\ crashes = 0

Running(p) == proc[p] \in {"up", "leaving"}

-----------------------------------------------------------------------------
(* Handlers of the master: requests on /tmp/master *)

\* POST /node: a taken name is refused, and NodeImpl::run throws.
AddNode(p) ==
  LET free == nodes[NameOf[p]] = NoProc IN
  /\ busy = NoProc
  /\ proc[p] = "new"
  /\ proc' = [proc EXCEPT ![p] = IF free THEN "up" ELSE "gone"]
  /\ nodes' = IF free THEN [nodes EXCEPT ![NameOf[p]] = p] ELSE nodes
  /\ UNCHANGED <<publishes, subscribes, created, pubVars, subVars, busy, count, forwarded, crashes>>

\* Publisher::run and Subscriber::run send the request and wait for the answer.
CreatesPublisher(p) == p \in Pubs /\ proc[p] = "up"
CreatesSubscriber(p) == p \in Subs /\ proc[p] = "up"

\* Publish::run opens the queue and starts the first read of the eventfd.
RunPublish(p) == reading' = [reading EXCEPT ![p] = "armed"]

\* POST /node/pub: one Publish per node and topic.
AddPublish(p) ==
  /\ busy = NoProc
  /\ CreatesPublisher(p)
  /\ nodes[NameOf[p]] = p
  /\ p \notin publishes
  /\ publishes' = publishes \cup {p}
  /\ created' = created \cup {p}
  /\ RunPublish(p)
  /\ UNCHANGED <<proc, nodes, subscribes, value, pubQueue, pubFd, unsignalled,
                 subVars, busy, count, forwarded, crashes>>

\* POST /node/sub: one Subscribe per node and topic.
AddSubscribe(p) ==
  /\ busy = NoProc
  /\ CreatesSubscriber(p)
  /\ nodes[NameOf[p]] = p
  /\ p \notin subscribes
  /\ subscribes' = subscribes \cup {p}
  /\ UNCHANGED <<proc, nodes, publishes, created, pubVars, subVars, busy, count, forwarded, crashes>>

\* cancel() aborts a read that waits, not one that has already completed.
Cancelled(r) == IF r = "armed" THEN "off" ELSE r

\* Mutant: m_subscribes keeps the Subscribe of a deleted node.
DeleteNodeKeepsSubscribe(p) ==
  /\ busy = NoProc
  /\ proc[p] = "up"
  /\ nodes[NameOf[p]] = p
  /\ proc' = [proc EXCEPT ![p] = "leaving"]
  /\ nodes' = [nodes EXCEPT ![NameOf[p]] = NoProc]
  /\ publishes' = publishes \ {p}
  /\ reading' = [reading EXCEPT ![p] = Cancelled(@)]
  /\ UNCHANGED <<subscribes, created, value, pubQueue, pubFd, unsignalled,
                 subVars, busy, count, forwarded, crashes>>

\* DELETE /node, from NodeImpl::onSignal: the node's Publish and Subscribe are
\* cancelled and forgotten.  The other threads of the process still run.
DeleteNode(p) ==
  /\ busy = NoProc
  /\ proc[p] = "up"
  /\ nodes[NameOf[p]] = p
  /\ proc' = [proc EXCEPT ![p] = "leaving"]
  /\ nodes' = [nodes EXCEPT ![NameOf[p]] = NoProc]
  /\ subscribes' = subscribes \ {p}
  /\ publishes' = publishes \ {p}
  /\ reading' = [reading EXCEPT ![p] = Cancelled(@)]
  /\ UNCHANGED <<created, value, pubQueue, pubFd, unsignalled, subVars, busy,
                 count, forwarded, crashes>>

-----------------------------------------------------------------------------
(* The master moves messages *)

\* The kernel completes the read: the eventfd is reset and onEventfdRead waits
\* for its turn.
ReadCompletes(p) ==
  /\ reading[p] = "armed"
  /\ pubFd[p] > 0
  /\ reading' = [reading EXCEPT ![p] = "ready"]
  /\ value' = [value EXCEPT ![p] = pubFd[p]]
  /\ pubFd' = [pubFd EXCEPT ![p] = 0]
  /\ UNCHANGED <<regVars, pubQueue, unsignalled, subVars, busy, count, forwarded, crashes>>

BeginRead(p) ==
  /\ busy = NoProc
  /\ reading[p] = "ready"
  /\ busy' = p
  /\ UNCHANGED <<regVars, pubVars, subVars, count, forwarded, crashes>>

\* Mutant: a queue of QueueSize messages takes one more.
HasRoomForOneMore(q) == Len(q) <= QueueSize

\* push and write_available of an spsc_queue of capacity QUEUE_SIZE.
HasRoom(q) == Len(q) < QueueSize

\* Mutant: the eventfd is signalled although the push failed.
SignalAll(m) ==
  LET takes == {s \in subscribes : HasRoom(subQueue[s])} IN
  /\ subQueue' = [s \in Proc |->
       IF s \in takes THEN Append(subQueue[s], m) ELSE subQueue[s]]
  /\ subFd' = [s \in Proc |-> IF s \in subscribes THEN subFd[s] + 1 ELSE subFd[s]]

\* publish2Node on each Subscribe: a full queue drops the message, unsignalled.
ToSubscribers(m) ==
  LET takes == {s \in subscribes : HasRoom(subQueue[s])} IN
  /\ subQueue' = [s \in Proc |->
       IF s \in takes THEN Append(subQueue[s], m) ELSE subQueue[s]]
  /\ subFd' = [s \in Proc |-> IF s \in takes THEN subFd[s] + 1 ELSE subFd[s]]

\* Mutant: the loop runs before its condition is tested.
TransferFirst(p) ==
  LET q == pubQueue[p]
      m == IF q = <<>> THEN Empty ELSE Head(q) IN
  /\ busy = p
  /\ value' = [value EXCEPT ![p] = @ - 1]
  /\ pubQueue' = [pubQueue EXCEPT ![p] = IF q = <<>> THEN q ELSE Tail(q)]
  /\ forwarded' = Append(forwarded, m)
  /\ ToSubscribers(m)
  /\ UNCHANGED <<regVars, reading, pubFd, unsignalled, subValue, got, busy, count, crashes>>

\* Mutant: the message is read and stays in the queue.
TransferFront(p) ==
  /\ busy = p
  /\ value[p] > 0
  /\ value' = [value EXCEPT ![p] = @ - 1]
  /\ forwarded' = Append(forwarded, Head(pubQueue[p]))
  /\ ToSubscribers(Head(pubQueue[p]))
  /\ UNCHANGED <<regVars, reading, pubQueue, pubFd, unsignalled, subValue, got,
                 busy, count, crashes>>

\* One turn of the loop of onEventfdRead: pop, whose result is not tested, then
\* transferMessage to the other hosts and to the subscribers here.
Transfer(p) ==
  LET q == pubQueue[p]
      m == IF q = <<>> THEN Empty ELSE Head(q) IN
  /\ busy = p
  /\ value[p] > 0
  /\ value' = [value EXCEPT ![p] = @ - 1]
  /\ pubQueue' = [pubQueue EXCEPT ![p] = IF q = <<>> THEN q ELSE Tail(q)]
  /\ forwarded' = Append(forwarded, m)
  /\ ToSubscribers(m)
  /\ UNCHANGED <<regVars, reading, pubFd, unsignalled, subValue, got, busy, count, crashes>>

\* Mutant: the eventfd is not read again.
EndReadForGood(p) ==
  /\ busy = p
  /\ value[p] = 0
  /\ busy' = NoProc
  /\ reading' = [reading EXCEPT ![p] = "off"]
  /\ UNCHANGED <<regVars, value, pubQueue, pubFd, unsignalled, subVars, count,
                 forwarded, crashes>>

\* After the loop the eventfd is read again.
EndRead(p) ==
  /\ busy = p
  /\ value[p] = 0
  /\ busy' = NoProc
  /\ reading' = [reading EXCEPT ![p] = "armed"]
  /\ UNCHANGED <<regVars, value, pubQueue, pubFd, unsignalled, subVars, count,
                 forwarded, crashes>>

\* POST /publish from another host: transferInnerMessage, which does not
\* forward.
RemoteMessage ==
  /\ busy = NoProc
  /\ count[Remote] < MaxRemote
  /\ count' = [count EXCEPT ![Remote] = @ + 1]
  /\ ToSubscribers([src |-> Remote, no |-> count[Remote] + 1])
  /\ UNCHANGED <<regVars, pubVars, subValue, got, busy, forwarded, crashes>>

-----------------------------------------------------------------------------
(* Node processes *)

\* Mutant: the eventfd is signalled for a message that found no room.
PublishAlwaysSignals(p) ==
  /\ Running(p)
  /\ p \in created
  /\ unsignalled[p] = 0
  /\ count[p] < MaxPub
  /\ count' = [count EXCEPT ![p] = @ + 1]
  /\ unsignalled' = [unsignalled EXCEPT ![p] = 1]
  /\ pubQueue' = [pubQueue EXCEPT ![p] =
       IF HasRoom(@) THEN Append(@, [src |-> p, no |-> count[p] + 1]) ELSE @]
  /\ UNCHANGED <<regVars, reading, value, pubFd, subVars, busy, forwarded, crashes>>

\* Publisher::publish, first part: a full queue drops the message.
Publish(p) ==
  LET m == [src |-> p, no |-> count[p] + 1] IN
  /\ Running(p)
  /\ p \in created
  /\ unsignalled[p] = 0
  /\ count[p] < MaxPub
  /\ count' = [count EXCEPT ![p] = @ + 1]
  /\ IF HasRoom(pubQueue[p])
     THEN /\ pubQueue' = [pubQueue EXCEPT ![p] = Append(@, m)]
          /\ unsignalled' = [unsignalled EXCEPT ![p] = 1]
     ELSE UNCHANGED <<pubQueue, unsignalled>>
  /\ UNCHANGED <<regVars, reading, value, pubFd, subVars, busy, forwarded, crashes>>

\* Publisher::publish, second part: one is added to the eventfd.
Signal(p) ==
  /\ Running(p)
  /\ unsignalled[p] = 1
  /\ unsignalled' = [unsignalled EXCEPT ![p] = 0]
  /\ pubFd' = [pubFd EXCEPT ![p] = @ + 1]
  /\ UNCHANGED <<regVars, reading, value, pubQueue, subVars, busy, count, forwarded, crashes>>

\* Subscriber::onRead: the eventfd was read ...
SubRead(s) ==
  /\ Running(s)
  /\ subValue[s] = 0
  /\ subFd[s] > 0
  /\ subValue' = [subValue EXCEPT ![s] = subFd[s]]
  /\ subFd' = [subFd EXCEPT ![s] = 0]
  /\ UNCHANGED <<regVars, pubVars, subQueue, got, busy, count, forwarded, crashes>>

\* ... and that many messages are popped, if they are there.
SubPop(s) ==
  /\ Running(s)
  /\ subValue[s] > 0
  /\ subValue' = [subValue EXCEPT ![s] = @ - 1]
  /\ IF subQueue[s] = <<>>
     THEN UNCHANGED <<subQueue, got>>
     ELSE /\ subQueue' = [subQueue EXCEPT ![s] = Tail(@)]
          /\ got' = [got EXCEPT ![s] = Append(@, Head(subQueue[s]))]
  /\ UNCHANGED <<regVars, pubVars, subFd, busy, count, forwarded, crashes>>

\* exit(0) after the DELETE was answered, or the exception of a createPublisher
\* that the master refuses because the node is no longer known.
Exit(p) ==
  /\ proc[p] = "leaving"
  /\ proc' = [proc EXCEPT ![p] = "gone"]
  /\ UNCHANGED <<nodes, publishes, subscribes, created, pubVars, subVars, busy, count,
                 forwarded, crashes>>

\* A process dies without a DELETE (SIGKILL, or abort(), which does not wait for
\* the thread that runs onSignal); the master keeps its node.
Crash(p) ==
  /\ Running(p)
  /\ crashes < MaxCrashes
  /\ crashes' = crashes + 1
  /\ proc' = [proc EXCEPT ![p] = "gone"]
  /\ UNCHANGED <<nodes, publishes, subscribes, created, pubVars, subVars, busy, count, forwarded>>

Master(p) == ReadCompletes(p) \/ BeginRead(p) \/ Transfer(p) \/ EndRead(p)

Next ==
  \/ RemoteMessage
  \/ \E p \in Proc :
       \/ AddNode(p) \/ AddPublish(p) \/ AddSubscribe(p) \/ DeleteNode(p)
       \/ Master(p) \/ Publish(p) \/ Signal(p) \/ SubRead(p) \/ SubPop(p)
       \/ Exit(p) \/ Crash(p)

Spec == Init /\ [][Next]_vars

\* The master's io_context and the threads of a running process keep going.
\* Which requests and messages there are is up to the environment.
Fairness ==
  \A p \in Proc : /\ WF_vars(ReadCompletes(p)) /\ WF_vars(Transfer(p))
                  /\ WF_vars(EndRead(p)) /\ SF_vars(BeginRead(p))
                  /\ WF_vars(Signal(p)) /\ WF_vars(SubRead(p)) /\ WF_vars(SubPop(p))

FairSpec == Spec /\ Fairness

-----------------------------------------------------------------------------
(* Properties *)

TypeOK ==
  /\ proc \in [Proc -> {"new", "up", "leaving", "gone"}]
  /\ nodes \in [Name -> Proc \cup {NoProc}]
  /\ publishes \subseteq Pubs /\ subscribes \subseteq Subs
  /\ created \subseteq Pubs
  /\ reading \in [Proc -> {"off", "armed", "ready"}]
  /\ value \in [Proc -> Nat]
  /\ busy \in Proc \cup {NoProc}
  /\ pubQueue \in [Proc -> Seq(Message)]
  /\ pubFd \in [Proc -> Nat]
  /\ unsignalled \in [Proc -> {0, 1}]
  /\ subQueue \in [Proc -> Seq(Message)]
  /\ subFd \in [Proc -> Nat]
  /\ subValue \in [Proc -> Nat]
  /\ count \in [Source -> Nat]
  /\ forwarded \in Seq(Message)
  /\ got \in [Proc -> Seq(Message)]
  /\ crashes \in Nat

\* Every message in a queue is counted exactly once: by the producer that has
\* not signalled it yet, by the eventfd, or by the consumer that has read the
\* eventfd and not popped it yet.
Counted ==
  \A p \in Proc :
    /\ Len(pubQueue[p]) = value[p] + pubFd[p] + unsignalled[p]
    /\ Len(subQueue[p]) = subValue[p] + subFd[p]

\* onEventfdRead pops as often as the eventfd said and never tests the result,
\* and onRead silently skips a failed pop: no pop of either may find its queue
\* empty, whatever the other side, DELETE and crashes do in between.
PopFindsMessage ==
  \A p \in Proc : /\ value[p] > 0 => pubQueue[p] # <<>>
                  /\ subValue[p] > 0 => subQueue[p] # <<>>

\* The memory of a topic is bounded: an spsc_queue never holds more than
\* QUEUE_SIZE messages, and a dead consumer's eventfd stops at that count.
QueueBound ==
  \A p \in Proc : /\ Len(pubQueue[p]) <= QueueSize
                  /\ Len(subQueue[p]) <= QueueSize
                  /\ pubFd[p] <= QueueSize /\ subFd[p] <= QueueSize

\* Of two messages of one source the earlier one comes first: within q, and
\* between q and the sequence r that feeds it.
Ordered(q) ==
  \A i, j \in 1..Len(q) : (i < j /\ q[i].src = q[j].src) => q[i].no < q[j].no
Before(q, r) ==
  \A i \in 1..Len(q), j \in 1..Len(r) : q[i].src = r[j].src => q[i].no < r[j].no
Published(q, c) == \A i \in 1..Len(q) : q[i].no \in 1..c[q[i].src]

\* From publish() through both queues to the callback, and to the other hosts,
\* each source's messages stay in the order of its publish calls, none comes
\* twice, and nothing comes that nobody published.
InOrder ==
  /\ Ordered(forwarded) /\ Published(forwarded, count)
  /\ \A p \in Proc : /\ Ordered(pubQueue[p]) /\ Published(pubQueue[p], count)
                     /\ Before(forwarded, pubQueue[p])
  /\ \A s \in Proc : /\ Ordered(subQueue[s]) /\ Published(subQueue[s], count)
                     /\ Ordered(got[s]) /\ Published(got[s], count)
                     /\ Before(got[s], subQueue[s])
  /\ \A s, p \in Proc : /\ Before(subQueue[s], pubQueue[p])
                        /\ Before(got[s], pubQueue[p])

\* DELETE leaves nothing behind: a Publish or Subscribe in the tables of the
\* topic belongs to the process registered under its name, and only to it.
Registered ==
  \A p \in publishes \cup subscribes : nodes[NameOf[p]] = p

\* A message that publish() accepted reaches every Subscriber that is there,
\* unless one of the two processes leaves.  (A Subscriber whose queue is full
\* loses messages: checked where the queues have room for all of them.)
EndToEnd ==
  \A p \in Pubs, s \in Subs, k \in 1..MaxPub :
    LET m == [src |-> p, no |-> k]
        there == /\ p \in publishes /\ proc[p] = "up"
                 /\ s \in subscribes /\ proc[s] = "up" IN
    (there /\ m \in Range(pubQueue[p])) ~> (~there \/ m \in Range(got[s]))
=============================================================================
