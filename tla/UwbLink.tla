------------------------------ MODULE UwbLink ------------------------------
(***************************************************************************)
(* The UWB link of src/src/Master/src/uwb: one Uwb::Handle per radio node, *)
(* joined by a shared radio that each node may use only in its own time    *)
(* slot.  A handle is touched by four threads: the master's io_context     *)
(* (send_http_reliable and handle_read), the slot monitor (on_my_slot),    *)
(* the timeout thread (check_timeouts) and the heartbeat thread.  An       *)
(* action is what one thread does between taking and releasing a mutex.    *)
(*                                                                         *)
(* Time is counted in slots.  Tick crosses a slot boundary; a frame that   *)
(* is waiting for its ACK has an age in boundaries, and ACK_TIMEOUT_MS is  *)
(* AckTimeout slots long (2000 ms / 500 ms = 4).                           *)
(*                                                                         *)
(* Bounds: each request of Msg is sent once, MaxSends requests per node,   *)
(* MaxBeats heartbeats per node, MaxFaults corrupted frames, failed serial *)
(* writes and missed slots altogether.                                     *)
(***************************************************************************)
EXTENDS Integers, Sequences, SequencesExt, FiniteSets

CONSTANTS
  Node,        \* the node ids present on the radio, within 1..MaxNodes
  MaxNodes,    \* SimpleTimeSlotManager::MAX_NODES
  MaxSeq,      \* largest sequence number (255: m_next_seq is a uint8_t)
  MaxRetries,  \* Handle::MAX_RETRIES
  AckTimeout,  \* Handle::ACK_TIMEOUT_MS in slots
  Broadcast,   \* FrameCodec::BROADCAST_ID
  Msg,         \* the requests
  Src, Dst,    \* Src[m] sends request m to Dst[m], a node or Broadcast
  Oversize,    \* requests whose serialized form exceeds 65535 bytes
  NoMsg,       \* no request
  Prompt,      \* TRUE: an io thread handles what it has before the slot ends
  MaxSends, MaxBeats, MaxFaults

ASSUME NodeAssumption ==
  /\ MaxNodes \in Nat \ {0}
  /\ Node \subseteq 1..MaxNodes
  /\ Broadcast \notin Node

ASSUME NumberAssumption ==
  /\ MaxSeq \in Nat \ {0}
  /\ MaxRetries \in Nat
  /\ AckTimeout \in Nat \ {0}
  /\ MaxSends \in Nat /\ MaxBeats \in Nat /\ MaxFaults \in Nat

ASSUME PromptAssumption == Prompt \in BOOLEAN

ASSUME MsgAssumption ==
  /\ NoMsg \notin Msg
  /\ Src \in [Msg -> Node]
  /\ Dst \in [Msg -> Node \cup {Broadcast}]
  /\ Oversize \subseteq Msg

VARIABLES
  slot,       \* number of the current slot modulo MaxNodes
  phase,      \* slot monitor: "idle", or what on_my_slot still has to send
  mode,       \* m_running: "running", "stopping" (stop() joins), "stopped"
  nextSeq,    \* m_next_seq
  sendQueue,  \* m_send_queue
  ackQueue,   \* m_ack_queue
  pending,    \* m_pending_acks: sequence number -> entry or NoEntry
  lastSeq,    \* m_last_received_seq: source -> number, NoSeq when absent
  sending,    \* request the io thread is inside send_http_reliable with
  rx,         \* bytes that arrived on a node's serial port, as frames
  submitted, calls, delivered,  \* history, see ReliableSend
  seqOf,      \* history: the sequence number a request was given
  sent, beats, faults           \* counters for the bounds

linkVars == <<slot, phase, mode, nextSeq, sendQueue, ackQueue, pending,
              lastSeq, sending, rx>>
histVars == <<submitted, calls, delivered, seqOf, sent, beats, faults>>
vars == <<linkVars, histVars>>

NoSeq == -1
Seqs == 1..MaxSeq
Frame == [type : {"DATA", "ACK", "HBT"}, src : Node, dst : Node \cup {Broadcast},
          seq : 0..MaxSeq, msg : Msg \cup {NoMsg}]
NoEntry == [msg |-> NoMsg, retries |-> 0, age |-> 0]
Entry == [msg : Msg \cup {NoMsg}, retries : 0..MaxRetries, age : 0..AckTimeout]

DataFrame(m, s) ==
  [type |-> "DATA", src |-> Src[m], dst |-> Dst[m], seq |-> s, msg |-> m]
AckFrame(n, f) ==
  [type |-> "ACK", src |-> n, dst |-> f.src, seq |-> f.seq, msg |-> NoMsg]
HeartbeatFrame(n) ==
  [type |-> "HBT", src |-> n, dst |-> Broadcast, seq |-> 0, msg |-> NoMsg]

Init ==
  /\ slot = 0
  /\ phase = [n \in Node |-> "idle"]
  /\ mode = [n \in Node |-> "running"]
  /\ nextSeq = [n \in Node |-> 1]
  /\ sendQueue = [n \in Node |-> <<>>]
  /\ ackQueue = [n \in Node |-> <<>>]
  /\ pending = [n \in Node |-> [s \in Seqs |-> NoEntry]]
  /\ lastSeq = [n \in Node |-> [o \in Node |-> NoSeq]]
  /\ sending = [n \in Node |-> NoMsg]
  /\ rx = [n \in Node |-> <<>>]
  /\ submitted = {}
  /\ calls = [m \in Msg |-> <<>>]
  /\ delivered = [m \in Msg |-> [n \in Node |-> 0]]
  /\ seqOf = [m \in Msg |-> 0]
  /\ sent = [n \in Node |-> 0]
  /\ beats = [n \in Node |-> 0]
  /\ faults = 0

\* The numbers a node waits for an ACK of.
Outstanding(n) == {s \in Seqs : pending[n][s].msg # NoMsg}

-----------------------------------------------------------------------------
(* The io thread: send_http_reliable *)

\* Mutants: the number 0 is not skipped; the number is never advanced.
SeqAfterWithZero(s) == (s + 1) % (MaxSeq + 1)
SeqAfterStuck(s) == s

\* m_next_seq++ on a uint8_t, skipping 0.
SeqAfter(s) == IF s = MaxSeq THEN 1 ELSE s + 1

\* Not running, or too large: the callback gets false and nothing is queued.
Refuse(m) ==
  /\ m \notin submitted
  /\ sending[Src[m]] = NoMsg
  /\ mode[Src[m]] # "running" \/ m \in Oversize
  /\ submitted' = submitted \cup {m}
  /\ calls' = [calls EXCEPT ![m] = Append(@, "failed")]
  /\ UNCHANGED <<linkVars, delivered, seqOf, sent, beats, faults>>

\* A number is taken and the frame pushed under m_send_mutex.
Enqueue(m) ==
  LET n == Src[m] IN
  /\ m \notin submitted \cup Oversize
  /\ mode[n] = "running"
  /\ sending[n] = NoMsg
  /\ sent[n] < MaxSends
  /\ sending' = [sending EXCEPT ![n] = m]
  /\ nextSeq' = [nextSeq EXCEPT ![n] = SeqAfter(@)]
  /\ sendQueue' = [sendQueue EXCEPT ![n] = Append(@, DataFrame(m, nextSeq[n]))]
  /\ seqOf' = [seqOf EXCEPT ![m] = nextSeq[n]]
  /\ sent' = [sent EXCEPT ![n] = @ + 1]
  /\ submitted' = submitted \cup {m}
  /\ UNCHANGED <<slot, phase, mode, ackQueue, pending, lastSeq, rx, calls,
                 delivered, beats, faults>>

\* Mutant: the entry is keyed by m_next_seq, which has moved on.
EmplaceUnderNext(p, m, s) ==
  [p EXCEPT ![SeqAfter(s)] = [msg |-> m, retries |-> 0, age |-> 0]]

\* emplace keeps the entry that already has this number, if there is one.
EmplacePending(p, m, s) ==
  IF p[s].msg = NoMsg
  THEN [p EXCEPT ![s] = [msg |-> m, retries |-> 0, age |-> 0]]
  ELSE p

\* Then, under m_pending_mutex, a unicast frame is entered in m_pending_acks;
\* a broadcast reports success at once.
Track(n) ==
  LET m == sending[n] IN
  /\ m # NoMsg
  /\ sending' = [sending EXCEPT ![n] = NoMsg]
  /\ IF Dst[m] # Broadcast
     THEN /\ pending' = [pending EXCEPT ![n] = EmplacePending(@, m, seqOf[m])]
          /\ calls' = calls
     ELSE /\ calls' = [calls EXCEPT ![m] = Append(@, "ok")]
          /\ pending' = pending
  /\ UNCHANGED <<slot, phase, mode, nextSeq, sendQueue, ackQueue, lastSeq, rx,
                 submitted, delivered, seqOf, sent, beats, faults>>

-----------------------------------------------------------------------------
(* The slot monitor: SimpleTimeSlotManager::monitor_thread and on_my_slot *)

is_my_slot(n, s) == s % MaxNodes = (n - 1) % MaxNodes

\* Frames waiting for an ACK grow older by one slot.
Older(p) == [s \in Seqs |->
  IF p[s].msg = NoMsg \/ p[s].age = AckTimeout
  THEN p[s] ELSE [p[s] EXCEPT !.age = @ + 1]]

\* A slot boundary.  The monitor of the slot's owner calls on_my_slot, unless
\* it woke up after the transmission window (a fault).  The drain of one slot
\* is over before the next one begins.
Tick ==
  LET now == (slot + 1) % MaxNodes
      owners == {n \in Node : is_my_slot(n, now) /\ mode[n] = "running"} IN
  /\ \A n \in Node : phase[n] = "idle"
  /\ Prompt => \A n \in Node : sending[n] = NoMsg /\ (rx[n] = <<>> \/ mode[n] # "running")
  /\ slot' = now
  /\ pending' = [n \in Node |-> Older(pending[n])]
  /\ \/ /\ phase' = [n \in Node |-> IF n \in owners THEN "data" ELSE "idle"]
        /\ UNCHANGED faults
     \/ /\ owners # {} /\ faults < MaxFaults
        /\ faults' = faults + 1
        /\ UNCHANGED phase
  /\ UNCHANGED <<mode, nextSeq, sendQueue, ackQueue, lastSeq, sending, rx,
                 submitted, calls, delivered, seqOf, sent, beats>>

\* Everything n writes reaches the serial port of every other node.
Broadcasted(n, q) == [d \in Node |-> IF d = n THEN rx[d] ELSE rx[d] \o q]

\* on_my_slot, first block: m_send_queue is drained under m_send_mutex.
TransmitData(n) ==
  /\ phase[n] = "data"
  /\ phase' = [phase EXCEPT ![n] = "ack"]
  /\ rx' = Broadcasted(n, sendQueue[n])
  /\ sendQueue' = [sendQueue EXCEPT ![n] = <<>>]
  /\ UNCHANGED <<slot, mode, nextSeq, ackQueue, pending, lastSeq, sending,
                 histVars>>

\* on_my_slot, second block: m_ack_queue is drained under m_ack_mutex.
TransmitAcks(n) ==
  /\ phase[n] = "ack"
  /\ phase' = [phase EXCEPT ![n] = "idle"]
  /\ rx' = Broadcasted(n, ackQueue[n])
  /\ ackQueue' = [ackQueue EXCEPT ![n] = <<>>]
  /\ UNCHANGED <<slot, mode, nextSeq, sendQueue, pending, lastSeq, sending,
                 histVars>>

\* send_frame_immediately swallows a failed serial write; the frame is popped.
Without(q) == {RemoveAt(q, i) : i \in DOMAIN q}

WriteFails(n) ==
  /\ faults < MaxFaults
  /\ faults' = faults + 1
  /\ \/ /\ phase[n] = "data"
        /\ \E q \in Without(sendQueue[n]) : sendQueue' = [sendQueue EXCEPT ![n] = q]
        /\ UNCHANGED ackQueue
     \/ /\ phase[n] = "ack"
        /\ \E q \in Without(ackQueue[n]) : ackQueue' = [ackQueue EXCEPT ![n] = q]
        /\ UNCHANGED sendQueue
  /\ UNCHANGED <<slot, phase, mode, nextSeq, pending, lastSeq, sending, rx,
                 submitted, calls, delivered, seqOf, sent, beats>>

-----------------------------------------------------------------------------
(* The io thread: handle_read and handle_received_frame *)

\* The io thread is free and a line has been read: the next frame is taken.
TakeFrame(n) ==
  /\ mode[n] = "running"
  /\ sending[n] = NoMsg
  /\ rx[n] # <<>>
  /\ rx' = [rx EXCEPT ![n] = Tail(@)]
  /\ UNCHANGED <<slot, phase, mode, nextSeq, sendQueue, sending, seqOf, sent,
                 beats, submitted>>

ForMe(n, f) == f.dst \in {n, Broadcast}

\* FrameCodec::decode rejects a corrupted line, or the frame is for another.
IgnoreFrame(n) ==
  /\ TakeFrame(n)
  /\ \/ ~ForMe(n, Head(rx[n])) /\ UNCHANGED faults
     \/ faults < MaxFaults /\ faults' = faults + 1
  /\ UNCHANGED <<ackQueue, pending, lastSeq, calls, delivered>>

\* Mutant: an acknowledged entry is not erased.
EraseNothing(p, s) == p

\* m_pending_acks.erase(it)
Erase(p, s) == [p EXCEPT ![s] = NoEntry]

\* An ACK is matched by its number alone; the entry's callback gets true.
ReceiveAck(n) ==
  LET f == Head(rx[n]) IN
  /\ TakeFrame(n)
  /\ ForMe(n, f)
  /\ f.type = "ACK"
  /\ IF f.seq \in Outstanding(n)
     THEN /\ calls' = [calls EXCEPT ![pending[n][f.seq].msg] = Append(@, "ok")]
          /\ pending' = [pending EXCEPT ![n] = Erase(@, f.seq)]
     ELSE UNCHANGED <<calls, pending>>
  /\ UNCHANGED <<ackQueue, lastSeq, delivered, faults>>

\* The number of the last frame from this source again: dropped, no ACK.
IsDuplicate(n, f) == lastSeq[n][f.src] = f.seq

ReceiveDuplicate(n) ==
  LET f == Head(rx[n]) IN
  /\ TakeFrame(n)
  /\ ForMe(n, f)
  /\ f.type # "ACK"
  /\ IsDuplicate(n, f)
  /\ UNCHANGED <<ackQueue, pending, lastSeq, calls, delivered, faults>>

\* A new frame: its number is remembered, unicast data is acknowledged, and
\* data goes to InterfaceRouter::handle.
ReceiveNew(n) ==
  LET f == Head(rx[n]) IN
  /\ TakeFrame(n)
  /\ ForMe(n, f)
  /\ f.type # "ACK"
  /\ ~IsDuplicate(n, f)
  /\ lastSeq' = [lastSeq EXCEPT ![n][f.src] = f.seq]
  /\ ackQueue' = IF f.dst # Broadcast /\ f.type # "HBT"
                 THEN [ackQueue EXCEPT ![n] = Append(@, AckFrame(n, f))]
                 ELSE ackQueue
  /\ delivered' = IF f.type = "DATA"
                  THEN [delivered EXCEPT ![f.msg][n] = @ + 1]
                  ELSE delivered
  /\ UNCHANGED <<pending, calls, faults>>

-----------------------------------------------------------------------------
(* The timeout and heartbeat threads, and stop() *)

Expired(n) == {s \in Outstanding(n) : pending[n][s].age = AckTimeout}

\* The requests behind a set of entries.
Requests(n, E) == {pending[n][s].msg : s \in E}

\* Mutant: the entry is dropped and its callback is not called.
FailSilently(lost) == calls

\* callback(false) for every request of a set.
FailCalls(lost) ==
  [m \in Msg |-> IF m \in lost THEN Append(calls[m], "failed") ELSE calls[m]]

\* Mutant: one retransmission too many.
CanRetryOnceMore(n, s) == pending[n][s].retries <= MaxRetries

\* An entry with retries left: retry_count++, send_time = now.
CanRetry(n, s) == pending[n][s].retries < MaxRetries
Retried(e) == [msg |-> e.msg, retries |-> e.retries + 1, age |-> 0]

\* One pass over m_pending_acks that finds the entries E expired: an entry
\* with retries left is pushed again, any other is failed and erased, in the
\* order q in which unordered_map visits them.
TimeoutPass(n, E, q) ==
  /\ sendQueue' = [sendQueue EXCEPT ![n] =
       @ \o [i \in DOMAIN q |-> DataFrame(pending[n][q[i]].msg, q[i])]]
  /\ pending' = [pending EXCEPT ![n] = [s \in Seqs |->
       IF s \notin E THEN @[s] ELSE IF CanRetry(n, s) THEN Retried(@[s]) ELSE NoEntry]]
  /\ calls' = FailCalls(Requests(n, {s \in E : ~CanRetry(n, s)}))

\* During the last slot of its timeout an entry may or may not be expired yet.
check_timeouts(n) ==
  /\ mode[n] \in {"running", "stopping"}
  /\ \E E \in SUBSET Expired(n) :
       /\ E # {}
       /\ \E q \in SetToSeqs({s \in E : CanRetry(n, s)}) : TimeoutPass(n, E, q)
  /\ UNCHANGED <<slot, phase, mode, nextSeq, ackQueue, lastSeq, sending, rx,
                 submitted, delivered, seqOf, sent, beats, faults>>

\* heartbeat_worker: a broadcast with sequence number 0.  Like the timeout
\* thread it may have tested m_running just before stop() cleared it.
Heartbeat(n) ==
  /\ mode[n] \in {"running", "stopping"}
  /\ beats[n] < MaxBeats
  /\ beats' = [beats EXCEPT ![n] = @ + 1]
  /\ sendQueue' = [sendQueue EXCEPT ![n] = Append(@, HeartbeatFrame(n))]
  /\ UNCHANGED <<slot, phase, mode, nextSeq, ackQueue, pending, lastSeq,
                 sending, rx, submitted, calls, delivered, seqOf, sent, faults>>

\* stop(): m_running is cleared; a drain that has begun goes on ...
StopBegin(n) ==
  /\ mode[n] = "running"
  /\ sending[n] = NoMsg
  /\ mode' = [mode EXCEPT ![n] = "stopping"]
  /\ UNCHANGED <<slot, phase, nextSeq, sendQueue, ackQueue, pending, lastSeq,
                 sending, rx, histVars>>

\* ... and once the other threads are joined, every entry left is failed.
StopEnd(n) ==
  /\ mode[n] = "stopping"
  /\ phase[n] = "idle"
  /\ mode' = [mode EXCEPT ![n] = "stopped"]
  /\ calls' = FailCalls(Requests(n, Outstanding(n)))
  /\ pending' = [pending EXCEPT ![n] = [s \in Seqs |-> NoEntry]]
  /\ UNCHANGED <<slot, phase, nextSeq, sendQueue, ackQueue, lastSeq, sending,
                 rx, submitted, delivered, seqOf, sent, beats, faults>>

Receive(n) == IgnoreFrame(n) \/ ReceiveAck(n) \/ ReceiveDuplicate(n) \/ ReceiveNew(n)

Next ==
  \/ Tick
  \/ \E m \in Msg : Refuse(m) \/ Enqueue(m)
  \/ \E n \in Node : \/ Track(n) \/ TransmitData(n) \/ TransmitAcks(n)
                     \/ WriteFails(n) \/ Receive(n) \/ check_timeouts(n)
                     \/ Heartbeat(n) \/ StopBegin(n) \/ StopEnd(n)

Spec == Init /\ [][Next]_vars

\* The threads keep running and the clock advances.  Requests, heartbeats,
\* faults and stop() are choices of the environment and get no fairness.
Fairness ==
  /\ WF_vars(Tick)
  /\ \A n \in Node : /\ WF_vars(Track(n))
                     /\ WF_vars(TransmitData(n)) /\ WF_vars(TransmitAcks(n))
                     /\ WF_vars(Receive(n)) /\ WF_vars(check_timeouts(n))
                     /\ WF_vars(StopEnd(n))

FairSpec == Spec /\ Fairness

-----------------------------------------------------------------------------
(* Properties *)

\* Every variable keeps its type.
TypeOK ==
  /\ slot \in 0..(MaxNodes - 1)
  /\ phase \in [Node -> {"idle", "data", "ack"}]
  /\ mode \in [Node -> {"running", "stopping", "stopped"}]
  /\ nextSeq \in [Node -> Seqs]
  /\ sendQueue \in [Node -> Seq(Frame)]
  /\ ackQueue \in [Node -> Seq(Frame)]
  /\ pending \in [Node -> [Seqs -> Entry]]
  /\ lastSeq \in [Node -> [Node -> (0..MaxSeq) \cup {NoSeq}]]
  /\ sending \in [Node -> Msg \cup {NoMsg}]
  /\ rx \in [Node -> Seq(Frame)]
  /\ submitted \in SUBSET Msg
  /\ calls \in [Msg -> Seq({"ok", "failed"})]
  /\ delivered \in [Msg -> [Node -> Nat]]
  /\ seqOf \in [Msg -> 0..MaxSeq]
  /\ sent \in [Node -> Nat]
  /\ beats \in [Node -> Nat]
  /\ faults \in Nat

Unicast == {m \in Msg : Dst[m] # Broadcast}

\* A request's callback is called at most once, whichever of the ACK, the last
\* timeout, shutdown and the early refusals of send_http_reliable comes first.
CallbackOnce == \A m \in Msg : Len(calls[m]) <= 1

\* callback(true) for a unicast request is never early: the destination's
\* router has been given the request, although an ACK carries a number only.
SuccessMeansDelivered ==
  \A m \in Unicast : calls[m] = <<"ok">> => delivered[m][Dst[m]] > 0

\* A receiver's router sees a request at most once per transmission: the first
\* and MAX_RETRIES retransmissions, counting the ones still under way.
BoundedDuplication ==
  \A m \in Msg, n \in Node : delivered[m][n] <= 1 + MaxRetries

\* What CallbackOnce rests on: a request is in one place at a time, inside
\* send_http_reliable or in m_pending_acks under its own number, and in either
\* place its callback has not been called.
PendingOwed ==
  \A n \in Node : \A s \in Outstanding(n) :
    LET m == pending[n][s].msg IN
    /\ m \in submitted \cap Unicast
    /\ Src[m] = n /\ seqOf[m] = s
    /\ calls[m] = <<>> /\ sending[n] # m
SendingOwed ==
  \A n \in Node :
    LET m == sending[n] IN
    m # NoMsg => /\ m \in submitted /\ Src[m] = n
                 /\ seqOf[m] \in Seqs /\ calls[m] = <<>>
FreshUncalled ==
  \A m \in Msg : m \notin submitted => calls[m] = <<>> /\ seqOf[m] = 0
OwedInv == PendingOwed /\ SendingOwed /\ FreshUncalled

\* What SuccessMeansDelivered rests on, as long as numbers do not wrap: each
\* number of a node stands for one request ...
SeqInv ==
  /\ \A n \in Node : sent[n] <= MaxSends /\ (sent[n] < MaxSeq => nextSeq[n] = sent[n] + 1)
  /\ \A m \in Msg : seqOf[m] <= sent[Src[m]]
  /\ \A m1, m2 \in Msg :
       Src[m1] = Src[m2] /\ seqOf[m1] = seqOf[m2] /\ seqOf[m1] # 0 => m1 = m2

\* ... data frames carry the number of their request, and an ACK exists only
\* for a request that its sender has delivered.
SoundAck(f) ==
  \E m \in submitted \cap Unicast :
    /\ Src[m] = f.dst /\ Dst[m] = f.src /\ seqOf[m] = f.seq
    /\ delivered[m][Dst[m]] > 0
SoundFrame(f) ==
  /\ f.type = "DATA" => f.msg \in submitted /\ f = DataFrame(f.msg, seqOf[f.msg])
  /\ f.type = "ACK" => SoundAck(f)

FrameInv ==
  \A n \in Node : /\ \A f \in Range(sendQueue[n]) : SoundFrame(f)
                  /\ \A f \in Range(ackQueue[n]) : SoundFrame(f)
                  /\ \A f \in Range(rx[n]) : SoundFrame(f)

\* A unicast request whose callback is still owed is being entered into or is
\* held by m_pending_acks, so a timeout or an ACK can still find it.
OwedIsTracked ==
  \A m \in submitted \cap Unicast :
    calls[m] = <<>> =>
      \/ sending[Src[m]] = m
      \/ \E s \in Seqs : pending[Src[m]][s].msg = m

\* What the promise and the callbacks rest on (UwbHandle.cpp:78-120, 196-269,
\* 316-356): every request that is owed a callback is tracked, exactly once and
\* under a number of its own, and no ACK is under way for a request that was not
\* delivered.
LinkInv == OwedInv /\ SeqInv /\ FrameInv /\ OwedIsTracked

\* The link implements the promise of send_http_reliable.
Promise == INSTANCE ReliableSend
PromiseSpec == Promise!Spec

\* Every request that was submitted has its callback called in the end.
EveryRequestResolved ==
  \A m \in Msg : m \in submitted ~> calls[m] # <<>>

-----------------------------------------------------------------------------
(* What the comments say, checked by runs that expect a violation *)

\* UwbHandle.hpp: "receive de-duplication" -- a request reaches a router once.
AtMostOnceDelivery == \A m \in Msg, n \in Node : delivered[m][n] <= 1

\* UwbHandle.hpp: "reliable send (waits for the ACK)" -- a request with more
\* transmissions than there were faults does not end in callback(false).
RetriesRepairFaults ==
  \A m \in Unicast \ Oversize :
    calls[m] = <<"failed">> /\ mode[Src[m]] = "running" => faults > MaxRetries
=============================================================================
