------------------------------ MODULE TcpLink ------------------------------
(***************************************************************************)
(* The connection of a master to one neighbour                             *)
(* (src/src/Master/src/tcp/TcpHostInterface.cpp, interface/HostInterface). *)
(*                                                                         *)
(* One stream is connected and written by asynchronous operations, one     *)
(* timer guards both, another one starts a new attempt every 60 seconds.   *)
(* All handlers run on the thread of the io_context, in any order in which *)
(* they become ready.  An operation is "pending" in the system until it    *)
(* completes; then its handler waits with the result "ok" or "err".  A     *)
(* timer that is cancelled or set again after it has expired still has its *)
(* handler called with success.                                            *)
(*                                                                         *)
(* broadcast sends to the neighbour over this connection unless the link   *)
(* counts as failed and there is a detour.                                 *)
(*                                                                         *)
(* Bounds: MaxSends requests of other parts, MaxConns successful connects, *)
(* MaxFired handlers of the timer that wait at a time.                     *)
(***************************************************************************)
EXTENDS Naturals, Sequences

CONSTANTS MaxSends, MaxConns, MaxFired

ASSUME TcpAssumption ==
  /\ MaxSends \in Nat /\ MaxConns \in Nat /\ MaxFired \in Nat \ {0}

Kind == {"list", "data"}
None == "none"
MaxFails == 5

VARIABLES
  isConnected, isConnecting, isReady,
  requestQueue,  \* m_requestQueue
  request,       \* the request that is being written, or None
  connectOp,     \* async_connect
  writeOp,       \* async_write; "between": a part is written, the next not begun
  armed,         \* m_timer runs
  fired,         \* number of onTimeout handlers without error that wait
  fail_times,
  maxWeight,     \* the link has the weight of a failed link
  detour,        \* there is another way to the neighbour
  lost,          \* a request was lost since a list was last written
  sends, conns

flags == <<isConnected, isConnecting, isReady>>
vars == <<flags, requestQueue, request, connectOp, writeOp, armed, fired,
          fail_times, maxWeight, detour, lost, sends, conns>>

\* run: the first attempt to connect.
Init ==
  /\ isConnected = FALSE /\ isConnecting = TRUE /\ isReady = TRUE
  /\ requestQueue = <<>> /\ request = None
  /\ connectOp = "pending" /\ writeOp = "none"
  /\ armed = TRUE /\ fired = 0
  /\ fail_times = 0 /\ maxWeight = FALSE
  /\ detour \in BOOLEAN
  /\ lost = FALSE
  /\ sends = 0 /\ conns = 0

\* route: the neighbour is reached over this connection.
ViaHere(max) == ~(max /\ detour)

-----------------------------------------------------------------------------
(* Steps that handlers have in common *)

doConnect ==
  IF isConnecting
  THEN UNCHANGED <<isConnected, isConnecting, connectOp, armed>>
  ELSE /\ isConnected' = FALSE
       /\ isConnecting' = TRUE
       /\ connectOp' = "pending"
       /\ armed' = TRUE

\* Mutant: the next write is begun without a look at isReady.
WriteAtOnce(queue, ready, timer) ==
  IF queue # <<>>
  THEN /\ isReady' = FALSE
       /\ request' = Head(queue)
       /\ requestQueue' = Tail(queue)
       /\ writeOp' = "pending"
       /\ armed' = TRUE
  ELSE /\ isReady' = ready
       /\ requestQueue' = queue
       /\ armed' = timer
       /\ UNCHANGED <<request, writeOp>>

\* doWrite of a connected stream: takes the next request if no write is under way.
doWrite(queue, ready, timer) ==
  IF ready /\ queue # <<>>
  THEN /\ isReady' = FALSE
       /\ request' = Head(queue)
       /\ requestQueue' = Tail(queue)
       /\ writeOp' = "pending"
       /\ armed' = TRUE
  ELSE /\ isReady' = ready
       /\ requestQueue' = queue
       /\ armed' = timer
       /\ request' = IF ready THEN None ELSE request
       /\ writeOp' = IF ready THEN "none" ELSE writeOp

\* Mutant: cancel has no effect.
NotAborted(op) == op

\* m_stream->cancel and close end what is pending.
Aborted(op) == IF op = "pending" THEN "err" ELSE op

\* Mutant: onFail goes on counting.
CountedOn == fail_times + 1

\* onFail counts to six and reports the link as failed at the sixth.
Counted == IF fail_times > MaxFails THEN fail_times ELSE fail_times + 1
Reports == fail_times = MaxFails

-----------------------------------------------------------------------------
(* Operations and handlers *)

send(k) ==
  /\ sends < MaxSends
  /\ ViaHere(maxWeight)
  /\ sends' = sends + 1
  /\ \/ /\ ~isConnected
        /\ requestQueue' = Append(requestQueue, k)
        /\ doConnect
        /\ UNCHANGED <<isReady, request, writeOp>>
     \/ /\ isConnected
        /\ doWrite(Append(requestQueue, k), isReady, armed)
        /\ UNCHANGED <<isConnected, isConnecting, connectOp>>
  /\ UNCHANGED <<fired, fail_times, maxWeight, detour, lost, conns>>

\* Mutant: the count of failures is kept.
KeepCount == fail_times

\* fail_times after onNew.
FreshCount == 0

\* Mutant: a new connection only announces the weight of the link.
WeightOnly == <<"data">>

\* What onNew broadcasts: the list, over the old route, then the weight, over
\* the new one.
Announced == IF ViaHere(maxWeight) THEN <<"list", "data">> ELSE <<"data">>

onConnectOk ==
  /\ connectOp = "ok"
  /\ connectOp' = "none"
  /\ isConnecting' = FALSE
  /\ isConnected' = TRUE
  /\ doWrite(requestQueue \o Announced, isReady, FALSE)
  /\ maxWeight' = FALSE
  /\ fail_times' = FreshCount
  /\ UNCHANGED <<fired, detour, lost, sends, conns>>

\* The broadcast of the sixth failure finds the stream not connected and begins
\* to connect, and the close that follows ends this attempt.
onConnectErr ==
  LET again == Reports /\ ViaHere(TRUE) IN
  /\ connectOp = "err"
  /\ fail_times' = Counted
  /\ maxWeight' = (maxWeight \/ Reports)
  /\ requestQueue' = IF again THEN Append(requestQueue, "data") ELSE requestQueue
  /\ isConnecting' = again
  /\ connectOp' = IF again THEN "err" ELSE "none"
  /\ armed' = again
  /\ writeOp' = Aborted(writeOp)
  /\ UNCHANGED <<isConnected, isReady, request, fired, detour, lost, sends, conns>>

onWriteOk ==
  /\ writeOp = "ok"
  /\ doWrite(requestQueue, TRUE, FALSE)
  /\ lost' = (lost /\ request # "list")
  /\ UNCHANGED <<isConnected, isConnecting, connectOp, fired, fail_times,
                 maxWeight, detour, sends, conns>>

\* The request is not put back.  If this were the sixth failure, the broadcast
\* would begin a write on the broken stream, which the close that follows ends.
onWriteErr ==
  LET again == Reports /\ ViaHere(TRUE)
      queue == Append(requestQueue, "data") IN
  /\ writeOp = "err"
  /\ fail_times' = Counted
  /\ maxWeight' = (maxWeight \/ Reports)
  /\ isReady' = ~again
  /\ request' = IF again THEN Head(queue) ELSE None
  /\ requestQueue' = IF again THEN Tail(queue) ELSE requestQueue
  /\ writeOp' = IF again THEN "err" ELSE "none"
  /\ IF isConnecting
     THEN /\ connectOp' = Aborted(connectOp)
          /\ armed' = again
          /\ UNCHANGED <<isConnected, isConnecting>>
     ELSE doConnect
  /\ lost' = TRUE
  /\ UNCHANGED <<fired, detour, sends, conns>>

onTimeout ==
  /\ fired > 0
  /\ fired' = fired - 1
  /\ connectOp' = Aborted(connectOp)
  /\ writeOp' = Aborted(writeOp)
  /\ UNCHANGED <<flags, requestQueue, request, armed, fail_times, maxWeight,
                 detour, lost, sends, conns>>

\* Every 60 seconds; without effect on a stream that is connected.
onReconnectTimeout ==
  /\ ~isConnected
  /\ doConnect
  /\ UNCHANGED <<isReady, requestQueue, request, writeOp, fired, fail_times,
                 maxWeight, detour, lost, sends, conns>>

\* A /weight request of another host about this link.
Weight(max) ==
  /\ maxWeight' = max
  /\ UNCHANGED <<flags, requestQueue, request, connectOp, writeOp, armed, fired,
                 fail_times, detour, lost, sends, conns>>

-----------------------------------------------------------------------------
(* The system beneath: sockets and timers *)

ConnectEnds(result) ==
  /\ connectOp = "pending"
  /\ connectOp' = result
  /\ \/ result = "err" /\ UNCHANGED conns
     \/ result = "ok" /\ conns < MaxConns /\ conns' = conns + 1
  /\ UNCHANGED <<flags, requestQueue, request, writeOp, armed, fired, fail_times,
                 maxWeight, detour, lost, sends>>

\* async_write writes a request in parts; between two of them there is nothing
\* that a cancel could end.
WriteEnds(result) ==
  /\ writeOp = "pending"
  /\ writeOp' = result
  /\ UNCHANGED <<flags, requestQueue, request, connectOp, armed, fired, fail_times,
                 maxWeight, detour, lost, sends, conns>>

WritePart ==
  /\ \/ writeOp = "pending" /\ writeOp' = "between"
     \/ writeOp = "between" /\ writeOp' = "pending"
  /\ UNCHANGED <<flags, requestQueue, request, connectOp, armed, fired, fail_times,
                 maxWeight, detour, lost, sends, conns>>

TimerExpires ==
  /\ armed
  /\ fired < MaxFired
  /\ armed' = FALSE
  /\ fired' = fired + 1
  /\ UNCHANGED <<flags, requestQueue, request, connectOp, writeOp, fail_times,
                 maxWeight, detour, lost, sends, conns>>

Handler ==
  \/ onConnectOk \/ onConnectErr
  \/ onWriteOk \/ onWriteErr
  \/ onTimeout

Next ==
  \/ \E k \in Kind : send(k)
  \/ \E max \in BOOLEAN : Weight(max)
  \/ Handler
  \/ onReconnectTimeout
  \/ \E result \in {"ok", "err"} : ConnectEnds(result) \/ WriteEnds(result)
  \/ WritePart
  \/ TimerExpires

Spec == Init /\ [][Next]_vars

\* The io_context runs every handler that is ready, and timers expire.  The
\* peer may leave an attempt to connect unanswered; a write that has begun is
\* completed or given up by TCP.
Fairness ==
  /\ WF_vars(onConnectOk) /\ WF_vars(onConnectErr)
  /\ WF_vars(onWriteOk) /\ WF_vars(onWriteErr)
  /\ WF_vars(onTimeout)
  /\ WF_vars(onReconnectTimeout)
  /\ WF_vars(TimerExpires)
  /\ SF_vars(\E result \in {"ok", "err"} : WriteEnds(result))
  /\ WF_vars(writeOp = "between" /\ WritePart)

FairSpec == Spec /\ Fairness

-----------------------------------------------------------------------------
(* Properties *)

\* Types of the state of a TcpHostInterface.
TypeOK ==
  /\ isConnected \in BOOLEAN /\ isConnecting \in BOOLEAN /\ isReady \in BOOLEAN
  /\ requestQueue \in Seq(Kind)
  /\ request \in Kind \cup {None}
  /\ connectOp \in {"none", "pending", "ok", "err"}
  /\ writeOp \in {"none", "pending", "between", "ok", "err"}
  /\ armed \in BOOLEAN /\ fired \in 0..MaxFired
  /\ fail_times \in 0..(MaxFails + 1)
  /\ maxWeight \in BOOLEAN /\ detour \in BOOLEAN /\ lost \in BOOLEAN
  /\ sends \in 0..MaxSends /\ conns \in 0..MaxConns

\* The stream, the member request and the timer serve one operation at a time:
\* the flags say which one is under way, and nothing connects a stream that is
\* being written.
OneOperation ==
  /\ isConnecting <=> connectOp # "none"
  /\ isReady <=> writeOp = "none"
  /\ isReady <=> request = None
  /\ ~(isConnecting /\ isConnected)
  /\ writeOp # "none" => isConnected

\* A connected stream has no failures behind it, so the sixth failure is always
\* one of connecting: the broadcast in onFail never writes to a broken stream.
FreshFailures == isConnected => fail_times = 0

\* No attempt to connect is without a timer that ends it, although writes use
\* the same timer and cancel it.
TimedConnect == connectOp = "pending" => (armed \/ fired > 0)

\* The three need each other: doConnect is only called on a stream that is not
\* connected or whose write has just failed, and then the failure is the first
\* (TcpHostInterface.cpp:22-98, HostInterface.cpp:29-39).
LinkInv == OneOperation /\ FreshFailures /\ TimedConnect

HasList(queue) == \E i \in 1..Len(queue) : queue[i] = "list"

\* onWrite drops the request that failed.  Whenever the stream is connected
\* again, a list that is newer than the request is on its way (unless it took
\* the detour): the neighbour's copy is repaired.
LossIsRepaired ==
  (isConnected /\ lost /\ ~detour) => (request = "list" \/ HasList(requestQueue))

Abstract == INSTANCE HostLink WITH
  up <- isConnected,
  pending <- (IF isReady THEN <<>> ELSE <<request>>) \o requestQueue

\* Requests are written in order and at most once, and only the first is lost.
LinkSpec == Abstract!Spec

\* An attempt to connect ends also when the network says nothing.
ConnectReturns == isConnecting ~> ~isConnecting

\* The connection is not given up: it is tried again for ever ("and will
\* reconnect next time", the log of onConnect).
KeepsTrying == []<>(isConnected \/ isConnecting)

\* What is queued does not stay while the connection lasts.
QueueMoves == (requestQueue # <<>>) ~> (requestQueue = <<>> \/ ~isConnected)

\* The link never hangs: attempts end, are made again, and requests are written
\* while the connection lasts (TcpHostInterface.cpp:22-98).
NeverHangs == ConnectReturns /\ KeepsTrying /\ QueueMoves
=============================================================================
