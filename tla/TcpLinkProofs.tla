---------------------------- MODULE TcpLinkProofs ----------------------------
(***************************************************************************)
(* What holds of TcpLink for any number of requests and connections.       *)
(***************************************************************************)
EXTENDS TcpLink, TLAPS

USE DEF MaxFails

LEMMA QueueType ==
  ASSUME NEW q \in Seq(Kind)
  PROVE  /\ \A k \in Kind : Append(q, k) \in Seq(Kind) /\ Append(q, k) # <<>>
         /\ q # <<>> => (Head(q) \in Kind /\ Tail(q) \in Seq(Kind))
<1>1. ASSUME NEW k \in Kind PROVE Append(q, k) \in Seq(Kind) /\ Append(q, k) # <<>>
  <2>1. Append(q, k) \in Seq(Kind)
    OBVIOUS
  <2>2. Len(Append(q, k)) = Len(q) + 1 /\ Len(q) \in Nat
    OBVIOUS
  <2> QED
    BY <2>1, <2>2
<1>2. q # <<>> => (Head(q) \in Kind /\ Tail(q) \in Seq(Kind))
  OBVIOUS
<1> QED
  BY <1>1, <1>2

\* What a new connection sends is one or two requests.
LEMMA AnnouncedType == /\ Announced \in Seq(Kind)
                       /\ \/ Announced = <<"list", "data">>
                          \/ detour /\ Announced = <<"data">>
<1>1. <<"list", "data">> \in Seq(Kind) /\ <<"data">> \in Seq(Kind)
  BY DEF Kind
<1> QED
  BY <1>1 DEF Announced, ViaHere

LEMMA AnnouncedQueue ==
  ASSUME NEW q \in Seq(Kind)
  PROVE  q \o Announced \in Seq(Kind) /\ q \o Announced # <<>>
<1>1. Announced \in Seq(Kind) /\ Len(Announced) > 0
  BY AnnouncedType
<1>2. /\ q \o Announced \in Seq(Kind)
      /\ Len(q \o Announced) = Len(q) + Len(Announced)
  BY <1>1
<1>3. Len(q) \in Nat /\ Len(Announced) \in Nat
  BY <1>1
<1> QED
  BY <1>1, <1>2, <1>3

\* doWrite keeps the types of what it changes.
LEMMA DoWriteType ==
  ASSUME TypeOK, NEW q \in Seq(Kind), NEW r \in BOOLEAN, NEW t \in BOOLEAN,
         doWrite(q, r, t)
  PROVE  /\ isReady' \in BOOLEAN
         /\ requestQueue' \in Seq(Kind)
         /\ request' \in Kind \cup {None}
         /\ writeOp' \in {"none", "pending", "between", "ok", "err"}
         /\ armed' \in BOOLEAN
<1>1. CASE r /\ q # <<>>
  BY <1>1, QueueType DEF doWrite, TypeOK
<1>2. CASE ~(r /\ q # <<>>)
  BY <1>2 DEF doWrite, TypeOK
<1> QED
  BY <1>1, <1>2

LEMMA DoConnectType ==
  ASSUME TypeOK, doConnect
  PROVE  /\ isConnected' \in BOOLEAN /\ isConnecting' \in BOOLEAN
         /\ connectOp' \in {"none", "pending", "ok", "err"}
         /\ armed' \in BOOLEAN
  BY DEF doConnect, TypeOK

LEMMA AbortedType ==
  ASSUME TypeOK
  PROVE  /\ Aborted(connectOp) \in {"none", "pending", "ok", "err"}
         /\ Aborted(writeOp) \in {"none", "pending", "between", "ok", "err"}
  BY DEF Aborted, TypeOK

LEMMA CountedType ==
  ASSUME TypeOK
  PROVE  Counted \in 0..(MaxFails + 1)
  BY DEF Counted, TypeOK

\* A step keeps the types.
LEMMA TypeStep == TypeOK /\ [Next]_vars => TypeOK'
<1> SUFFICES ASSUME TypeOK, [Next]_vars PROVE TypeOK'
  OBVIOUS
<1> USE TcpAssumption
<1>1. ASSUME NEW k \in Kind, send(k) PROVE TypeOK'
  <2>1. Append(requestQueue, k) \in Seq(Kind)
    BY QueueType DEF TypeOK
  <2>2. CASE ~isConnected
    BY <1>1, <2>1, <2>2, DoConnectType DEF send, TypeOK
  <2>3. CASE isConnected
    <3>1. doWrite(Append(requestQueue, k), isReady, armed)
      BY <1>1, <2>3 DEF send
    <3>2. isReady \in BOOLEAN /\ armed \in BOOLEAN
      BY DEF TypeOK
    <3> HIDE DEF TypeOK
    <3>3. /\ isReady' \in BOOLEAN /\ requestQueue' \in Seq(Kind)
          /\ request' \in Kind \cup {None} /\ armed' \in BOOLEAN
          /\ writeOp' \in {"none", "pending", "between", "ok", "err"}
      BY <2>1, <3>1, <3>2, DoWriteType
    <3> QED
      BY <1>1, <2>3, <3>3 DEF send, TypeOK
  <2> QED
    BY <2>2, <2>3
<1>2. ASSUME NEW max \in BOOLEAN, Weight(max) PROVE TypeOK'
  BY <1>2 DEF Weight, TypeOK, flags
<1>3. ASSUME onConnectOk PROVE TypeOK'
  <2>1. requestQueue \o Announced \in Seq(Kind)
    BY AnnouncedType DEF TypeOK
  <2>2. isReady \in BOOLEAN
    BY DEF TypeOK
  <2>3. /\ isReady' \in BOOLEAN /\ requestQueue' \in Seq(Kind)
        /\ request' \in Kind \cup {None} /\ armed' \in BOOLEAN
        /\ writeOp' \in {"none", "pending", "between", "ok", "err"}
    BY <1>3, <2>1, <2>2, DoWriteType DEF onConnectOk
  <2>4. fail_times' \in 0..(MaxFails + 1)
    BY <1>3 DEF onConnectOk, FreshCount
  <2> QED
    BY <1>3, <2>3, <2>4 DEF onConnectOk, TypeOK
<1>4. ASSUME onConnectErr PROVE TypeOK'
  <2>1. requestQueue' \in Seq(Kind)
    BY <1>4, QueueType DEF onConnectErr, TypeOK, Kind
  <2>2. fail_times' \in 0..(MaxFails + 1) /\ maxWeight' \in BOOLEAN
    BY <1>4, CountedType DEF onConnectErr
  <2>3. isConnecting' \in BOOLEAN /\ armed' \in BOOLEAN
        /\ connectOp' \in {"none", "pending", "ok", "err"}
    BY <1>4 DEF onConnectErr, Reports, ViaHere
  <2>4. writeOp' \in {"none", "pending", "between", "ok", "err"}
    BY <1>4, AbortedType DEF onConnectErr
  <2> QED
    BY <1>4, <2>1, <2>2, <2>3, <2>4 DEF onConnectErr, TypeOK
<1>5. ASSUME onWriteOk PROVE TypeOK'
  <2>1. requestQueue \in Seq(Kind)
    BY DEF TypeOK
  <2>2. /\ isReady' \in BOOLEAN /\ requestQueue' \in Seq(Kind)
        /\ request' \in Kind \cup {None} /\ armed' \in BOOLEAN
        /\ writeOp' \in {"none", "pending", "between", "ok", "err"}
    BY <1>5, <2>1, DoWriteType DEF onWriteOk
  <2>3. lost' \in BOOLEAN
    BY <1>5 DEF onWriteOk
  <2> QED
    BY <1>5, <2>2, <2>3 DEF onWriteOk, TypeOK
<1>6. ASSUME onWriteErr PROVE TypeOK'
  <2> DEFINE queue == Append(requestQueue, "data")
  <2>1. queue \in Seq(Kind) /\ Head(queue) \in Kind /\ Tail(queue) \in Seq(Kind)
    BY QueueType DEF TypeOK, Kind
  <2>2. requestQueue' \in Seq(Kind) /\ request' \in Kind \cup {None}
    BY <1>6, <2>1 DEF onWriteErr, TypeOK
  <2>3. fail_times' \in 0..(MaxFails + 1) /\ maxWeight' \in BOOLEAN
    BY <1>6, CountedType DEF onWriteErr
  <2>4. isReady' \in BOOLEAN
        /\ writeOp' \in {"none", "pending", "between", "ok", "err"}
    BY <1>6 DEF onWriteErr
  <2>5. /\ isConnected' \in BOOLEAN /\ isConnecting' \in BOOLEAN
        /\ connectOp' \in {"none", "pending", "ok", "err"}
        /\ armed' \in BOOLEAN
    <3>1. CASE isConnecting
      BY <1>6, <3>1, AbortedType DEF onWriteErr, Reports, ViaHere, TypeOK
    <3>2. CASE ~isConnecting
      BY <1>6, <3>2, DoConnectType DEF onWriteErr
    <3> QED
      BY <3>1, <3>2
  <2> QED
    BY <1>6, <2>2, <2>3, <2>4, <2>5 DEF onWriteErr, TypeOK
<1>7. ASSUME onTimeout PROVE TypeOK'
  <2>1. fired' \in 0..MaxFired
    BY <1>7 DEF onTimeout, TypeOK
  <2> QED
    BY <1>7, <2>1, AbortedType DEF onTimeout, TypeOK, flags
<1>8. ASSUME onReconnectTimeout PROVE TypeOK'
  BY <1>8, DoConnectType DEF onReconnectTimeout, TypeOK
<1>9. ASSUME NEW result \in {"ok", "err"}, ConnectEnds(result) PROVE TypeOK'
  BY <1>9 DEF ConnectEnds, TypeOK, flags
<1>10. ASSUME NEW result \in {"ok", "err"}, WriteEnds(result) PROVE TypeOK'
  BY <1>10 DEF WriteEnds, TypeOK, flags
<1>11. ASSUME WritePart PROVE TypeOK'
  BY <1>11 DEF WritePart, TypeOK, flags
<1>12. ASSUME TimerExpires PROVE TypeOK'
  <2>1. fired' \in 0..MaxFired
    BY <1>12 DEF TimerExpires, TypeOK
  <2> QED
    BY <1>12, <2>1 DEF TimerExpires, TypeOK, flags
<1>13. CASE UNCHANGED vars
  BY <1>13 DEF vars, TypeOK, flags
<1> QED
  BY <1>1, <1>2, <1>3, <1>4, <1>5, <1>6, <1>7, <1>8, <1>9, <1>10, <1>11,
     <1>12, <1>13 DEF Next, Handler

\* Types of the flags, the queue, the operations and the counters.
THEOREM TypeCorrect == Spec => []TypeOK
<1>1. Init => TypeOK
  <2> SUFFICES ASSUME Init PROVE TypeOK
    OBVIOUS
  <2>1. <<>> \in Seq(Kind) /\ 0 \in 0..MaxFired /\ 0 \in 0..(MaxFails + 1)
        /\ 0 \in 0..MaxSends /\ 0 \in 0..MaxConns
    BY TcpAssumption
  <2> QED
    BY <2>1 DEF Init, TypeOK
<1> QED
  BY <1>1, TypeStep, PTL DEF Spec

-----------------------------------------------------------------------------
(* The flags and the operations *)

LEMMA LinkInvStep ==
  ASSUME TypeOK, LinkInv, [Next]_vars
  PROVE  LinkInv'
<1> USE DEF LinkInv, OneOperation, FreshFailures, TimedConnect
<1>0. None \notin Kind
  BY DEF None, Kind
<1>1. ASSUME NEW k \in Kind, send(k) PROVE LinkInv'
  <2>1. CASE ~isConnected
    BY <1>1, <2>1 DEF send, doConnect, TypeOK
  <2>2. CASE isConnected /\ isReady
    <3> DEFINE q == Append(requestQueue, k)
    <3>1. q # <<>> /\ Head(q) \in Kind
      BY QueueType DEF TypeOK
    <3>2. doWrite(q, isReady, armed)
      BY <1>1, <2>2 DEF send
    <3> HIDE DEF q
    <3>3. isReady' = FALSE /\ request' \in Kind /\ writeOp' = "pending"
      BY <2>2, <3>1, <3>2 DEF doWrite
    <3> QED
      BY <1>0, <1>1, <2>2, <3>3 DEF send, TypeOK
  <2>3. CASE isConnected /\ ~isReady
    BY <1>1, <2>3 DEF send, doWrite, TypeOK
  <2> QED
    BY <2>1, <2>2, <2>3
<1>2. ASSUME NEW max \in BOOLEAN, Weight(max) PROVE LinkInv'
  BY <1>2 DEF Weight, flags
<1>3. ASSUME onConnectOk PROVE LinkInv'
  <2> DEFINE q == requestQueue \o Announced
  <2>1. isReady = TRUE
    BY <1>3 DEF onConnectOk, TypeOK
  <2>2. q \in Seq(Kind) /\ q # <<>>
    BY AnnouncedQueue DEF TypeOK
  <2>3. doWrite(q, isReady, FALSE)
    BY <1>3 DEF onConnectOk
  <2>4. Head(q) \in Kind
    BY <2>2
  <2> HIDE DEF q
  <2>5. isReady' = FALSE /\ request' \in Kind /\ writeOp' = "pending"
    BY <2>1, <2>2, <2>3, <2>4 DEF doWrite
  <2> QED
    BY <1>0, <1>3, <2>5 DEF onConnectOk, FreshCount
<1>4. ASSUME onConnectErr PROVE LinkInv'
  BY <1>4 DEF onConnectErr, Aborted, TypeOK
<1>5. ASSUME onWriteOk PROVE LinkInv'
  <2>1. CASE requestQueue = <<>>
    BY <1>5, <2>1 DEF onWriteOk, doWrite, TypeOK
  <2>2. CASE requestQueue # <<>>
    <3>1. Head(requestQueue) \in Kind
      BY <2>2 DEF TypeOK
    <3>2. isReady' = FALSE /\ request' \in Kind /\ writeOp' = "pending"
      BY <1>5, <2>2, <3>1 DEF onWriteOk, doWrite
    <3> QED
      BY <1>0, <1>5, <3>2 DEF onWriteOk, TypeOK
  <2> QED
    BY <2>1, <2>2
<1>6. ASSUME onWriteErr PROVE LinkInv'
  <2>1. fail_times = 0 /\ isConnecting = FALSE
    BY <1>6 DEF onWriteErr, TypeOK
  <2>2. ~Reports
    BY <2>1 DEF Reports
  <2>3. isReady' = TRUE /\ request' = None /\ writeOp' = "none"
    BY <1>6, <2>2 DEF onWriteErr
  <2>4. doConnect
    BY <1>6, <2>1 DEF onWriteErr
  <2> QED
    BY <2>1, <2>3, <2>4 DEF doConnect
<1>7. ASSUME onTimeout PROVE LinkInv'
  <2>1. connectOp' # "pending"
    BY <1>7 DEF onTimeout, Aborted
  <2> QED
    BY <1>7, <2>1 DEF onTimeout, Aborted, flags, TypeOK
<1>8. ASSUME onReconnectTimeout PROVE LinkInv'
  BY <1>8 DEF onReconnectTimeout, doConnect, TypeOK
<1>9. ASSUME NEW result \in {"ok", "err"}, ConnectEnds(result) PROVE LinkInv'
  BY <1>9 DEF ConnectEnds, flags
<1>10. ASSUME NEW result \in {"ok", "err"}, WriteEnds(result) PROVE LinkInv'
  BY <1>10 DEF WriteEnds, flags
<1>11. ASSUME WritePart PROVE LinkInv'
  BY <1>11 DEF WritePart, flags
<1>12. ASSUME TimerExpires PROVE LinkInv'
  BY <1>12 DEF TimerExpires, flags, TypeOK
<1>13. CASE UNCHANGED vars
  BY <1>13 DEF vars, flags
<1> QED
  BY <1>1, <1>2, <1>3, <1>4, <1>5, <1>6, <1>7, <1>8, <1>9, <1>10, <1>11,
     <1>12, <1>13 DEF Next, Handler

\* The stream never has two operations at once, a failed write is always the
\* first failure since the connection came up, and an attempt to connect always
\* has a timer.
THEOREM LinkInvCorrect == Spec => []LinkInv
<1>1. Init => LinkInv
  BY DEF Init, LinkInv, OneOperation, FreshFailures, TimedConnect
<1> QED
  BY <1>1, LinkInvStep, TypeCorrect, PTL DEF Spec

-----------------------------------------------------------------------------
(* Lost requests *)

LEMMA ListKept ==
  ASSUME NEW q \in Seq(Kind), HasList(q)
  PROVE  /\ \A k \in Kind : HasList(Append(q, k))
         /\ q # <<>>
         /\ Head(q) = "list" \/ HasList(Tail(q))
<1>1. PICK i \in 1..Len(q) : q[i] = "list"
  BY DEF HasList
<1>2. ASSUME NEW k \in Kind PROVE HasList(Append(q, k))
  <2>1. Append(q, k)[i] = "list" /\ i \in 1..Len(Append(q, k))
    BY <1>1
  <2> QED
    BY <2>1 DEF HasList
<1>3. q # <<>>
  BY <1>1
<1>4. CASE i = 1
  BY <1>1, <1>2, <1>3, <1>4
<1>5. CASE i # 1
  <2>1. Tail(q)[i - 1] = "list" /\ i - 1 \in 1..Len(Tail(q))
    BY <1>1, <1>3, <1>5
  <2> QED
    BY <1>2, <1>3, <2>1 DEF HasList
<1> QED
  BY <1>4, <1>5

LEMMA ListAnnounced ==
  ASSUME NEW q \in Seq(Kind)
  PROVE  HasList(q \o <<"list", "data">>)
<1>1. <<"list", "data">> \in Seq(Kind) /\ Len(q) \in Nat
  BY DEF Kind
<1>2. (q \o <<"list", "data">>)[Len(q) + 1] = "list"
  BY <1>1
<1>3. Len(q) + 1 \in 1..Len(q \o <<"list", "data">>)
  BY <1>1
<1> QED
  BY <1>2, <1>3 DEF HasList

\* doWrite does not lose a list.
LEMMA ListWritten ==
  ASSUME NEW q \in Seq(Kind), HasList(q), NEW r \in BOOLEAN, NEW t \in BOOLEAN,
         doWrite(q, r, t)
  PROVE  request' = "list" \/ HasList(requestQueue')
<1>1. CASE r
  BY <1>1, ListKept DEF doWrite
<1>2. CASE ~r
  BY <1>2 DEF doWrite
<1> QED
  BY <1>1, <1>2

LEMMA LossStep ==
  ASSUME TypeOK, LinkInv, LossIsRepaired, [Next]_vars
  PROVE  LossIsRepaired'
<1> SUFFICES ASSUME isConnected', lost', ~detour'
             PROVE  request' = "list" \/ HasList(requestQueue')
  BY DEF LossIsRepaired
<1>0. requestQueue \in Seq(Kind) /\ isReady \in BOOLEAN /\ armed \in BOOLEAN
  BY DEF TypeOK
<1> DEFINE Goal == request' = "list" \/ HasList(requestQueue')
<1>1. ASSUME NEW k \in Kind, send(k) PROVE Goal
  <2>1. isConnected
    BY <1>1 DEF send, doConnect, TypeOK
  <2>2. request = "list" \/ HasList(requestQueue)
    BY <1>1, <2>1 DEF send, LossIsRepaired
  <2>3. doWrite(Append(requestQueue, k), isReady, armed)
    BY <1>1, <2>1 DEF send
  <2>4. Append(requestQueue, k) \in Seq(Kind)
    BY <1>0
  <2>5. CASE HasList(requestQueue)
    <3>1. HasList(Append(requestQueue, k))
      BY <1>0, <2>5, ListKept
    <3> QED
      BY <1>0, <2>3, <2>4, <3>1, ListWritten
  <2>6. CASE request = "list"
    <3>1. ~isReady
      BY <2>6 DEF LinkInv, OneOperation, None
    <3> QED
      BY <2>3, <2>6, <3>1 DEF doWrite
  <2> QED
    BY <2>2, <2>5, <2>6
<1>2. ASSUME onConnectOk PROVE Goal
  <2>1. Announced = <<"list", "data">>
    BY <1>2, AnnouncedType DEF onConnectOk
  <2>2. /\ requestQueue \o Announced \in Seq(Kind)
        /\ HasList(requestQueue \o Announced)
    BY <1>0, <2>1, ListAnnounced, AnnouncedQueue
  <2>3. doWrite(requestQueue \o Announced, isReady, FALSE)
    BY <1>2 DEF onConnectOk
  <2> QED
    BY <1>0, <2>2, <2>3, ListWritten
<1>3. ASSUME onConnectErr PROVE FALSE
  BY <1>3 DEF onConnectErr, LinkInv, OneOperation, TypeOK
<1>4. ASSUME onWriteOk PROVE Goal
  <2>1. HasList(requestQueue)
    BY <1>4 DEF onWriteOk, LossIsRepaired
  <2>2. doWrite(requestQueue, TRUE, FALSE)
    BY <1>4 DEF onWriteOk
  <2> QED
    BY <1>0, <2>1, <2>2, ListWritten
<1>5. ASSUME onWriteErr PROVE FALSE
  BY <1>5 DEF onWriteErr, doConnect, LinkInv, OneOperation, TypeOK
<1>6. ASSUME onReconnectTimeout PROVE FALSE
  BY <1>6 DEF onReconnectTimeout, doConnect, TypeOK
<1>7. CASE UNCHANGED <<isConnected, lost, detour, request, requestQueue>>
  BY <1>7 DEF LossIsRepaired
<1> QED
  BY <1>1, <1>2, <1>3, <1>4, <1>5, <1>6, <1>7 DEF Next, Handler, Weight, onTimeout,
     ConnectEnds, WriteEnds, WritePart, TimerExpires, vars, flags

\* Whatever requests are lost with whatever connections: on a connection that is
\* up a list is on its way until it is written.
THEOREM LossCorrect == Spec => []LossIsRepaired
<1>1. Init => LossIsRepaired
  BY DEF Init, LossIsRepaired
<1>2. LinkInv <=> OneOperation /\ FreshFailures /\ TimedConnect
  BY DEF LinkInv
<1> QED
  BY <1>1, <1>2, LossStep, LinkInvCorrect, TypeCorrect, PTL DEF Spec

-----------------------------------------------------------------------------
(* The link implements HostLink *)

\* The requests that are not written: pending of HostLink.
Unwritten == (IF isReady THEN <<>> ELSE <<request>>) \o requestQueue

LEMMA SeqFacts ==
  ASSUME NEW q \in Seq(Kind), NEW r \in Kind, NEW k \in Kind, NEW a \in Seq(Kind)
  PROVE  /\ <<>> \o q = q
         /\ q # <<>> => <<Head(q)>> \o Tail(q) = q
         /\ <<r>> \o Append(q, k) = Append(<<r>> \o q, k)
         /\ <<r>> \o q # <<>> /\ Tail(<<r>> \o q) = q
         /\ q \o <<k>> = Append(q, k)
<1>1. <<>> \o q = q
  OBVIOUS
<1>2. q # <<>> => <<Head(q)>> \o Tail(q) = q
  OBVIOUS
<1>3. <<r>> \o Append(q, k) = Append(<<r>> \o q, k)
  OBVIOUS
<1>4. <<r>> \o q # <<>> /\ Tail(<<r>> \o q) = q
  OBVIOUS
<1>5. q \o <<k>> = Append(q, k)
  OBVIOUS
<1> QED
  BY <1>1, <1>2, <1>3, <1>4, <1>5

\* Beginning a write does not change what is not written.
LEMMA UnwrittenAfterWrite ==
  ASSUME NEW q \in Seq(Kind), NEW t \in BOOLEAN, doWrite(q, TRUE, t)
  PROVE  Unwritten' = q
<1>1. CASE q = <<>>
  BY <1>1, SeqFacts DEF doWrite, Unwritten
<1>2. CASE q # <<>>
  <2>1. isReady' = FALSE /\ request' = Head(q) /\ requestQueue' = Tail(q)
    BY <1>2 DEF doWrite
  <2>2. Unwritten' = <<Head(q)>> \o Tail(q)
    BY <2>1 DEF Unwritten
  <2> QED
    BY <1>2, <2>2
<1> QED
  BY <1>1, <1>2

LEMMA UnwrittenAppend ==
  ASSUME TypeOK, LinkInv, NEW k \in Kind,
         requestQueue' = Append(requestQueue, k), UNCHANGED <<isReady, request>>
  PROVE  Unwritten' = Append(Unwritten, k)
<1>0. requestQueue \in Seq(Kind)
  BY DEF TypeOK
<1>1. CASE isReady
  BY <1>0, <1>1 DEF Unwritten
<1>2. CASE ~isReady
  <2>1. request \in Kind
    BY <1>2 DEF TypeOK, LinkInv, OneOperation
  <2>2. <<request>> \o Append(requestQueue, k) = Append(<<request>> \o requestQueue, k)
    BY <1>0, <2>1, SeqFacts
  <2> QED
    BY <1>2, <2>2 DEF Unwritten
<1> QED
  BY <1>1, <1>2

\* A write is under way: its request is the first that is not written.
LEMMA UnwrittenFirst ==
  ASSUME TypeOK, LinkInv, writeOp # "none"
  PROVE  isConnected /\ Unwritten # <<>> /\ Tail(Unwritten) = requestQueue
<1>1. ~isReady /\ request \in Kind /\ isConnected /\ requestQueue \in Seq(Kind)
  BY DEF TypeOK, LinkInv, OneOperation
<1>2. Unwritten = <<request>> \o requestQueue
  BY <1>1 DEF Unwritten
<1> QED
  BY <1>1, <1>2, SeqFacts

\* Every step is a step of HostLink or leaves its state alone.
LEMMA LinkStep ==
  ASSUME TypeOK, LinkInv, [Next]_vars
  PROVE  [Abstract!Next]_(Abstract!vars)
<1> DEFINE Same == UNCHANGED <<isConnected, Unwritten, detour>>
<1> USE DEF Unwritten
<1>a. ASSUME Same PROVE [Abstract!Next]_(Abstract!vars)
  BY <1>a DEF Abstract!vars
<1>b. ASSUME NEW k \in Kind, Unwritten' = Append(Unwritten, k),
             UNCHANGED <<isConnected, detour>>
      PROVE  [Abstract!Next]_(Abstract!vars)
  BY <1>b DEF Abstract!Next, Abstract!Submit, Abstract!Kind, Kind
<1> HIDE DEF Unwritten
<1>0. requestQueue \in Seq(Kind) /\ isReady \in BOOLEAN /\ armed \in BOOLEAN
  BY DEF TypeOK
<1>1. ASSUME NEW k \in Kind, send(k) PROVE [Abstract!Next]_(Abstract!vars)
  <2>1. isConnected' = isConnected /\ detour' = detour
    BY <1>1 DEF send, doConnect, TypeOK
  <2>2. CASE ~isConnected \/ ~isReady
    <3>1. requestQueue' = Append(requestQueue, k) /\ UNCHANGED <<isReady, request>>
      BY <1>1, <2>2 DEF send, doWrite
    <3> QED
      BY <1>b, <2>1, <3>1, UnwrittenAppend
  <2>3. CASE isConnected /\ isReady
    <3>1. doWrite(Append(requestQueue, k), TRUE, armed)
      BY <1>0, <1>1, <2>3 DEF send
    <3>2. Unwritten' = Append(requestQueue, k)
      BY <1>0, <3>1, UnwrittenAfterWrite, QueueType
    <3>3. Unwritten = requestQueue
      BY <1>0, <2>3 DEF Unwritten
    <3> QED
      BY <1>b, <2>1, <3>2, <3>3
  <2> QED
    BY <1>0, <2>2, <2>3
<1>2. ASSUME onConnectOk PROVE [Abstract!Next]_(Abstract!vars)
  <2>1. isReady = TRUE /\ isConnected = FALSE
    BY <1>2 DEF onConnectOk, LinkInv, OneOperation, TypeOK
  <2>2. Unwritten = requestQueue
    BY <1>0, <2>1 DEF Unwritten
  <2>3. Unwritten' = requestQueue \o Announced
    BY <1>0, <1>2, <2>1, UnwrittenAfterWrite, AnnouncedQueue DEF onConnectOk
  <2>4. \/ Unwritten' = Unwritten \o <<"list", "data">>
        \/ detour /\ Unwritten' = Unwritten \o <<"data">>
    BY <2>2, <2>3, AnnouncedType
  <2>5. Unwritten \o <<"data">> = Append(Unwritten, "data")
    BY <1>0, <2>2, SeqFacts DEF Kind
  <2>6. isConnected' = TRUE /\ detour' = detour
    BY <1>2 DEF onConnectOk
  <2> QED
    BY <2>1, <2>4, <2>5, <2>6 DEF Abstract!Next, Abstract!Established, Unwritten
<1>3. ASSUME onConnectErr PROVE [Abstract!Next]_(Abstract!vars)
  <2>1. UNCHANGED <<isConnected, detour, isReady, request>>
    BY <1>3 DEF onConnectErr
  <2>2. CASE requestQueue' = requestQueue
    BY <1>a, <2>1, <2>2 DEF Unwritten
  <2>3. CASE requestQueue' = Append(requestQueue, "data")
    BY <1>b, <2>1, <2>3, UnwrittenAppend DEF Kind
  <2> QED
    BY <1>3, <2>2, <2>3 DEF onConnectErr
<1>4. ASSUME onWriteOk PROVE [Abstract!Next]_(Abstract!vars)
  <2>1. isConnected /\ Unwritten # <<>> /\ Tail(Unwritten) = requestQueue
    BY <1>4, UnwrittenFirst DEF onWriteOk
  <2>2. Unwritten' = requestQueue
    BY <1>0, <1>4, UnwrittenAfterWrite DEF onWriteOk
  <2>3. UNCHANGED <<isConnected, detour>>
    BY <1>4 DEF onWriteOk
  <2> QED
    BY <2>1, <2>2, <2>3 DEF Abstract!Next, Abstract!Written, Unwritten
<1>5. ASSUME onWriteErr PROVE [Abstract!Next]_(Abstract!vars)
  <2>1. isConnected /\ Unwritten # <<>> /\ Tail(Unwritten) = requestQueue
    BY <1>5, UnwrittenFirst DEF onWriteErr
  <2>2. fail_times = 0 /\ isConnecting = FALSE
    BY <2>1 DEF LinkInv, FreshFailures, OneOperation, TypeOK
  <2>3. isReady' = TRUE /\ requestQueue' = requestQueue /\ detour' = detour
    <3>1. ~Reports
      BY <2>2 DEF Reports
    <3> QED
      BY <1>5, <3>1 DEF onWriteErr
  <2>4. Unwritten' = requestQueue
    BY <1>0, <2>3 DEF Unwritten
  <2>5. isConnected' = FALSE
    BY <1>5, <2>2 DEF onWriteErr, doConnect
  <2> QED
    BY <2>1, <2>3, <2>4, <2>5 DEF Abstract!Next, Abstract!Broken, Unwritten
<1>6. ASSUME onReconnectTimeout PROVE [Abstract!Next]_(Abstract!vars)
  <2>1. Same
    BY <1>6 DEF onReconnectTimeout, doConnect, TypeOK, Unwritten
  <2> QED
    BY <1>a, <2>1
<1>7. CASE UNCHANGED <<isConnected, isReady, request, requestQueue, detour>>
  BY <1>7, <1>a DEF Unwritten
<1> QED
  BY <1>1, <1>2, <1>3, <1>4, <1>5, <1>6, <1>7 DEF Next, Handler, Weight, onTimeout,
     ConnectEnds, WriteEnds, WritePart, TimerExpires, vars, flags

\* TcpHostInterface implements HostLink: requests are written in order and at
\* most once, a broken connection costs exactly the first, and a list follows.
THEOREM LinkCorrect == Spec => LinkSpec
<1>1. Init => Abstract!Init
  <2> SUFFICES ASSUME Init PROVE Abstract!Init
    OBVIOUS
  <2>1. <<>> \o <<>> = <<>>
    OBVIOUS
  <2> QED
    BY <2>1 DEF Init, Abstract!Init
<1>2. LinkInv <=> OneOperation /\ FreshFailures /\ TimedConnect
  BY DEF LinkInv
<1> QED
  BY <1>1, <1>2, LinkStep, LinkInvCorrect, TypeCorrect, PTL DEF Spec, LinkSpec, Abstract!Spec
=============================================================================
