--------------------------- MODULE UwbLinkProofs ---------------------------
(***************************************************************************)
(* Proofs about the UWB link, for every number of nodes, requests, retries *)
(* and faults: the types, that a callback is called at most once, that a   *)
(* request is delivered no more often than it is transmitted, and, as long *)
(* as a node sends no more requests than there are sequence numbers,       *)
(* that success is reported only after delivery and that the link          *)
(* implements ReliableSend.                                                *)
(***************************************************************************)
EXTENDS UwbLink, FiniteSetTheorems, TLAPS

-----------------------------------------------------------------------------
(* Sequences *)

\* Appending adds at most the appended element.
LEMMA RangeAppend ==
  ASSUME NEW S, NEW q \in Seq(S), NEW x \in S
  PROVE  /\ Append(q, x) \in Seq(S)
         /\ \A f \in Range(Append(q, x)) : f \in Range(q) \/ f = x
BY DEF Range

\* Concatenating adds nothing.
LEMMA RangeConcat ==
  ASSUME NEW S, NEW q \in Seq(S), NEW r \in Seq(S)
  PROVE  /\ q \o r \in Seq(S)
         /\ \A f \in Range(q \o r) : f \in Range(q) \/ f \in Range(r)
BY DEF Range

\* The head and the tail of a queue come from the queue.
LEMMA RangeTail ==
  ASSUME NEW S, NEW q \in Seq(S), q # <<>>
  PROVE  /\ Head(q) \in S /\ Head(q) \in Range(q)
         /\ Tail(q) \in Seq(S)
         /\ \A f \in Range(Tail(q)) : f \in Range(q)
BY DEF Range

\* Losing a frame of a queue adds nothing.
LEMMA RangeWithout ==
  ASSUME NEW S, NEW q \in Seq(S), NEW r \in Without(q)
  PROVE  r \in Seq(S) /\ \A f \in Range(r) : f \in Range(q)
<1>1. PICK i \in DOMAIN q : r = RemoveAt(q, i)
  BY DEF Without
<1>2. DOMAIN q = 1..Len(q) /\ Len(q) \in Nat
  OBVIOUS
<1> DEFINE front == SubSeq(q, 1, i - 1)
           back == SubSeq(q, i + 1, Len(q))
<1>3. front \in Seq(S) /\ \A f \in Range(front) : f \in Range(q)
  BY <1>2 DEF Range
<1>4. back \in Seq(S) /\ \A f \in Range(back) : f \in Range(q)
  BY <1>2 DEF Range
<1>5. r = front \o back
  BY <1>1 DEF RemoveAt
<1> HIDE DEF front, back
<1> QED
  BY <1>3, <1>4, <1>5, RangeConcat

\* An order of a set of sequence numbers is a finite sequence of them.
LEMMA OrderOfSeqs ==
  ASSUME NEW S \in SUBSET Seqs, NEW q \in SetToSeqs(S)
  PROVE  q \in Seq(S) /\ \A i \in DOMAIN q : q[i] \in S
<1>1. IsFiniteSet(Seqs)
  BY FS_Interval, NumberAssumption DEF Seqs
<1>2. IsFiniteSet(S)
  BY <1>1, FS_Subset
<1>3. Cardinality(S) \in Nat
  BY <1>2, FS_CardinalityType
<1>4. q \in [1..Cardinality(S) -> S]
  BY DEF SetToSeqs
<1> QED
  BY <1>3, <1>4
-----------------------------------------------------------------------------
(* Types *)

\* The constructors build frames, entries and queues of the right types.
LEMMA FrameTypes ==
  /\ \A m \in Msg, s \in Seqs : DataFrame(m, s) \in Frame
  /\ \A n \in Node, f \in Frame : f.src \in Node /\ AckFrame(n, f) \in Frame
  /\ \A n \in Node : HeartbeatFrame(n) \in Frame
  /\ NoEntry \in Entry
BY NodeAssumption, NumberAssumption, MsgAssumption
   DEF Frame, DataFrame, AckFrame, HeartbeatFrame, Seqs, NoEntry, Entry

LEMMA TypeInit == Init => TypeOK
BY NodeAssumption, NumberAssumption, MsgAssumption, FrameTypes
   DEF Init, TypeOK, Seqs, NoSeq

\* An entry that grows older, is retried or is emplaced is an entry.
LEMMA EntryTypes ==
  /\ \A p \in [Seqs -> Entry] : Older(p) \in [Seqs -> Entry]
  /\ \A e \in Entry : e.retries < MaxRetries =>
       Retried(e) \in Entry
  /\ \A p \in [Seqs -> Entry], m \in Msg, s \in 0..MaxSeq :
       EmplacePending(p, m, s) \in [Seqs -> Entry]
<1> USE NumberAssumption
<1>1. ASSUME NEW p \in [Seqs -> Entry] PROVE Older(p) \in [Seqs -> Entry]
  <2>1. ASSUME NEW e \in Entry, e.age # AckTimeout PROVE [e EXCEPT !.age = @ + 1] \in Entry
    BY <2>1 DEF Entry
  <2> QED
    BY <2>1 DEF Older
<1>2. ASSUME NEW e \in Entry, e.retries < MaxRetries
      PROVE  Retried(e) \in Entry
  BY <1>2 DEF Entry, Retried
<1>3. ASSUME NEW p \in [Seqs -> Entry], NEW m \in Msg, NEW s \in 0..MaxSeq
      PROVE  EmplacePending(p, m, s) \in [Seqs -> Entry]
  <2>1. [msg |-> m, retries |-> 0, age |-> 0] \in Entry
    BY DEF Entry
  <2> QED
    BY <2>1 DEF EmplacePending
<1> QED
  BY <1>1, <1>2, <1>3

\* Calling a callback, or failing a set of requests, keeps calls well typed.
LEMMA CallTypes ==
  ASSUME calls \in [Msg -> Seq({"ok", "failed"})]
  PROVE  /\ \A m : [calls EXCEPT ![m] = Append(@, "ok")] \in [Msg -> Seq({"ok", "failed"})]
         /\ \A S : FailCalls(S) \in [Msg -> Seq({"ok", "failed"})]
<1>1. \A m \in Msg : /\ Append(calls[m], "ok") \in Seq({"ok", "failed"})
                     /\ Append(calls[m], "failed") \in Seq({"ok", "failed"})
  OBVIOUS
<1> QED
  BY <1>1 DEF FailCalls

\* Each action keeps the types.
LEMMA TypeStep == TypeOK /\ [Next]_vars => TypeOK'
<1> SUFFICES ASSUME TypeOK, [Next]_vars PROVE TypeOK'
  OBVIOUS
<1>0. /\ sendQueue \in [Node -> Seq(Frame)] /\ ackQueue \in [Node -> Seq(Frame)]
      /\ rx \in [Node -> Seq(Frame)] /\ pending \in [Node -> [Seqs -> Entry]]
      /\ calls \in [Msg -> Seq({"ok", "failed"})] /\ faults \in Nat
  BY DEF TypeOK
<1>1. CASE Tick
  <2>1. slot' \in 0..(MaxNodes - 1)
    BY <1>1, NodeAssumption DEF Tick, TypeOK
  <2>2. pending' \in [Node -> [Seqs -> Entry]]
    BY <1>0, <1>1, EntryTypes DEF Tick
  <2>3. phase' \in [Node -> {"idle", "data", "ack"}] /\ faults' \in Nat
    BY <1>1 DEF Tick, TypeOK
  <2> QED
    BY <1>1, <2>1, <2>2, <2>3 DEF Tick, TypeOK
<1>2. ASSUME NEW m \in Msg, Refuse(m) PROVE TypeOK'
  <2>1. calls' \in [Msg -> Seq({"ok", "failed"})] /\ submitted' \in SUBSET Msg
    BY <1>0, <1>2 DEF Refuse, TypeOK
  <2> QED
    BY <1>2, <2>1 DEF Refuse, TypeOK, linkVars
<1>3. ASSUME NEW m \in Msg, Enqueue(m) PROVE TypeOK'
  <2>1. Src[m] \in Node /\ nextSeq[Src[m]] \in Seqs
    BY MsgAssumption DEF TypeOK
  <2>2. SeqAfter(nextSeq[Src[m]]) \in Seqs /\ nextSeq[Src[m]] \in 0..MaxSeq
    BY <2>1, NumberAssumption DEF SeqAfter, Seqs
  <2>3. DataFrame(m, nextSeq[Src[m]]) \in Frame
    BY <2>1, FrameTypes
  <2>4. sendQueue' \in [Node -> Seq(Frame)]
    BY <1>0, <1>3, <2>1, <2>3 DEF Enqueue
  <2>5. nextSeq' \in [Node -> Seqs] /\ seqOf' \in [Msg -> 0..MaxSeq]
    BY <1>3, <2>1, <2>2 DEF Enqueue, TypeOK
  <2>6. /\ sent' \in [Node -> Nat] /\ submitted' \in SUBSET Msg
        /\ sending' \in [Node -> Msg \cup {NoMsg}]
    BY <1>3, <2>1 DEF Enqueue, TypeOK
  <2> QED
    BY <1>3, <2>4, <2>5, <2>6 DEF Enqueue, TypeOK
<1>4. ASSUME NEW n \in Node, Track(n) PROVE TypeOK'
  <2>1. sending[n] \in Msg /\ seqOf[sending[n]] \in 0..MaxSeq
    BY <1>4 DEF Track, TypeOK
  <2>2. EmplacePending(pending[n], sending[n], seqOf[sending[n]]) \in [Seqs -> Entry]
    BY <1>0, <2>1, EntryTypes
  <2>3. pending' \in [Node -> [Seqs -> Entry]]
    BY <1>0, <1>4, <2>2 DEF Track
  <2>4. calls' \in [Msg -> Seq({"ok", "failed"})]
    <3>1. [calls EXCEPT ![sending[n]] = Append(@, "ok")] \in [Msg -> Seq({"ok", "failed"})]
      BY <1>0, CallTypes
    <3> QED
      BY <1>0, <1>4, <3>1 DEF Track
  <2>5. sending' \in [Node -> Msg \cup {NoMsg}]
    BY <1>4 DEF Track, TypeOK
  <2> QED
    BY <1>4, <2>3, <2>4, <2>5 DEF Track, TypeOK
<1>5. ASSUME NEW n \in Node, TransmitData(n) PROVE TypeOK'
  <2>1. Broadcasted(n, sendQueue[n]) \in [Node -> Seq(Frame)]
    BY <1>0 DEF Broadcasted
  <2>2. /\ sendQueue' \in [Node -> Seq(Frame)]
        /\ phase' \in [Node -> {"idle", "data", "ack"}]
    BY <1>5 DEF TransmitData, TypeOK
  <2> QED
    BY <1>5, <2>1, <2>2 DEF TransmitData, TypeOK, histVars
<1>6. ASSUME NEW n \in Node, TransmitAcks(n) PROVE TypeOK'
  <2>1. Broadcasted(n, ackQueue[n]) \in [Node -> Seq(Frame)]
    BY <1>0 DEF Broadcasted
  <2>2. /\ ackQueue' \in [Node -> Seq(Frame)]
        /\ phase' \in [Node -> {"idle", "data", "ack"}]
    BY <1>6 DEF TransmitAcks, TypeOK
  <2> QED
    BY <1>6, <2>1, <2>2 DEF TransmitAcks, TypeOK, histVars
<1>7. ASSUME NEW n \in Node, WriteFails(n) PROVE TypeOK'
  <2>1. \A q \in Without(sendQueue[n]) : q \in Seq(Frame)
    BY <1>0, RangeWithout
  <2>2. \A q \in Without(ackQueue[n]) : q \in Seq(Frame)
    BY <1>0, RangeWithout
  <2>3. sendQueue' \in [Node -> Seq(Frame)] /\ ackQueue' \in [Node -> Seq(Frame)]
    BY <1>0, <1>7, <2>1, <2>2 DEF WriteFails
  <2> QED
    BY <1>7, <2>3 DEF WriteFails, TypeOK
<1>8. ASSUME NEW n \in Node, Receive(n) PROVE TypeOK'
  <2>1. TakeFrame(n)
    BY <1>8 DEF Receive, IgnoreFrame, ReceiveAck, ReceiveDuplicate, ReceiveNew
  <2>2. Head(rx[n]) \in Frame /\ Tail(rx[n]) \in Seq(Frame)
    BY <1>0, <2>1, RangeTail DEF TakeFrame
  <2>3. rx' \in [Node -> Seq(Frame)]
    BY <1>0, <2>1, <2>2 DEF TakeFrame
  <2>4. CASE IgnoreFrame(n)
    <3>1. faults' \in Nat
      BY <1>0, <2>4 DEF IgnoreFrame
    <3> QED
      BY <2>1, <2>3, <2>4, <3>1 DEF IgnoreFrame, TakeFrame, TypeOK
  <2>5. CASE ReceiveAck(n)
    <3>1. calls' \in [Msg -> Seq({"ok", "failed"})]
      <4> DEFINE m == pending[n][Head(rx[n]).seq].msg
      <4>1. [calls EXCEPT ![m] = Append(@, "ok")] \in [Msg -> Seq({"ok", "failed"})]
        BY <1>0, CallTypes
      <4>2. calls' \in {calls, [calls EXCEPT ![m] = Append(@, "ok")]}
        BY <2>5 DEF ReceiveAck
      <4> QED
        BY <1>0, <4>1, <4>2
    <3>2. [pending[n] EXCEPT ![Head(rx[n]).seq] = NoEntry] \in [Seqs -> Entry]
      BY <1>0, FrameTypes
    <3>3. pending' \in [Node -> [Seqs -> Entry]]
      BY <1>0, <2>5, <3>2 DEF ReceiveAck, Erase
    <3> QED
      BY <2>1, <2>3, <2>5, <3>1, <3>3 DEF ReceiveAck, TakeFrame, TypeOK
  <2>6. CASE ReceiveDuplicate(n)
    BY <2>1, <2>3, <2>6 DEF ReceiveDuplicate, TakeFrame, TypeOK
  <2>7. CASE ReceiveNew(n)
    <3>1. AckFrame(n, Head(rx[n])) \in Frame
      BY <2>2, FrameTypes
    <3>2. ackQueue' \in [Node -> Seq(Frame)]
      BY <1>0, <2>7, <3>1 DEF ReceiveNew
    <3>3. delivered' \in [Msg -> [Node -> Nat]]
      <4>1. delivered \in [Msg -> [Node -> Nat]]
        BY DEF TypeOK
      <4>2. \A m \in Msg : [delivered[m] EXCEPT ![n] = @ + 1] \in [Node -> Nat]
        BY <4>1
      <4> QED
        BY <2>7, <4>1, <4>2 DEF ReceiveNew
    <3>4. Head(rx[n]).seq \in 0..MaxSeq
      BY <2>2 DEF Frame
    <3>5. lastSeq' \in [Node -> [Node -> (0..MaxSeq) \cup {NoSeq}]]
      BY <2>7, <3>4 DEF ReceiveNew, TypeOK
    <3> QED
      BY <2>1, <2>3, <2>7, <3>2, <3>3, <3>5 DEF ReceiveNew, TakeFrame, TypeOK
  <2> QED
    BY <1>8, <2>4, <2>5, <2>6, <2>7 DEF Receive
<1>9. ASSUME NEW n \in Node, check_timeouts(n) PROVE TypeOK'
  <2>1. PICK E \in SUBSET Expired(n) :
          \E q \in SetToSeqs({s \in E : CanRetry(n, s)}) : TimeoutPass(n, E, q)
    BY <1>9 DEF check_timeouts
  <2>2. E \subseteq Seqs
    BY DEF Expired, Outstanding
  <2>3. PICK q \in SetToSeqs({s \in E : CanRetry(n, s)}) : TimeoutPass(n, E, q)
    BY <2>1
  <2>4. q \in Seq(Seqs) /\ \A i \in DOMAIN q : q[i] \in Seqs /\ q[i] \in E
    BY <2>2, OrderOfSeqs
  <2>5. sendQueue' \in [Node -> Seq(Frame)]
    <3>1. \A s \in E : pending[n][s].msg \in Msg
      BY <1>0 DEF Expired, Outstanding, Entry
    <3>2. [i \in DOMAIN q |-> DataFrame(pending[n][q[i]].msg, q[i])] \in Seq(Frame)
      BY <2>4, <3>1, FrameTypes
    <3> QED
      BY <1>0, <2>3, <3>2 DEF TimeoutPass
  <2>6. pending' \in [Node -> [Seqs -> Entry]]
    <3>1. [s \in Seqs |-> IF s \notin E THEN pending[n][s] ELSE
             IF CanRetry(n, s) THEN Retried(pending[n][s]) ELSE NoEntry] \in [Seqs -> Entry]
      BY <1>0, EntryTypes, FrameTypes DEF CanRetry
    <3> QED
      BY <1>0, <2>3, <3>1 DEF TimeoutPass
  <2>7. calls' \in [Msg -> Seq({"ok", "failed"})]
    BY <2>3, CallTypes DEF TimeoutPass, TypeOK
  <2> QED
    BY <1>9, <2>5, <2>6, <2>7 DEF check_timeouts, TypeOK
<1>10. ASSUME NEW n \in Node, Heartbeat(n) PROVE TypeOK'
  <2>1. sendQueue' \in [Node -> Seq(Frame)]
    BY <1>0, <1>10, FrameTypes DEF Heartbeat
  <2>2. beats' \in [Node -> Nat]
    BY <1>10 DEF Heartbeat, TypeOK
  <2> QED
    BY <1>10, <2>1, <2>2 DEF Heartbeat, TypeOK
<1>11. ASSUME NEW n \in Node, StopBegin(n) PROVE TypeOK'
  <2>1. mode' \in [Node -> {"running", "stopping", "stopped"}]
    BY <1>11 DEF StopBegin, TypeOK
  <2> QED
    BY <1>11, <2>1 DEF StopBegin, TypeOK, histVars
<1>12. ASSUME NEW n \in Node, StopEnd(n) PROVE TypeOK'
  <2>1. mode' \in [Node -> {"running", "stopping", "stopped"}]
    BY <1>12 DEF StopEnd, TypeOK
  <2>2. pending' \in [Node -> [Seqs -> Entry]]
    BY <1>0, <1>12, FrameTypes DEF StopEnd
  <2>3. calls' \in [Msg -> Seq({"ok", "failed"})]
    BY <1>12, CallTypes DEF StopEnd, TypeOK
  <2> QED
    BY <1>12, <2>1, <2>2, <2>3 DEF StopEnd, TypeOK
<1>13. CASE UNCHANGED vars
  BY <1>13 DEF vars, linkVars, histVars, TypeOK
<1> QED
  BY <1>1, <1>2, <1>3, <1>4, <1>5, <1>6, <1>7, <1>8, <1>9, <1>10, <1>11, <1>12,
     <1>13 DEF Next

\* The variables of the link keep their types.
THEOREM TypeCorrect == Spec => []TypeOK
BY TypeInit, TypeStep, PTL DEF Spec

-----------------------------------------------------------------------------
(* A callback is called at most once *)

\* A step that leaves these five variables alone, and a request's number and
\* its table entry with them, keeps OwedInv.
LEMMA OwedFrame ==
  ASSUME OwedInv, UNCHANGED <<pending, submitted, seqOf, calls, sending>>
  PROVE  OwedInv'
BY DEF OwedInv, PendingOwed, SendingOwed, FreshUncalled, Outstanding

\* Ageing keeps the requests of a table.
LEMMA OlderKeepsRequests ==
  \A p \in [Seqs -> Entry] : \A s \in Seqs : Older(p)[s].msg = p[s].msg
BY DEF Older, Entry

LEMMA OwedStep ==
  ASSUME TypeOK, OwedInv, CallbackOnce, [Next]_vars
  PROVE  OwedInv' /\ CallbackOnce'
<1> USE MsgAssumption
<1>0. /\ pending \in [Node -> [Seqs -> Entry]] /\ sending \in [Node -> Msg \cup {NoMsg}]
      /\ submitted \in SUBSET Msg /\ calls \in [Msg -> Seq({"ok", "failed"})]
      /\ seqOf \in [Msg -> 0..MaxSeq]
  BY DEF TypeOK
<1>1. CASE Tick
  <2>1. \A n \in Node, s \in Seqs : pending'[n][s].msg = pending[n][s].msg
    BY <1>0, <1>1, OlderKeepsRequests DEF Tick
  <2>2. UNCHANGED <<submitted, seqOf, calls, sending>>
    BY <1>1 DEF Tick
  <2> QED
    BY <2>1, <2>2 DEF OwedInv, PendingOwed, SendingOwed, FreshUncalled, Outstanding,
                      CallbackOnce
<1>2. ASSUME NEW m \in Msg, Refuse(m) PROVE OwedInv' /\ CallbackOnce'
  <2>1. UNCHANGED <<pending, seqOf, sending>> /\ submitted' = submitted \cup {m}
    BY <1>2 DEF Refuse, linkVars
  <2>2. m \notin submitted /\ calls[m] = <<>>
    BY <1>2 DEF Refuse, OwedInv, FreshUncalled
  <2>3. \A k \in Msg : k # m => calls'[k] = calls[k]
    BY <1>0, <1>2 DEF Refuse
  <2>4. Len(calls'[m]) <= 1
    BY <1>0, <1>2, <2>2 DEF Refuse
  <2>5. PendingOwed'
    BY <1>0, <2>1, <2>2, <2>3 DEF OwedInv, PendingOwed, Outstanding, Unicast
  <2>6. SendingOwed'
    BY <1>0, <2>1, <2>2, <2>3 DEF OwedInv, SendingOwed
  <2>7. FreshUncalled'
    BY <1>0, <2>1, <2>2, <2>3 DEF OwedInv, FreshUncalled
  <2>8. CallbackOnce'
    BY <1>0, <2>3, <2>4 DEF CallbackOnce
  <2> QED
    BY <2>5, <2>6, <2>7, <2>8 DEF OwedInv
<1>3. ASSUME NEW m \in Msg, Enqueue(m) PROVE OwedInv' /\ CallbackOnce'
  <2>1. /\ UNCHANGED <<pending, calls>> /\ submitted' = submitted \cup {m}
        /\ sending' = [sending EXCEPT ![Src[m]] = m]
        /\ seqOf' = [seqOf EXCEPT ![m] = nextSeq[Src[m]]]
    BY <1>3 DEF Enqueue
  <2>2. m \notin submitted /\ calls[m] = <<>>
    BY <1>3 DEF Enqueue, OwedInv, FreshUncalled
  <2>3. nextSeq[Src[m]] \in Seqs /\ Src[m] \in Node
    BY DEF TypeOK
  <2>4. PendingOwed'
    BY <1>0, <2>1, <2>2, <2>3 DEF OwedInv, PendingOwed, Outstanding, Unicast
  <2>5. SendingOwed'
    BY <1>0, <2>1, <2>2, <2>3 DEF OwedInv, SendingOwed
  <2>6. FreshUncalled'
    BY <1>0, <2>1, <2>2 DEF OwedInv, FreshUncalled
  <2> QED
    BY <2>1, <2>4, <2>5, <2>6 DEF OwedInv, CallbackOnce
<1>4. ASSUME NEW n \in Node, Track(n) PROVE OwedInv' /\ CallbackOnce'
  <2> DEFINE m == sending[n]
  <2>1. /\ m \in submitted /\ m \in Msg /\ Src[m] = n
        /\ seqOf[m] \in Seqs /\ calls[m] = <<>>
    BY <1>0, <1>4 DEF Track, OwedInv, SendingOwed
  <2>2. UNCHANGED <<submitted, seqOf>> /\ sending' = [sending EXCEPT ![n] = NoMsg]
    BY <1>4 DEF Track
  <2>3. CASE Dst[m] # Broadcast
    <3>1. pending' = [pending EXCEPT ![n] = EmplacePending(@, m, seqOf[m])] /\ calls' = calls
      BY <1>4, <2>3 DEF Track
    <3>2. \A k \in Node, s \in Seqs :
            pending'[k][s].msg \in {pending[k][s].msg} \cup
              (IF k = n /\ s = seqOf[m] THEN {m} ELSE {})
      BY <1>0, <2>1, <3>1 DEF EmplacePending, Entry
    <3>3. PendingOwed'
      BY <1>0, <2>1, <2>2, <2>3, <3>1, <3>2 DEF OwedInv, PendingOwed, Outstanding, Unicast
    <3>4. SendingOwed' /\ FreshUncalled'
      BY <1>0, <2>2, <3>1 DEF OwedInv, SendingOwed, FreshUncalled
    <3> QED
      BY <3>1, <3>3, <3>4 DEF OwedInv, CallbackOnce
  <2>4. CASE Dst[m] = Broadcast
    <3>1. calls' = [calls EXCEPT ![m] = Append(@, "ok")] /\ pending' = pending
      BY <1>4, <2>4 DEF Track
    <3>2. \A k \in Msg : k # m => calls'[k] = calls[k]
      BY <1>0, <3>1
    <3>3. Len(calls'[m]) <= 1
      BY <1>0, <2>1, <3>1
    <3>4. PendingOwed'
      BY <1>0, <2>1, <2>2, <2>4, <3>1, <3>2 DEF OwedInv, PendingOwed, Outstanding, Unicast
    <3>5. SendingOwed'
      BY <1>0, <2>1, <2>2, <3>2 DEF OwedInv, SendingOwed
    <3>6. FreshUncalled'
      BY <1>0, <2>1, <2>2, <3>2 DEF OwedInv, FreshUncalled
    <3>7. CallbackOnce'
      BY <3>2, <3>3 DEF CallbackOnce
    <3> QED
      BY <3>4, <3>5, <3>6, <3>7 DEF OwedInv
  <2> QED
    BY <2>3, <2>4
<1>5. ASSUME NEW n \in Node, ReceiveAck(n) PROVE OwedInv' /\ CallbackOnce'
  <2> DEFINE s == Head(rx[n]).seq
             m == pending[n][s].msg
  <2>1. UNCHANGED <<submitted, seqOf, sending>>
    BY <1>5 DEF ReceiveAck, TakeFrame
  <2>2. CASE s \notin Outstanding(n)
    <3>1. UNCHANGED <<calls, pending>>
      BY <1>5, <2>2 DEF ReceiveAck
    <3> QED
      BY <2>1, <3>1, OwedFrame DEF CallbackOnce
  <2>3. CASE s \in Outstanding(n)
    <3>1. /\ calls' = [calls EXCEPT ![m] = Append(@, "ok")]
          /\ pending' = [pending EXCEPT ![n][s] = NoEntry]
      BY <1>5, <2>3 DEF ReceiveAck, Erase
    <3>2. /\ s \in Seqs /\ m \in Msg /\ m \in submitted /\ Src[m] = n /\ seqOf[m] = s
          /\ calls[m] = <<>> /\ sending[n] # m
      BY <1>0, <2>3 DEF OwedInv, PendingOwed, Outstanding
    <3>3. \A k \in Msg : k # m => calls'[k] = calls[k]
      BY <1>0, <3>1
    <3>4. Len(calls'[m]) <= 1
      BY <1>0, <3>1, <3>2
    <3>5. \A k \in Node, t \in Seqs :
            pending'[k][t].msg = IF k = n /\ t = s THEN NoMsg ELSE pending[k][t].msg
      BY <1>0, <3>1, <3>2 DEF NoEntry
    <3>6. PendingOwed'
      <4> SUFFICES ASSUME NEW k \in Node, NEW t \in Seqs, pending'[k][t].msg # NoMsg
                   PROVE  LET j == pending'[k][t].msg IN
                          /\ j \in submitted' \cap Unicast /\ Src[j] = k
                          /\ seqOf'[j] = t /\ calls'[j] = <<>> /\ sending'[k] # j
        BY DEF PendingOwed, Outstanding, Unicast
      <4>1. pending'[k][t].msg = pending[k][t].msg /\ t \in Outstanding(k) /\ ~(k = n /\ t = s)
        BY <3>5 DEF Outstanding
      <4> HIDE DEF s, m
      <4> QED
        BY <1>0, <2>1, <3>2, <3>3, <4>1 DEF OwedInv, PendingOwed, Unicast
    <3>7. SendingOwed'
      BY <1>0, <2>1, <3>2, <3>3 DEF OwedInv, SendingOwed
    <3>8. FreshUncalled'
      BY <1>0, <2>1, <3>2, <3>3 DEF OwedInv, FreshUncalled
    <3>9. CallbackOnce'
      BY <3>3, <3>4 DEF CallbackOnce
    <3> QED
      BY <3>6, <3>7, <3>8, <3>9 DEF OwedInv
  <2> QED
    BY <2>2, <2>3
\* check_timeouts and the end of stop() fail the requests of some entries and
\* clear those entries; every other entry keeps its request.
<1>6. ASSUME NEW n \in Node, NEW L \in SUBSET Outstanding(n),
             UNCHANGED <<submitted, seqOf, sending>>,
             calls' = FailCalls(Requests(n, L)),
             \A k \in Node, s \in Seqs : pending'[k][s].msg =
               IF k = n /\ s \in L THEN NoMsg ELSE pending[k][s].msg
      PROVE  OwedInv' /\ CallbackOnce'
  <2>1. \A m \in Msg : m \notin Requests(n, L) => calls'[m] = calls[m]
    BY <1>6 DEF FailCalls
  <2>2. \A m \in Requests(n, L) :
          /\ m \in Msg /\ m \in submitted /\ Src[m] = n
          /\ seqOf[m] \in L /\ calls[m] = <<>> /\ sending[n] # m
    BY <1>0 DEF Requests, OwedInv, PendingOwed, Unicast
  <2>3. \A m \in Requests(n, L) : Len(calls'[m]) <= 1
    BY <1>0, <1>6, <2>2 DEF FailCalls
  <2>4. PendingOwed'
    BY <1>0, <1>6, <2>1, <2>2 DEF OwedInv, PendingOwed, Outstanding, Unicast
  <2>5. SendingOwed'
    BY <1>0, <1>6, <2>1, <2>2 DEF OwedInv, SendingOwed
  <2>6. FreshUncalled'
    BY <1>0, <1>6, <2>1, <2>2 DEF OwedInv, FreshUncalled
  <2>7. CallbackOnce'
    BY <2>1, <2>3 DEF CallbackOnce
  <2> QED
    BY <2>4, <2>5, <2>6, <2>7 DEF OwedInv
<1>7. ASSUME NEW n \in Node, check_timeouts(n) PROVE OwedInv' /\ CallbackOnce'
  <2>1. PICK E \in SUBSET Expired(n) :
          \E q \in SetToSeqs({s \in E : CanRetry(n, s)}) : TimeoutPass(n, E, q)
    BY <1>7 DEF check_timeouts
  <2> DEFINE L == {s \in E : ~CanRetry(n, s)}
  <2>2. L \in SUBSET Outstanding(n)
    BY DEF Expired
  <2>3. calls' = FailCalls(Requests(n, L))
    BY <2>1 DEF TimeoutPass
  <2>4. \A k \in Node, s \in Seqs : pending'[k][s].msg =
          IF k = n /\ s \in L THEN NoMsg ELSE pending[k][s].msg
    BY <1>0, <2>1 DEF TimeoutPass, Retried, NoEntry
  <2>5. UNCHANGED <<submitted, seqOf, sending>>
    BY <1>7 DEF check_timeouts
  <2> QED
    BY <1>6, <2>2, <2>3, <2>4, <2>5
<1>8. ASSUME NEW n \in Node, StopEnd(n) PROVE OwedInv' /\ CallbackOnce'
  <2>1. \A k \in Node, s \in Seqs : pending'[k][s].msg =
          IF k = n /\ s \in Outstanding(n) THEN NoMsg ELSE pending[k][s].msg
    BY <1>0, <1>8 DEF StopEnd, NoEntry, Outstanding
  <2> QED
    BY <1>6, <1>8, <2>1 DEF StopEnd
<1>9. ASSUME UNCHANGED <<pending, submitted, seqOf, calls, sending>>
      PROVE  OwedInv' /\ CallbackOnce'
  BY <1>9, OwedFrame DEF CallbackOnce
<1>10. ASSUME NEW n \in Node,
              \/ TransmitData(n) \/ TransmitAcks(n) \/ WriteFails(n) \/ IgnoreFrame(n)
              \/ ReceiveDuplicate(n) \/ ReceiveNew(n) \/ Heartbeat(n) \/ StopBegin(n)
       PROVE  UNCHANGED <<pending, submitted, seqOf, calls, sending>>
  BY <1>10 DEF TransmitData, TransmitAcks, WriteFails, IgnoreFrame, ReceiveDuplicate,
               ReceiveNew, TakeFrame, Heartbeat, StopBegin, histVars
<1>11. CASE UNCHANGED vars
  BY <1>9, <1>11 DEF vars, linkVars, histVars
<1> QED
  BY <1>1, <1>2, <1>3, <1>4, <1>5, <1>7, <1>8, <1>9, <1>10, <1>11 DEF Next, Receive

\* A request's callback is called at most once: send_http_reliable, the ACK
\* handler, check_timeouts and stop() never call it a second time.
THEOREM CallbackOnceCorrect == Spec => []CallbackOnce
<1>1. Init => OwedInv /\ CallbackOnce
  BY DEF Init, OwedInv, PendingOwed, SendingOwed, FreshUncalled, Outstanding,
         NoEntry, CallbackOnce
<1>2. TypeOK /\ OwedInv /\ CallbackOnce /\ [Next]_vars => OwedInv' /\ CallbackOnce'
  BY OwedStep
<1> QED
  BY <1>1, <1>2, TypeCorrect, PTL DEF Spec

-----------------------------------------------------------------------------
(* Sequence numbers and frames, while numbers do not wrap *)

\* While a node sends no more requests than there are numbers, each number it
\* uses belongs to one request.
LEMMA SeqStep ==
  ASSUME MaxSends <= MaxSeq, TypeOK, OwedInv, SeqInv, [Next]_vars
  PROVE  SeqInv'
<1> USE MsgAssumption, NumberAssumption
<1>1. ASSUME NEW m \in Msg, Enqueue(m) PROVE SeqInv'
  <2> DEFINE n == Src[m]
  <2>0. /\ n \in Node /\ sent \in [Node -> Nat] /\ nextSeq \in [Node -> Seqs]
        /\ seqOf \in [Msg -> 0..MaxSeq]
    BY DEF TypeOK
  <2>1. /\ sent[n] < MaxSends /\ sent' = [sent EXCEPT ![n] = @ + 1]
        /\ seqOf' = [seqOf EXCEPT ![m] = nextSeq[n]]
        /\ nextSeq' = [nextSeq EXCEPT ![n] = SeqAfter(@)]
    BY <1>1 DEF Enqueue
  <2>2. nextSeq[n] = sent[n] + 1
    BY <2>0, <2>1 DEF SeqInv
  <2> HIDE DEF n
  <2>3. \A k \in Node : sent'[k] <= MaxSends /\ (sent'[k] < MaxSeq => nextSeq'[k] = sent'[k] + 1)
    BY <2>0, <2>1, <2>2 DEF SeqInv, SeqAfter
  <2>4. \A k \in Msg : seqOf[k] <= sent[Src[k]] /\ Src[k] \in Node
    BY DEF SeqInv
  <2>5. \A k \in Msg : k # m => seqOf'[k] = seqOf[k]
    BY <2>0, <2>1
  <2>6. seqOf'[m] = sent[n] + 1 /\ n = Src[m]
    BY <2>0, <2>1, <2>2 DEF n
  <2>7. \A k \in Msg : seqOf'[k] <= sent'[Src[k]]
    BY <2>0, <2>1, <2>4, <2>5, <2>6
  <2>8. \A k \in Msg : k # m /\ Src[k] = n => seqOf'[k] # seqOf'[m]
    BY <2>0, <2>4, <2>5, <2>6
  <2>9. \A m1, m2 \in Msg :
          Src[m1] = Src[m2] /\ seqOf'[m1] = seqOf'[m2] /\ seqOf'[m1] # 0 => m1 = m2
    BY <2>5, <2>6, <2>8 DEF SeqInv
  <2> QED
    BY <2>3, <2>7, <2>9 DEF SeqInv
<1>2. ASSUME UNCHANGED <<sent, nextSeq, seqOf>> PROVE SeqInv'
  BY <1>2 DEF SeqInv
<1>3. CASE Tick \/ \E m \in Msg : Refuse(m)
  BY <1>2, <1>3 DEF Tick, Refuse, linkVars
<1>4. ASSUME NEW n \in Node,
             \/ Track(n) \/ TransmitData(n) \/ TransmitAcks(n) \/ WriteFails(n)
             \/ Receive(n) \/ check_timeouts(n) \/ Heartbeat(n)
             \/ StopBegin(n) \/ StopEnd(n)
      PROVE  UNCHANGED <<sent, nextSeq, seqOf>>
  BY <1>4 DEF Track, TransmitData, TransmitAcks, WriteFails, Receive, IgnoreFrame,
              ReceiveAck, ReceiveDuplicate, ReceiveNew, TakeFrame, check_timeouts,
              Heartbeat, StopBegin, StopEnd, histVars
<1>5. CASE UNCHANGED vars
  BY <1>2, <1>5 DEF vars, linkVars, histVars
<1> QED
  BY <1>1, <1>2, <1>3, <1>4, <1>5 DEF Next

\* Requests stay submitted, keep their numbers, and deliveries only add up.
HistoryGrows ==
  /\ submitted \subseteq submitted'
  /\ \A m \in submitted : seqOf'[m] = seqOf[m]
  /\ \A m \in Msg, n \in Node : delivered'[m][n] >= delivered[m][n]

LEMMA HistoryStep ==
  ASSUME TypeOK, [Next]_vars
  PROVE  HistoryGrows
<1>0. /\ delivered \in [Msg -> [Node -> Nat]] /\ seqOf \in [Msg -> 0..MaxSeq]
      /\ submitted \in SUBSET Msg
  BY DEF TypeOK
<1>1. ASSUME NEW m \in Msg, Refuse(m) \/ Enqueue(m) PROVE HistoryGrows
  <2>1. delivered' = delivered /\ submitted' = submitted \cup {m} /\ m \notin submitted
    BY <1>1 DEF Refuse, Enqueue
  <2>2. \A k \in submitted : seqOf'[k] = seqOf[k]
    BY <1>0, <1>1, <2>1 DEF Refuse, Enqueue
  <2> QED
    BY <1>0, <2>1, <2>2 DEF HistoryGrows
<1>2. ASSUME NEW n \in Node, ReceiveNew(n) PROVE HistoryGrows
  <2>1. \A m \in Msg, k \in Node : delivered'[m][k] >= delivered[m][k]
    <3>1. delivered' \in {delivered, [delivered EXCEPT ![Head(rx[n]).msg][n] = @ + 1]}
      BY <1>2 DEF ReceiveNew
    <3> QED
      BY <1>0, <3>1
  <2> QED
    BY <1>2, <2>1 DEF HistoryGrows, ReceiveNew, TakeFrame
<1>3. ASSUME UNCHANGED <<submitted, seqOf, delivered>> PROVE HistoryGrows
  BY <1>0, <1>3 DEF HistoryGrows
<1>4. CASE Tick
  BY <1>3, <1>4 DEF Tick
<1>5. ASSUME NEW n \in Node,
             \/ Track(n) \/ TransmitData(n) \/ TransmitAcks(n) \/ WriteFails(n)
             \/ IgnoreFrame(n) \/ ReceiveAck(n) \/ ReceiveDuplicate(n)
             \/ check_timeouts(n) \/ Heartbeat(n) \/ StopBegin(n) \/ StopEnd(n)
      PROVE  UNCHANGED <<submitted, seqOf, delivered>>
  BY <1>5 DEF Track, TransmitData, TransmitAcks, WriteFails, IgnoreFrame, ReceiveAck,
              ReceiveDuplicate, TakeFrame, check_timeouts, Heartbeat, StopBegin,
              StopEnd, histVars
<1>6. CASE UNCHANGED vars
  BY <1>3, <1>6 DEF vars, histVars
<1> QED
  BY <1>1, <1>2, <1>3, <1>4, <1>5, <1>6 DEF Next, Receive

\* What a frame says stays true.
LEMMA SoundStable ==
  ASSUME TypeOK, TypeOK', HistoryGrows, NEW f \in Frame, SoundFrame(f)
  PROVE  SoundFrame(f)'
<1>0. /\ submitted \in SUBSET Msg /\ delivered \in [Msg -> [Node -> Nat]]
      /\ delivered' \in [Msg -> [Node -> Nat]]
  BY DEF TypeOK
<1>1. ASSUME f.type = "DATA"
      PROVE  f.msg \in submitted' /\ f = DataFrame(f.msg, seqOf'[f.msg])
  BY <1>1 DEF SoundFrame, HistoryGrows
<1>2. ASSUME f.type = "ACK" PROVE SoundAck(f)'
  <2>1. PICK m \in submitted \cap Unicast :
          /\ Src[m] = f.dst /\ Dst[m] = f.src /\ seqOf[m] = f.seq
          /\ delivered[m][Dst[m]] > 0
    BY <1>2 DEF SoundFrame, SoundAck
  <2>2. m \in Msg /\ Dst[m] \in Node
    BY <1>0, <2>1, MsgAssumption DEF Unicast
  <2>3. m \in submitted' /\ seqOf'[m] = f.seq
    BY <2>1 DEF HistoryGrows
  <2>4. delivered'[m][Dst[m]] > 0
    <3>1. delivered'[m][Dst[m]] >= delivered[m][Dst[m]]
      BY <2>2 DEF HistoryGrows
    <3> QED
      BY <1>0, <2>1, <2>2, <3>1
  <2> QED
    BY <2>1, <2>3, <2>4 DEF SoundAck, Unicast
<1> QED
  BY <1>1, <1>2 DEF SoundFrame

\* Frames are queued, transmitted, lost and received without becoming untrue.
LEMMA FrameStep ==
  ASSUME TypeOK, TypeOK', OwedInv, FrameInv, [Next]_vars
  PROVE  FrameInv'
<1> DEFINE Sound(q) == \A f \in Range(q) : SoundFrame(f)'
           Was(q) == \A f \in Range(q) : SoundFrame(f)
<1>0. /\ sendQueue \in [Node -> Seq(Frame)] /\ ackQueue \in [Node -> Seq(Frame)]
      /\ rx \in [Node -> Seq(Frame)] /\ submitted \in SUBSET Msg
      /\ sendQueue' \in [Node -> Seq(Frame)] /\ ackQueue' \in [Node -> Seq(Frame)]
      /\ rx' \in [Node -> Seq(Frame)]
  BY DEF TypeOK
<1>1. ASSUME NEW q \in Seq(Frame), Was(q) PROVE Sound(q)
  <2>1. \A f \in Range(q) : f \in Frame
    BY DEF Range
  <2> QED
    BY <1>1, <2>1, HistoryStep, SoundStable
<1>2. \A n \in Node : Sound(sendQueue[n]) /\ Sound(ackQueue[n]) /\ Sound(rx[n])
  BY <1>0, <1>1 DEF FrameInv
<1>3. SUFFICES \A n \in Node : Sound(sendQueue'[n]) /\ Sound(ackQueue'[n]) /\ Sound(rx'[n])
  BY DEF FrameInv
<1> HIDE DEF Sound, Was
<1>app. ASSUME NEW q \in Seq(Frame), NEW f \in Frame, Sound(q), SoundFrame(f)'
        PROVE  Sound(Append(q, f))
  BY <1>app, RangeAppend DEF Sound
<1>cat. ASSUME NEW q \in Seq(Frame), NEW r \in Seq(Frame), Sound(q), Sound(r)
        PROVE  Sound(q \o r)
  BY <1>cat, RangeConcat DEF Sound
<1>emp. Sound(<<>>)
  BY DEF Sound, Range
<1>4. ASSUME NEW m \in Msg, Enqueue(m)
      PROVE  \A n \in Node : Sound(sendQueue'[n]) /\ Sound(ackQueue'[n]) /\ Sound(rx'[n])
  <2>1. PICK f \in Frame : f = DataFrame(m, nextSeq[Src[m]])
    BY FrameTypes, MsgAssumption DEF TypeOK
  <2>2. SoundFrame(f)'
    <3>1. m \in submitted' /\ seqOf'[m] = nextSeq[Src[m]]
      BY <1>4 DEF Enqueue, TypeOK
    <3> QED
      BY <2>1, <3>1 DEF SoundFrame, DataFrame
  <2>3. Sound(Append(sendQueue[Src[m]], f))
    BY <1>0, <1>2, <1>app, <2>1, <2>2, MsgAssumption
  <2> QED
    BY <1>0, <1>2, <1>4, <2>1, <2>3, MsgAssumption DEF Enqueue
<1>5. ASSUME NEW n \in Node, NEW q \in Seq(Frame), Sound(q)
      PROVE  \A k \in Node : Sound(Broadcasted(n, q)[k])
  BY <1>0, <1>2, <1>5, <1>cat DEF Broadcasted
<1>6. ASSUME NEW n \in Node, TransmitData(n) \/ TransmitAcks(n)
      PROVE  \A k \in Node : Sound(sendQueue'[k]) /\ Sound(ackQueue'[k]) /\ Sound(rx'[k])
  <2>1. \A k \in Node : Sound(rx'[k])
    BY <1>0, <1>2, <1>5, <1>6 DEF TransmitData, TransmitAcks
  <2>2. \A k \in Node : Sound(sendQueue'[k]) /\ Sound(ackQueue'[k])
    BY <1>0, <1>2, <1>6, <1>emp DEF TransmitData, TransmitAcks
  <2> QED
    BY <2>1, <2>2
<1>7. ASSUME NEW n \in Node, WriteFails(n)
      PROVE  \A k \in Node : Sound(sendQueue'[k]) /\ Sound(ackQueue'[k]) /\ Sound(rx'[k])
  <2>1. ASSUME NEW q \in Seq(Frame), Sound(q), NEW r \in Without(q) PROVE Sound(r)
    BY <2>1, RangeWithout DEF Sound
  <2> QED
    BY <1>0, <1>2, <1>7, <2>1 DEF WriteFails
<1>8. ASSUME NEW n \in Node, TakeFrame(n)
      PROVE  /\ \A k \in Node : Sound(sendQueue'[k]) /\ Sound(rx'[k])
             /\ Head(rx[n]) \in Frame /\ SoundFrame(Head(rx[n]))
  <2>1. rx[n] # <<>> /\ rx[n] \in Seq(Frame)
    BY <1>0, <1>8 DEF TakeFrame
  <2>2. Sound(Tail(rx[n]))
    BY <1>2, <2>1, RangeTail DEF Sound
  <2>3. Head(rx[n]) \in Frame /\ SoundFrame(Head(rx[n]))
    BY <2>1, RangeTail DEF FrameInv
  <2> QED
    BY <1>0, <1>2, <1>8, <2>2, <2>3 DEF TakeFrame
<1>9. ASSUME NEW n \in Node, ReceiveNew(n)
      PROVE  \A k \in Node : Sound(ackQueue'[k])
  <2>a. PICK f \in Frame : f = Head(rx[n]) /\ SoundFrame(f)
    BY <1>8, <1>9 DEF ReceiveNew
  <2> DEFINE a == AckFrame(n, f)
  <2>1. f \in Frame /\ SoundFrame(f) /\ a \in Frame
    BY <2>a, FrameTypes
  <2>2. CASE f.dst # Broadcast /\ f.type # "HBT"
    <3>1. f.type = "DATA" /\ f.dst = n
      BY <1>9, <2>a, <2>2 DEF ReceiveNew, ForMe, Frame
    <3>2. f.msg \in submitted /\ f = DataFrame(f.msg, seqOf[f.msg])
      BY <2>1, <3>1 DEF SoundFrame
    <3>3. Src[f.msg] = f.src /\ Dst[f.msg] = n /\ seqOf[f.msg] = f.seq
      BY <3>1, <3>2 DEF DataFrame
    <3>4. submitted' = submitted /\ seqOf' = seqOf
      BY <1>9 DEF ReceiveNew, TakeFrame
    <3>5. delivered'[f.msg][n] > 0
      <4>1. /\ delivered \in [Msg -> [Node -> Nat]] /\ f.msg \in Msg
            /\ delivered' = [delivered EXCEPT ![f.msg][n] = @ + 1]
        BY <1>0, <1>9, <2>a, <3>1, <3>2 DEF ReceiveNew, TypeOK
      <4>2. delivered'[f.msg][n] = delivered[f.msg][n] + 1 /\ delivered[f.msg][n] \in Nat
        BY <4>1
      <4> QED
        BY <4>2
    <3>6. f.msg \in Unicast
      BY <1>0, <2>2, <3>1, <3>2, <3>3 DEF Unicast
    <3>7. SoundAck(a)'
      BY <3>2, <3>3, <3>4, <3>5, <3>6 DEF SoundAck, AckFrame, Unicast
    <3>8. SoundFrame(a)'
      BY <3>7 DEF SoundFrame, AckFrame
    <3>9. ackQueue' = [ackQueue EXCEPT ![n] = Append(@, a)]
      BY <1>9, <2>a, <2>2 DEF ReceiveNew
    <3> QED
      BY <1>0, <1>2, <1>app, <2>1, <3>8, <3>9
  <2>3. CASE ~(f.dst # Broadcast /\ f.type # "HBT")
    BY <1>2, <1>9, <2>a, <2>3 DEF ReceiveNew
  <2> QED
    BY <2>2, <2>3
<1>10. ASSUME NEW n \in Node, Receive(n)
       PROVE  \A k \in Node : Sound(sendQueue'[k]) /\ Sound(ackQueue'[k]) /\ Sound(rx'[k])
  <2>1. TakeFrame(n)
    BY <1>10 DEF Receive, IgnoreFrame, ReceiveAck, ReceiveDuplicate, ReceiveNew
  <2>2. ReceiveNew(n) \/ ackQueue' = ackQueue
    BY <1>10 DEF Receive, IgnoreFrame, ReceiveAck, ReceiveDuplicate
  <2> QED
    BY <1>2, <1>8, <1>9, <2>1, <2>2
<1>11. ASSUME NEW n \in Node, check_timeouts(n)
       PROVE  \A k \in Node : Sound(sendQueue'[k]) /\ Sound(ackQueue'[k]) /\ Sound(rx'[k])
  <2>1. PICK E \in SUBSET Expired(n) :
          \E q \in SetToSeqs({s \in E : CanRetry(n, s)}) : TimeoutPass(n, E, q)
    BY <1>11 DEF check_timeouts
  <2>2. E \subseteq Seqs
    BY DEF Expired, Outstanding
  <2>3. PICK q \in SetToSeqs({s \in E : CanRetry(n, s)}) : TimeoutPass(n, E, q)
    BY <2>1
  <2>4. q \in Seq(Seqs) /\ \A i \in DOMAIN q : q[i] \in Seqs /\ q[i] \in E
    BY <2>2, OrderOfSeqs
  <2> DEFINE r == [i \in DOMAIN q |-> DataFrame(pending[n][q[i]].msg, q[i])]
  <2>5. \A s \in E : /\ pending[n][s].msg \in Msg /\ pending[n][s].msg \in submitted
                     /\ seqOf[pending[n][s].msg] = s
    BY <1>0 DEF Expired, OwedInv, PendingOwed
  <2>6. r \in Seq(Frame)
    BY <2>4, <2>5, FrameTypes
  <2>7. \A i \in DOMAIN q : SoundFrame(DataFrame(pending[n][q[i]].msg, q[i]))
    BY <2>4, <2>5 DEF SoundFrame, DataFrame
  <2>8. Was(r)
    BY <2>7 DEF Was, Range
  <2>9. Sound(r)
    BY <1>1, <2>6, <2>8
  <2>10. sendQueue' = [sendQueue EXCEPT ![n] = @ \o r]
    BY <2>3 DEF TimeoutPass
  <2> HIDE DEF r
  <2>11. \A k \in Node : Sound(sendQueue'[k])
    BY <1>0, <1>2, <1>cat, <2>6, <2>9, <2>10
  <2> QED
    BY <1>2, <1>11, <2>11 DEF check_timeouts
<1>12. ASSUME NEW n \in Node, Heartbeat(n)
       PROVE  \A k \in Node : Sound(sendQueue'[k]) /\ Sound(ackQueue'[k]) /\ Sound(rx'[k])
  <2>1. HeartbeatFrame(n) \in Frame /\ SoundFrame(HeartbeatFrame(n))'
    BY FrameTypes DEF SoundFrame, HeartbeatFrame
  <2>2. Sound(Append(sendQueue[n], HeartbeatFrame(n)))
    BY <1>0, <1>2, <1>app, <2>1
  <2> QED
    BY <1>0, <1>2, <1>12, <2>2 DEF Heartbeat
<1>13. CASE UNCHANGED <<sendQueue, ackQueue, rx>>
  BY <1>2, <1>13
<1>14. CASE Tick \/ (\E m \in Msg : Refuse(m)) \/ UNCHANGED vars
  BY <1>13, <1>14 DEF Tick, Refuse, vars, linkVars
<1>15. ASSUME NEW n \in Node, Track(n) \/ StopBegin(n) \/ StopEnd(n)
       PROVE  UNCHANGED <<sendQueue, ackQueue, rx>>
  BY <1>15 DEF Track, StopBegin, StopEnd
<1> QED
  BY <1>4, <1>6, <1>7, <1>10, <1>11, <1>12, <1>13, <1>14, <1>15 DEF Next

-----------------------------------------------------------------------------
(* The link keeps the promise of send_http_reliable *)

\* The entry an ACK is matched with belongs to a request that was delivered.
LEMMA AckMeansDelivered ==
  ASSUME TypeOK, OwedInv, SeqInv, FrameInv, NEW n \in Node, ReceiveAck(n),
         Head(rx[n]).seq \in Outstanding(n), NEW m, m = pending[n][Head(rx[n]).seq].msg
  PROVE  /\ m \in Msg /\ m \in submitted /\ calls[m] = <<>>
         /\ delivered[m][Dst[m]] > 0
<1> DEFINE f == Head(rx[n])
<1>1. /\ m \in Msg /\ m \in submitted /\ Src[m] = n /\ seqOf[m] = f.seq
      /\ calls[m] = <<>>
  BY DEF OwedInv, PendingOwed, Unicast
<1>2. rx[n] \in Seq(Frame) /\ rx[n] # <<>>
  BY DEF ReceiveAck, TakeFrame, TypeOK
<1>3. SoundAck(f) /\ f.dst \in {n, Broadcast}
  BY <1>2, RangeTail DEF FrameInv, SoundFrame, ReceiveAck, ForMe
<1>4. PICK k \in submitted \cap Unicast :
        /\ Src[k] = f.dst /\ seqOf[k] = f.seq /\ delivered[k][Dst[k]] > 0
  BY <1>3 DEF SoundAck
<1>5. k \in Msg /\ Src[k] = n
  BY <1>3, <1>4, NodeAssumption, MsgAssumption DEF Unicast
<1>6. f.seq \in Seqs
  BY DEF Outstanding
<1>7. f.seq # 0
  BY <1>6, NumberAssumption DEF Seqs
<1>8. k = m
  BY <1>1, <1>4, <1>5, <1>7 DEF SeqInv
<1> QED
  BY <1>1, <1>4, <1>8

\* Every step of the link is a step of ReliableSend or leaves its state alone.
LEMMA PromiseStep ==
  ASSUME TypeOK, OwedInv, SeqInv, FrameInv, [Next]_vars
  PROVE  [Promise!Next]_(Promise!vars)
<1> USE MsgAssumption
<1>0. /\ calls \in [Msg -> Seq({"ok", "failed"})] /\ submitted \in SUBSET Msg
      /\ sending \in [Node -> Msg \cup {NoMsg}] /\ rx \in [Node -> Seq(Frame)]
  BY DEF TypeOK
<1>1. ASSUME NEW m \in Msg, Refuse(m) PROVE Promise!Refuse(m)
  BY <1>1 DEF Refuse, Promise!Refuse
<1>2. ASSUME NEW m \in Msg, Enqueue(m) PROVE Promise!Submit(m)
  BY <1>2 DEF Enqueue, Promise!Submit
<1>3. ASSUME UNCHANGED <<submitted, calls, delivered>> PROVE UNCHANGED Promise!vars
  BY <1>3 DEF Promise!vars
<1>4. ASSUME NEW n \in Node, Track(n)
      PROVE  (\E m \in Msg : Promise!Succeed(m)) \/ UNCHANGED <<submitted, calls, delivered>>
  <2>1. PICK m \in Msg : m = sending[n]
    BY <1>0, <1>4 DEF Track
  <2>2. m \in submitted /\ calls[m] = <<>>
    BY <2>1 DEF OwedInv, SendingOwed
  <2>3. CASE Dst[m] # Broadcast
    BY <1>4, <2>1, <2>3 DEF Track
  <2>4. CASE Dst[m] = Broadcast
    <3>1. Promise!Succeed(m)
      BY <1>4, <2>1, <2>2, <2>4 DEF Track, Promise!Succeed, Promise!Open
    <3> QED
      BY <3>1
  <2> QED
    BY <2>3, <2>4
<1>5. ASSUME NEW n \in Node, ReceiveAck(n)
      PROVE  (\E m \in Msg : Promise!Succeed(m)) \/ UNCHANGED <<submitted, calls, delivered>>
  <2>1. UNCHANGED <<submitted, delivered>>
    BY <1>5 DEF ReceiveAck, TakeFrame
  <2>2. CASE Head(rx[n]).seq \notin Outstanding(n)
    BY <1>5, <2>1, <2>2 DEF ReceiveAck
  <2>3. CASE Head(rx[n]).seq \in Outstanding(n)
    <3>1. PICK m : m = pending[n][Head(rx[n]).seq].msg
      OBVIOUS
    <3>2. m \in Msg /\ m \in submitted /\ calls[m] = <<>> /\ delivered[m][Dst[m]] > 0
      BY <1>5, <2>3, <3>1, AckMeansDelivered
    <3>3. calls' = [calls EXCEPT ![m] = Append(@, "ok")]
      BY <1>5, <2>3, <3>1 DEF ReceiveAck
    <3>4. Promise!Succeed(m)
      BY <2>1, <3>2, <3>3 DEF Promise!Succeed, Promise!Open
    <3> QED
      BY <3>2, <3>4
  <2> QED
    BY <2>2, <2>3
<1>6. ASSUME NEW n \in Node, ReceiveNew(n)
      PROVE  (\E m \in Msg : Promise!Deliver(m, n)) \/ UNCHANGED <<submitted, calls, delivered>>
  <2>1. PICK f : f = Head(rx[n])
    OBVIOUS
  <2>2. UNCHANGED <<submitted, calls>> /\ f.dst \in {n, Broadcast}
    BY <1>6, <2>1 DEF ReceiveNew, TakeFrame, ForMe
  <2>3. CASE f.type # "DATA"
    BY <1>6, <2>1, <2>2, <2>3 DEF ReceiveNew
  <2>4. CASE f.type = "DATA"
    <3>1. SoundFrame(f)
      BY <1>0, <1>6, <2>1, RangeTail DEF FrameInv, ReceiveNew, TakeFrame
    <3>2. f.msg \in submitted /\ f = DataFrame(f.msg, seqOf[f.msg])
      BY <2>4, <3>1 DEF SoundFrame
    <3>3. Dst[f.msg] = f.dst
      BY <3>2 DEF DataFrame
    <3>4. delivered' = [delivered EXCEPT ![f.msg][n] = @ + 1]
      BY <1>6, <2>1, <2>4 DEF ReceiveNew
    <3>5. Promise!Deliver(f.msg, n)
      BY <2>2, <3>2, <3>3, <3>4 DEF Promise!Deliver
    <3> QED
      BY <1>0, <3>2, <3>5
  <2> QED
    BY <2>3, <2>4
<1>7. ASSUME NEW n \in Node, NEW L \in SUBSET Outstanding(n),
             UNCHANGED <<submitted, delivered>>, calls' = FailCalls(Requests(n, L))
      PROVE  (\E S \in SUBSET Msg : Promise!Fail(S)) \/ UNCHANGED <<submitted, calls, delivered>>
  <2>1. PICK S : S = Requests(n, L)
    OBVIOUS
  <2>2. S \subseteq Promise!Open /\ S \subseteq Msg
    BY <1>0, <2>1 DEF Requests, OwedInv, PendingOwed, Promise!Open, Unicast
  <2>3. CASE S = {}
    BY <1>0, <1>7, <2>1, <2>3 DEF FailCalls
  <2>4. CASE S # {}
    BY <1>7, <2>1, <2>2, <2>4 DEF FailCalls, Promise!Fail
  <2> QED
    BY <2>3, <2>4
<1>8. ASSUME NEW n \in Node, check_timeouts(n)
      PROVE  (\E S \in SUBSET Msg : Promise!Fail(S)) \/ UNCHANGED <<submitted, calls, delivered>>
  <2>1. PICK E \in SUBSET Expired(n) :
          \E q \in SetToSeqs({s \in E : CanRetry(n, s)}) : TimeoutPass(n, E, q)
    BY <1>8 DEF check_timeouts
  <2>2. {s \in E : ~CanRetry(n, s)} \in SUBSET Outstanding(n)
    BY DEF Expired
  <2>3. /\ calls' = FailCalls(Requests(n, {s \in E : ~CanRetry(n, s)}))
        /\ UNCHANGED <<submitted, delivered>>
    BY <1>8, <2>1 DEF check_timeouts, TimeoutPass
  <2> QED
    BY <1>7, <2>2, <2>3
<1>9. ASSUME NEW n \in Node, StopEnd(n)
      PROVE  (\E S \in SUBSET Msg : Promise!Fail(S)) \/ UNCHANGED <<submitted, calls, delivered>>
  BY <1>7, <1>9 DEF StopEnd
<1>10. CASE Tick \/ UNCHANGED vars
  BY <1>3, <1>10 DEF Tick, vars, histVars
<1>11. ASSUME NEW n \in Node,
              \/ TransmitData(n) \/ TransmitAcks(n) \/ WriteFails(n) \/ IgnoreFrame(n)
              \/ ReceiveDuplicate(n) \/ Heartbeat(n) \/ StopBegin(n)
       PROVE  UNCHANGED <<submitted, calls, delivered>>
  BY <1>11 DEF TransmitData, TransmitAcks, WriteFails, IgnoreFrame, ReceiveDuplicate,
               TakeFrame, Heartbeat, StopBegin, histVars
<1> QED
  BY <1>1, <1>2, <1>3, <1>4, <1>5, <1>6, <1>8, <1>9, <1>10, <1>11
     DEF Next, Receive, Promise!Next

\* As long as a node sends no more requests than there are sequence numbers,
\* the invariants that relate requests, numbers and frames hold.
LEMMA LinkInvariant ==
  ASSUME MaxSends <= MaxSeq
  PROVE  Spec => [](OwedInv /\ SeqInv /\ FrameInv)
<1>1. Init => OwedInv /\ CallbackOnce /\ SeqInv /\ FrameInv
  <2>1. Init => OwedInv /\ CallbackOnce
    BY DEF Init, OwedInv, PendingOwed, SendingOwed, FreshUncalled, Outstanding,
           NoEntry, CallbackOnce
  <2>2. Init => SeqInv
    BY MsgAssumption, NumberAssumption DEF Init, SeqInv
  <2>3. Init => FrameInv
    BY DEF Init, FrameInv, Range
  <2> QED
    BY <2>1, <2>2, <2>3
<1>2. TypeOK /\ TypeOK' /\ OwedInv /\ CallbackOnce /\ SeqInv /\ FrameInv /\ [Next]_vars
        => OwedInv' /\ CallbackOnce' /\ SeqInv' /\ FrameInv'
  BY OwedStep, SeqStep, FrameStep
<1> QED
  BY <1>1, <1>2, TypeCorrect, PTL DEF Spec

\* Uwb::Handle implements ReliableSend as long as its uint8_t sequence numbers
\* do not wrap: retransmission, loss, duplicated frames, heartbeats, missed
\* slots and stop() never make it report a delivery that did not happen, call
\* a callback twice or deliver a request nobody submitted.
THEOREM LinkImplementsPromise ==
  ASSUME MaxSends <= MaxSeq
  PROVE  Spec => PromiseSpec
<1>1. Init => Promise!Init
  BY DEF Init, Promise!Init
<1>2. TypeOK /\ OwedInv /\ SeqInv /\ FrameInv /\ [Next]_vars => [Promise!Next]_(Promise!vars)
  BY PromiseStep
<1> QED
  BY <1>1, <1>2, TypeCorrect, LinkInvariant, PTL DEF Spec, PromiseSpec, Promise!Spec

\* A step of the promise never reports an early success.
LEMMA SuccessStep ==
  ASSUME TypeOK, TypeOK', SuccessMeansDelivered, [Promise!Next]_(Promise!vars)
  PROVE  SuccessMeansDelivered'
<1> USE MsgAssumption
<1>0. /\ calls \in [Msg -> Seq({"ok", "failed"})] /\ delivered \in [Msg -> [Node -> Nat]]
      /\ delivered' \in [Msg -> [Node -> Nat]]
  BY DEF TypeOK
<1>1. SUFFICES ASSUME NEW m \in Unicast, calls'[m] = <<"ok">>
               PROVE  delivered'[m][Dst[m]] > 0
  BY DEF SuccessMeansDelivered, Unicast
<1>2. m \in Msg /\ Dst[m] \in Node
  BY DEF Unicast
<1>3. Append(calls[m], "failed") # calls'[m]
  <2>1. calls[m] \in Seq({"ok", "failed"})
    BY <1>0, <1>2
  <2>2. SUFFICES ASSUME Append(calls[m], "failed") = <<"ok">> PROVE FALSE
    BY <1>1
  <2>3. Len(calls[m]) + 1 = 1
    BY <2>1, <2>2
  <2>4. Append(calls[m], "failed")[1] = "failed"
    BY <2>1, <2>3
  <2>5. <<"ok">>[1] = "ok" /\ "ok" # "failed"
    OBVIOUS
  <2> QED
    BY <2>2, <2>4, <2>5
<1>4. CASE UNCHANGED <<calls, delivered>>
  BY <1>1, <1>4 DEF SuccessMeansDelivered
<1>5. ASSUME NEW k \in Msg, Promise!Refuse(k) PROVE calls[m] = calls'[m] /\ delivered' = delivered
  BY <1>0, <1>2, <1>3, <1>5 DEF Promise!Refuse
<1>6. ASSUME NEW S \in SUBSET Msg, Promise!Fail(S)
      PROVE  calls[m] = calls'[m] /\ delivered' = delivered
  BY <1>0, <1>2, <1>3, <1>6 DEF Promise!Fail
<1>7. ASSUME NEW k \in Msg, Promise!Succeed(k) PROVE delivered'[m][Dst[m]] > 0
  <2>1. CASE k = m
    BY <1>2, <1>7, <2>1 DEF Promise!Succeed, Unicast
  <2>2. CASE k # m
    <3>1. calls'[m] = calls[m] /\ delivered' = delivered
      BY <1>0, <1>2, <1>7, <2>2 DEF Promise!Succeed
    <3> QED
      BY <1>1, <3>1 DEF SuccessMeansDelivered
  <2> QED
    BY <2>1, <2>2
<1>8. ASSUME NEW k \in Msg, NEW n \in Node, Promise!Deliver(k, n)
      PROVE  delivered'[m][Dst[m]] > 0
  <2>1. calls'[m] = calls[m] /\ delivered' = [delivered EXCEPT ![k][n] = @ + 1]
    BY <1>8 DEF Promise!Deliver
  <2>2. delivered[m][Dst[m]] > 0
    BY <1>1, <2>1 DEF SuccessMeansDelivered
  <2>3. delivered'[m][Dst[m]] >= delivered[m][Dst[m]]
    BY <1>0, <1>2, <2>1
  <2> QED
    BY <1>0, <1>2, <2>2, <2>3
<1>9. ASSUME NEW k \in Msg, Promise!Submit(k) PROVE UNCHANGED <<calls, delivered>>
  BY <1>9 DEF Promise!Submit
<1>10. CASE UNCHANGED Promise!vars
  BY <1>4, <1>10 DEF Promise!vars
<1>11. ASSUME calls[m] = calls'[m], delivered' = delivered PROVE delivered'[m][Dst[m]] > 0
  BY <1>1, <1>11 DEF SuccessMeansDelivered
<1> QED
  BY <1>4, <1>5, <1>6, <1>7, <1>8, <1>9, <1>10, <1>11 DEF Promise!Next

\* callback(true) for a unicast request implies that the destination's router
\* has been given the request, while sequence numbers do not wrap.
THEOREM SuccessCorrect ==
  ASSUME MaxSends <= MaxSeq
  PROVE  Spec => []SuccessMeansDelivered
<1>1. Init => SuccessMeansDelivered
  <2>1. ASSUME Init, NEW m \in Unicast PROVE calls[m] # <<"ok">>
    BY <2>1 DEF Init, Unicast
  <2> QED
    BY <2>1 DEF SuccessMeansDelivered
<1>2. TypeOK /\ TypeOK' /\ SuccessMeansDelivered /\ [Promise!Next]_(Promise!vars)
        => SuccessMeansDelivered'
  BY SuccessStep
<1>3. Spec => [][Promise!Next]_(Promise!vars)
  BY LinkImplementsPromise, PTL DEF PromiseSpec, Promise!Spec
<1> QED
  BY <1>1, <1>2, <1>3, TypeCorrect, PTL DEF Spec

-----------------------------------------------------------------------------
(* No request is forgotten *)

\* A callback that was called stays called.
LEMMA CalledIsNotEmpty ==
  ASSUME NEW c \in Seq({"ok", "failed"}), NEW e
  PROVE  Append(c, e) # <<>>
<1>1. Len(c) \in Nat /\ Len(Append(c, e)) = Len(c) + 1 /\ Len(<<>>) = 0
  OBVIOUS
<1> QED BY <1>1

\* A step that fails the requests of some entries, clears those entries and
\* keeps the request of every other entry forgets nobody.
LEMMA ClearedIsCalled ==
  ASSUME TypeOK, OwedIsTracked, NEW n \in Node, NEW L \in SUBSET Outstanding(n),
         UNCHANGED <<submitted, sending>>,
         calls' = FailCalls(Requests(n, L)),
         \A k \in Node, s \in Seqs : pending'[k][s].msg =
           IF k = n /\ s \in L THEN NoMsg ELSE pending[k][s].msg
  PROVE  OwedIsTracked'
<1> USE MsgAssumption
<1>0. calls \in [Msg -> Seq({"ok", "failed"})] /\ submitted \subseteq Msg
  BY DEF TypeOK
<1> SUFFICES ASSUME NEW m \in submitted' \cap Unicast, calls'[m] = <<>>
             PROVE  sending'[Src[m]] = m \/ \E s \in Seqs : pending'[Src[m]][s].msg = m
  BY DEF OwedIsTracked, Unicast
<1>1. m \in submitted /\ m \in Msg /\ Src[m] \in Node /\ calls[m] \in Seq({"ok", "failed"})
  BY <1>0
<1>2. m \notin Requests(n, L) /\ calls[m] = <<>>
  <2>1. Append(calls[m], "failed") # <<>>
    BY <1>1, CalledIsNotEmpty
  <2> QED BY <1>1, <2>1 DEF FailCalls
<1>3. CASE sending[Src[m]] = m
  BY <1>3
<1>4. ASSUME NEW s \in Seqs, pending[Src[m]][s].msg = m
      PROVE  pending'[Src[m]][s].msg = m
  <2>1. ~(Src[m] = n /\ s \in L)
    BY <1>2, <1>4 DEF Requests
  <2> QED BY <1>1, <1>4, <2>1
<1> QED
  BY <1>1, <1>2, <1>3, <1>4 DEF OwedIsTracked

LEMMA TrackedStep ==
  ASSUME TypeOK, OwedInv, SeqInv, OwedIsTracked, [Next]_vars
  PROVE  OwedIsTracked'
<1> USE MsgAssumption
<1>0. /\ pending \in [Node -> [Seqs -> Entry]] /\ sending \in [Node -> Msg \cup {NoMsg}]
      /\ submitted \in SUBSET Msg /\ calls \in [Msg -> Seq({"ok", "failed"})]
      /\ seqOf \in [Msg -> 0..MaxSeq]
  BY DEF TypeOK
<1> DEFINE Tracked(m) == \/ sending[Src[m]] = m
                         \/ \E s \in Seqs : pending[Src[m]][s].msg = m
<1>1. ASSUME UNCHANGED <<submitted, calls, sending>>,
             \A n \in Node, s \in Seqs : pending'[n][s].msg = pending[n][s].msg
      PROVE  OwedIsTracked'
  BY <1>0, <1>1 DEF OwedIsTracked, Unicast
<1>2. ASSUME NEW m \in Msg, Refuse(m) PROVE OwedIsTracked'
  <2>1. /\ UNCHANGED <<pending, sending>> /\ submitted' = submitted \cup {m}
        /\ calls' = [calls EXCEPT ![m] = Append(@, "failed")]
    BY <1>2 DEF Refuse, linkVars
  <2>2. calls[m] \in Seq({"ok", "failed"})
    BY <1>0
  <2>3. Append(calls[m], "failed") # <<>>
    BY <2>2, CalledIsNotEmpty
  <2> QED BY <1>0, <2>1, <2>3 DEF OwedIsTracked
<1>3. ASSUME NEW m \in Msg, Enqueue(m) PROVE OwedIsTracked'
  <2>1. /\ UNCHANGED <<pending, calls>> /\ submitted' = submitted \cup {m}
        /\ sending[Src[m]] = NoMsg /\ sending' = [sending EXCEPT ![Src[m]] = m]
    BY <1>3 DEF Enqueue
  <2> SUFFICES ASSUME NEW k \in submitted' \cap Unicast, calls'[k] = <<>>
               PROVE  Tracked(k)'
    BY DEF OwedIsTracked, Unicast
  <2>2. CASE k = m
    BY <1>0, <2>1, <2>2
  <2>3. CASE k # m
    <3>1. k \in submitted /\ k \in Msg /\ Src[k] \in Node /\ Tracked(k)
      BY <1>0, <2>1, <2>3 DEF OwedIsTracked
    <3>2. sending[Src[k]] = k => Src[k] # Src[m]
      BY <2>1, <3>1
    <3> QED BY <1>0, <2>1, <3>1, <3>2
  <2> QED BY <2>2, <2>3
\* The number of the request that is entered stands for no other request, so
\* emplace does find the place free.
<1>4. ASSUME NEW n \in Node, Track(n) PROVE OwedIsTracked'
  <2> DEFINE m == sending[n]
  <2>1. /\ m \in submitted /\ m \in Msg /\ Src[m] = n
        /\ seqOf[m] \in Seqs /\ calls[m] = <<>>
    BY <1>0, <1>4 DEF Track, OwedInv, SendingOwed
  <2>2. submitted' = submitted /\ sending' = [sending EXCEPT ![n] = NoMsg]
    BY <1>4 DEF Track
  <2>3. CASE Dst[m] # Broadcast
    <3>1. pending' = [pending EXCEPT ![n] = EmplacePending(@, m, seqOf[m])] /\ calls' = calls
      BY <1>4, <2>3 DEF Track
    <3>2. pending[n][seqOf[m]].msg = NoMsg
      <4>1. SUFFICES ASSUME pending[n][seqOf[m]].msg # NoMsg PROVE FALSE
        OBVIOUS
      <4> DEFINE k == pending[n][seqOf[m]].msg
      <4>2. /\ k \in Msg /\ Src[k] = n /\ seqOf[k] = seqOf[m] /\ k # m
        BY <1>0, <2>1, <4>1 DEF OwedInv, PendingOwed, Outstanding
      <4>3. seqOf[m] # 0
        BY <2>1 DEF Seqs
      <4> QED BY <2>1, <4>2, <4>3 DEF SeqInv
    <3>3. /\ pending'[n][seqOf[m]].msg = m
          /\ \A k \in Node, s \in Seqs : pending[k][s].msg # NoMsg =>
               pending'[k][s].msg = pending[k][s].msg
      BY <1>0, <2>1, <3>1, <3>2 DEF EmplacePending, Entry
    <3> SUFFICES ASSUME NEW k \in submitted' \cap Unicast, calls'[k] = <<>>
                 PROVE  Tracked(k)'
      BY DEF OwedIsTracked, Unicast
    <3>4. CASE k = m
      BY <2>1, <3>3, <3>4
    <3>5. CASE k # m
      <4>1. k \in Msg /\ Src[k] \in Node /\ Tracked(k)
        BY <1>0, <2>2, <3>1 DEF OwedIsTracked
      <4>2. sending[Src[k]] = k => sending'[Src[k]] = k
        BY <1>0, <2>2, <3>5, <4>1
      <4>3. ASSUME NEW s \in Seqs, pending[Src[k]][s].msg = k
            PROVE  pending'[Src[k]][s].msg = k
        BY <3>3, <4>1, <4>3
      <4> QED BY <4>1, <4>2, <4>3
    <3> QED BY <3>4, <3>5
  <2>4. CASE Dst[m] = Broadcast
    <3>1. calls' = [calls EXCEPT ![m] = Append(@, "ok")] /\ pending' = pending
      BY <1>4, <2>4 DEF Track
    <3>2. m \notin Unicast
      BY <2>4 DEF Unicast
    <3> SUFFICES ASSUME NEW k \in submitted' \cap Unicast, calls'[k] = <<>>
                 PROVE  Tracked(k)'
      BY DEF OwedIsTracked, Unicast
    <3>3. k # m /\ k \in Msg /\ calls[k] = <<>> /\ Tracked(k)
      BY <1>0, <2>2, <3>1, <3>2 DEF OwedIsTracked
    <3>4. sending[Src[k]] = k => sending'[Src[k]] = k
      BY <1>0, <2>2, <3>3
    <3> QED BY <3>1, <3>3, <3>4
  <2> QED BY <2>3, <2>4
<1>5. ASSUME NEW n \in Node, ReceiveAck(n) PROVE OwedIsTracked'
  <2> DEFINE t == Head(rx[n]).seq
             m == pending[n][t].msg
  <2>1. UNCHANGED <<submitted, sending>>
    BY <1>5 DEF ReceiveAck, TakeFrame
  <2>2. CASE t \notin Outstanding(n)
    <3>1. UNCHANGED <<calls, pending>>
      BY <1>5, <2>2 DEF ReceiveAck
    <3> QED BY <1>1, <2>1, <3>1
  <2>3. CASE t \in Outstanding(n)
    <3>1. /\ calls' = [calls EXCEPT ![m] = Append(@, "ok")]
          /\ pending' = [pending EXCEPT ![n][t] = NoEntry]
      BY <1>5, <2>3 DEF ReceiveAck, Erase
    <3>2. t \in Seqs /\ m \in Msg
      BY <1>0, <2>3 DEF Outstanding, OwedInv, PendingOwed
    <3> HIDE DEF t
    <3>3. Append(calls[m], "ok") # <<>>
      <4>1. calls[m] \in Seq({"ok", "failed"})
        BY <1>0, <3>2
      <4> HIDE DEF m
      <4> QED BY <4>1, CalledIsNotEmpty
    <3> SUFFICES ASSUME NEW k \in submitted' \cap Unicast, calls'[k] = <<>>
                 PROVE  Tracked(k)'
      BY DEF OwedIsTracked, Unicast
    <3>4. k # m /\ k \in Msg /\ Src[k] \in Node /\ calls[k] = <<>> /\ Tracked(k)
      BY <1>0, <2>1, <3>1, <3>2, <3>3 DEF OwedIsTracked
    <3>5. ASSUME NEW s \in Seqs, pending[Src[k]][s].msg = k
          PROVE  pending'[Src[k]][s].msg = k
      <4>1. ~(Src[k] = n /\ s = t)
        BY <3>4, <3>5
      <4> QED BY <1>0, <3>1, <3>2, <3>4, <3>5, <4>1
    <3> QED BY <2>1, <3>4, <3>5
  <2> QED BY <2>2, <2>3
<1>6. ASSUME NEW n \in Node, check_timeouts(n) PROVE OwedIsTracked'
  <2>1. PICK E \in SUBSET Expired(n) :
          \E q \in SetToSeqs({s \in E : CanRetry(n, s)}) : TimeoutPass(n, E, q)
    BY <1>6 DEF check_timeouts
  <2> DEFINE L == {s \in E : ~CanRetry(n, s)}
  <2>2. L \in SUBSET Outstanding(n)
    BY DEF Expired
  <2>3. calls' = FailCalls(Requests(n, L))
    BY <2>1 DEF TimeoutPass
  <2>4. \A k \in Node, s \in Seqs : pending'[k][s].msg =
          IF k = n /\ s \in L THEN NoMsg ELSE pending[k][s].msg
    BY <1>0, <2>1 DEF TimeoutPass, Retried, NoEntry
  <2>5. UNCHANGED <<submitted, sending>>
    BY <1>6 DEF check_timeouts
  <2> HIDE DEF L
  <2> QED
    BY <2>2, <2>3, <2>4, <2>5, ClearedIsCalled
<1>7. ASSUME NEW n \in Node, StopEnd(n) PROVE OwedIsTracked'
  <2>1. \A k \in Node, s \in Seqs : pending'[k][s].msg =
          IF k = n /\ s \in Outstanding(n) THEN NoMsg ELSE pending[k][s].msg
    BY <1>0, <1>7 DEF StopEnd, NoEntry, Outstanding
  <2>2. calls' = FailCalls(Requests(n, Outstanding(n))) /\ UNCHANGED <<submitted, sending>>
    BY <1>7 DEF StopEnd
  <2> QED
    BY <2>1, <2>2, ClearedIsCalled
<1>8. CASE Tick
  BY <1>0, <1>1, <1>8, OlderKeepsRequests DEF Tick
<1>9. ASSUME NEW n \in Node,
              \/ TransmitData(n) \/ TransmitAcks(n) \/ WriteFails(n) \/ IgnoreFrame(n)
              \/ ReceiveDuplicate(n) \/ ReceiveNew(n) \/ Heartbeat(n) \/ StopBegin(n)
       PROVE  UNCHANGED <<pending, submitted, calls, sending>>
  BY <1>9 DEF TransmitData, TransmitAcks, WriteFails, IgnoreFrame, ReceiveDuplicate,
              ReceiveNew, TakeFrame, Heartbeat, StopBegin, histVars
<1>10. CASE UNCHANGED vars
  BY <1>1, <1>10 DEF vars, linkVars, histVars
<1> QED
  BY <1>1, <1>2, <1>3, <1>4, <1>5, <1>6, <1>7, <1>8, <1>9, <1>10 DEF Next, Receive

\* The whole invariant of the link, while sequence numbers do not wrap: in
\* particular a request whose callback is owed is never lost from sight, so an
\* ACK, a timeout or stop() can still call it.
THEOREM LinkInvCorrect ==
  ASSUME MaxSends <= MaxSeq
  PROVE  Spec => []LinkInv
<1>1. Init => OwedIsTracked
  BY DEF Init, OwedIsTracked
<1>2. TypeOK /\ OwedInv /\ SeqInv /\ OwedIsTracked /\ [Next]_vars => OwedIsTracked'
  BY TrackedStep
<1>3. OwedInv /\ SeqInv /\ FrameInv /\ OwedIsTracked => LinkInv
  BY DEF LinkInv
<1> QED
  BY <1>1, <1>2, <1>3, TypeCorrect, LinkInvariant, PTL DEF Spec
-----------------------------------------------------------------------------
(* A router sees a request at most once per transmission *)

\* The places at which a queue holds the data frame of a request, and their number.
CopiesAt(q, m) == {i \in DOMAIN q : q[i].type = "DATA" /\ q[i].msg = m}
Copies(q, m) == Cardinality(CopiesAt(q, m))

\* What has reached the router of n of request m, and what still can.
UnderWay(m, n) == delivered[m][n] + Copies(rx[n], m) + Copies(sendQueue[Src[m]], m)

\* A node queues the data of its own requests only, and acknowledges with no data.
OwnData ==
  \A n \in Node :
    /\ \A f \in Range(sendQueue[n]) : f.type = "DATA" => f.msg \in Msg /\ Src[f.msg] = n
    /\ \A f \in Range(ackQueue[n]) : f.type # "DATA"

\* Nothing before a request is sent, one copy before it is entered, one more for
\* each retry that its entry has counted.
Paid(m, n) ==
  /\ m \notin submitted => UnderWay(m, n) = 0
  /\ sending[Src[m]] = m => UnderWay(m, n) <= 1
  /\ \A s \in Seqs : pending[Src[m]][s].msg = m => UnderWay(m, n) <= 1 + pending[Src[m]][s].retries
  /\ UnderWay(m, n) <= 1 + MaxRetries
AllPaid == \A m \in Msg, n \in Node : Paid(m, n)

LEMMA CopiesNumber ==
  ASSUME NEW q \in Seq(Frame), NEW m
  PROVE  IsFiniteSet(CopiesAt(q, m)) /\ Copies(q, m) \in Nat
<1>1. DOMAIN q = 1..Len(q) /\ Len(q) \in Nat
  OBVIOUS
<1>2. IsFiniteSet(1..Len(q))
  BY <1>1, FS_Interval
<1>3. CopiesAt(q, m) \in SUBSET (1..Len(q))
  BY <1>1 DEF CopiesAt
<1>4. IsFiniteSet(CopiesAt(q, m))
  BY <1>2, <1>3, FS_Subset
<1> QED
  BY <1>4, FS_CardinalityType DEF Copies

\* Places that are mapped to different places are no more than those.
LEMMA CopiesMapped ==
  ASSUME NEW A, NEW B, IsFiniteSet(B), NEW g \in [A -> B],
         \A i, j \in A : g[i] = g[j] => i = j
  PROVE  IsFiniteSet(A) /\ Cardinality(A) <= Cardinality(B)
<1>1. g \in Injection(A, B)
  BY DEF Injection, IsInjective
<1> QED
  BY <1>1, FS_Injection

LEMMA CopiesNone ==
  ASSUME NEW q \in Seq(Frame), NEW m, \A f \in Range(q) : ~(f.type = "DATA" /\ f.msg = m)
  PROVE  Copies(q, m) = 0
<1>1. CopiesAt(q, m) = {}
  BY DEF CopiesAt, Range
<1> QED
  BY <1>1, FS_EmptySet DEF Copies

LEMMA CopiesConcat ==
  ASSUME NEW q \in Seq(Frame), NEW r \in Seq(Frame), NEW m
  PROVE  Copies(q \o r, m) <= Copies(q, m) + Copies(r, m)
<1> DEFINE A == CopiesAt(q, m)
           B == {i \in CopiesAt(q \o r, m) : i > Len(q)}
           g == [i \in B |-> i - Len(q)]
<1>1. /\ q \o r \in Seq(Frame) /\ Len(q) \in Nat /\ Len(r) \in Nat
      /\ DOMAIN q = 1..Len(q) /\ DOMAIN r = 1..Len(r)
      /\ DOMAIN (q \o r) = 1..(Len(q) + Len(r))
      /\ \A i \in 1..Len(q) : (q \o r)[i] = q[i]
      /\ \A i \in 1..(Len(q) + Len(r)) : i > Len(q) => (q \o r)[i] = r[i - Len(q)]
  OBVIOUS
<1>2. B \subseteq Int /\ \A i \in B : i - Len(q) \in CopiesAt(r, m)
  BY <1>1 DEF CopiesAt
<1>3. g \in [B -> CopiesAt(r, m)] /\ \A i, j \in B : g[i] = g[j] => i = j
  BY <1>1, <1>2
<1>4. IsFiniteSet(CopiesAt(r, m)) /\ Copies(r, m) \in Nat
  BY CopiesNumber
<1>5. IsFiniteSet(B) /\ Cardinality(B) <= Copies(r, m)
  <2> HIDE DEF B, g
  <2> QED BY <1>3, <1>4, CopiesMapped DEF Copies
<1>6. IsFiniteSet(A) /\ Cardinality(A) = Copies(q, m) /\ Copies(q, m) \in Nat
  BY CopiesNumber DEF Copies
<1>7. CopiesAt(q \o r, m) = A \cup B
  BY <1>1 DEF CopiesAt
<1> HIDE DEF A, B
<1>8. /\ IsFiniteSet(A \cap B)
      /\ Cardinality(A \cup B) = Cardinality(A) + Cardinality(B) - Cardinality(A \cap B)
  BY <1>5, <1>6, FS_Union, FS_Intersection
<1>9. Cardinality(A \cap B) \in Nat /\ Cardinality(B) \in Nat
  BY <1>5, <1>8, FS_CardinalityType
<1>10. Cardinality(A \cup B) <= Copies(q, m) + Copies(r, m)
  BY <1>4, <1>5, <1>6, <1>8, <1>9
<1> QED
  BY <1>7, <1>10 DEF Copies

LEMMA CopiesAppend ==
  ASSUME NEW q \in Seq(Frame), NEW f \in Frame, NEW m
  PROVE  /\ Copies(Append(q, f), m) <= Copies(q, m) + 1
         /\ ~(f.type = "DATA" /\ f.msg = m) => Copies(Append(q, f), m) = Copies(q, m)
<1> DEFINE A == CopiesAt(q, m)
           x == Len(q) + 1
<1>1. /\ Append(q, f) \in Seq(Frame) /\ Len(q) \in Nat /\ DOMAIN q = 1..Len(q)
      /\ DOMAIN Append(q, f) = 1..(Len(q) + 1) /\ Append(q, f)[Len(q) + 1] = f
      /\ \A i \in 1..Len(q) : Append(q, f)[i] = q[i]
  OBVIOUS
<1>2. IsFiniteSet(A) /\ Cardinality(A) = Copies(q, m) /\ Copies(q, m) \in Nat
  BY CopiesNumber DEF Copies
<1>3. CASE f.type = "DATA" /\ f.msg = m
  <2>1. CopiesAt(Append(q, f), m) = A \cup {x}
    BY <1>1, <1>3 DEF CopiesAt
  <2> HIDE DEF A, x
  <2>2. Cardinality(A \cup {x}) <= Cardinality(A) + 1
    <3>1. Cardinality(A \cup {x}) = IF x \in A THEN Cardinality(A) ELSE Cardinality(A) + 1
      BY <1>2, FS_AddElement
    <3> QED BY <1>2, <3>1
  <2> QED BY <1>2, <1>3, <2>1, <2>2 DEF Copies
<1>4. CASE ~(f.type = "DATA" /\ f.msg = m)
  <2>1. CopiesAt(Append(q, f), m) = A
    BY <1>1, <1>4 DEF CopiesAt
  <2> QED BY <1>2, <1>4, <2>1 DEF Copies
<1> QED
  BY <1>3, <1>4

\* A frame that is taken is a copy less.
LEMMA CopiesTail ==
  ASSUME NEW q \in Seq(Frame), q # <<>>, NEW m
  PROVE  /\ Copies(Tail(q), m) <= Copies(q, m)
         /\ Head(q).type = "DATA" /\ Head(q).msg = m => Copies(Tail(q), m) + 1 <= Copies(q, m)
<1> DEFINE A == CopiesAt(Tail(q), m)
           B == CopiesAt(q, m) \ {1}
           g == [i \in A |-> i + 1]
<1>1. /\ Len(q) \in Nat /\ Len(q) > 0 /\ DOMAIN q = 1..Len(q) /\ Tail(q) \in Seq(Frame)
      /\ DOMAIN Tail(q) = 1..(Len(q) - 1) /\ Head(q) = q[1]
      /\ \A i \in 1..(Len(q) - 1) : Tail(q)[i] = q[i + 1]
  OBVIOUS
<1>2. A \subseteq Nat /\ \A i \in A : i + 1 \in B
  BY <1>1 DEF CopiesAt
<1>3. g \in [A -> B] /\ \A i, j \in A : g[i] = g[j] => i = j
  BY <1>2
<1>4. /\ IsFiniteSet(CopiesAt(q, m)) /\ Copies(q, m) \in Nat /\ Copies(Tail(q), m) \in Nat
  BY <1>1, CopiesNumber
<1>5. /\ IsFiniteSet(B)
      /\ Cardinality(B) = IF 1 \in CopiesAt(q, m) THEN Copies(q, m) - 1 ELSE Copies(q, m)
  BY <1>4, FS_RemoveElement DEF Copies
<1>6. Copies(Tail(q), m) <= Cardinality(B)
  <2> HIDE DEF A, B, g
  <2>1. Cardinality(A) <= Cardinality(B)
    BY <1>3, <1>5, CopiesMapped
  <2> QED BY <2>1 DEF A, Copies
<1>7. Head(q).type = "DATA" /\ Head(q).msg = m => 1 \in CopiesAt(q, m)
  BY <1>1 DEF CopiesAt
<1> HIDE DEF B
<1> QED
  BY <1>4, <1>5, <1>6, <1>7

\* A frame that is lost is no copy more.
LEMMA CopiesWithout ==
  ASSUME NEW q \in Seq(Frame), NEW r \in Without(q), NEW m
  PROVE  Copies(r, m) <= Copies(q, m)
<1>1. PICK x \in DOMAIN q : r = RemoveAt(q, x)
  BY DEF Without
<1> DEFINE A == CopiesAt(r, m)
           B == CopiesAt(q, m)
           g == [i \in A |-> IF i < x THEN i ELSE i + 1]
<1>2. DOMAIN q = 1..Len(q) /\ Len(q) \in Nat /\ x \in 1..Len(q)
  OBVIOUS
<1>3. r = SubSeq(q, 1, x - 1) \o SubSeq(q, x + 1, Len(q))
  BY <1>1 DEF RemoveAt
<1>a. /\ SubSeq(q, 1, x - 1) \in Seq(Frame) /\ Len(SubSeq(q, 1, x - 1)) = x - 1
      /\ \A i \in 1..(x - 1) : SubSeq(q, 1, x - 1)[i] = q[i]
      /\ SubSeq(q, x + 1, Len(q)) \in Seq(Frame)
      /\ Len(SubSeq(q, x + 1, Len(q))) = Len(q) - x
      /\ \A i \in 1..(Len(q) - x) : SubSeq(q, x + 1, Len(q))[i] = q[x + i]
  BY <1>2
<1>4. /\ DOMAIN r = 1..(Len(q) - 1) /\ \A i \in 1..(x - 1) : r[i] = q[i]
      /\ \A i \in x..(Len(q) - 1) : r[i] = q[i + 1]
  <2> DEFINE u == SubSeq(q, 1, x - 1)
             v == SubSeq(q, x + 1, Len(q))
  <2> HIDE DEF u, v
  <2>1. /\ u \in Seq(Frame) /\ Len(u) = x - 1 /\ \A i \in 1..(x - 1) : u[i] = q[i]
        /\ v \in Seq(Frame) /\ Len(v) = Len(q) - x
        /\ \A i \in 1..(Len(q) - x) : v[i] = q[x + i]
        /\ r = u \o v
    BY <1>3, <1>a DEF u, v
  <2>2. /\ DOMAIN (u \o v) = 1..(Len(u) + Len(v))
        /\ \A i \in 1..Len(u) : (u \o v)[i] = u[i]
        /\ \A i \in 1..(Len(u) + Len(v)) : i > Len(u) => (u \o v)[i] = v[i - Len(u)]
    BY <2>1
  <2>3. ASSUME NEW i \in x..(Len(q) - 1) PROVE r[i] = q[i + 1]
    <3>1. i - (x - 1) \in 1..(Len(q) - x) /\ x + (i - (x - 1)) = i + 1
      BY <1>2
    <3>2. i \in 1..(Len(u) + Len(v)) /\ i > Len(u)
      BY <1>2, <2>1
    <3> QED BY <2>1, <2>2, <3>1, <3>2
  <2>4. DOMAIN r = 1..(Len(q) - 1)
    BY <1>2, <2>1, <2>2
  <2>5. \A i \in 1..(x - 1) : r[i] = q[i]
    BY <2>1, <2>2
  <2> QED BY <2>3, <2>4, <2>5
<1>5. A \subseteq Nat /\ \A i \in A : (IF i < x THEN i ELSE i + 1) \in B
  BY <1>2, <1>4 DEF CopiesAt
<1>6. g \in [A -> B] /\ \A i, j \in A : g[i] = g[j] => i = j
  BY <1>2, <1>5
<1>7. IsFiniteSet(B)
  BY CopiesNumber
<1>8. Cardinality(A) <= Cardinality(B)
  <2> HIDE DEF A, B, g
  <2> QED BY <1>6, <1>7, CopiesMapped
<1> QED
  BY <1>8 DEF Copies

\* The numbers of copies are numbers.
LEMMA CopiesAdd ==
  ASSUME NEW d \in [Msg -> [Node -> Nat]], NEW r \in [Node -> Seq(Frame)],
         NEW b \in [Node -> Seq(Frame)], NEW m \in Msg, NEW n \in Node
  PROVE  /\ d[m][n] \in Nat /\ Copies(r[n], m) \in Nat /\ Src[m] \in Node
         /\ Copies(b[Src[m]], m) \in Nat
         /\ d[m][n] + Copies(r[n], m) + Copies(b[Src[m]], m) \in Nat
<1>1. d[m][n] \in Nat /\ r[n] \in Seq(Frame) /\ Src[m] \in Node
  BY MsgAssumption
<1>2. b[Src[m]] \in Seq(Frame)
  BY <1>1
<1>3. Copies(r[n], m) \in Nat /\ Copies(b[Src[m]], m) \in Nat
  BY <1>1, <1>2, CopiesNumber
<1> QED
  BY <1>1, <1>3

\* A step that adds no copy, and forgets or enters a request, stays within the limits.
LEMMA PaidStays ==
  ASSUME TypeOK, TypeOK', NEW m \in Msg, NEW n \in Node, Paid(m, n),
         UnderWay(m, n)' <= UnderWay(m, n),
         m \in submitted => m \in submitted',
         sending'[Src[m]] = m => sending[Src[m]] = m,
         \A s \in Seqs : pending'[Src[m]][s].msg = m =>
           \/ sending[Src[m]] = m
           \/ /\ pending[Src[m]][s].msg = m
              /\ pending'[Src[m]][s].retries >= pending[Src[m]][s].retries
  PROVE  Paid(m, n)'
<1>1. UnderWay(m, n) \in Nat /\ UnderWay(m, n)' \in Nat /\ Src[m] \in Node
  <2>1. /\ delivered \in [Msg -> [Node -> Nat]] /\ delivered' \in [Msg -> [Node -> Nat]]
        /\ rx \in [Node -> Seq(Frame)] /\ rx' \in [Node -> Seq(Frame)]
        /\ sendQueue \in [Node -> Seq(Frame)] /\ sendQueue' \in [Node -> Seq(Frame)]
    BY DEF TypeOK
  <2>2. UnderWay(m, n) \in Nat /\ Src[m] \in Node
    BY <2>1, CopiesAdd DEF UnderWay
  <2>3. UnderWay(m, n)' \in Nat
    BY <2>1, CopiesAdd DEF UnderWay
  <2> QED BY <2>2, <2>3
<1>2. ASSUME NEW s \in Seqs
      PROVE  pending[Src[m]][s].retries \in Nat /\ pending'[Src[m]][s].retries \in Nat
  <2>1. pending[Src[m]][s] \in Entry /\ pending'[Src[m]][s] \in Entry
    BY <1>1 DEF TypeOK
  <2>2. \A e \in Entry : e.retries \in Nat
    BY NumberAssumption DEF Entry
  <2> QED BY <2>1, <2>2
<1>3. MaxRetries \in Nat
  BY NumberAssumption
<1>4. (m \notin submitted => UnderWay(m, n) = 0)'
  BY <1>1 DEF Paid
<1>5. (sending[Src[m]] = m => UnderWay(m, n) <= 1)'
  BY <1>1 DEF Paid
<1>6. ASSUME NEW s \in Seqs, pending'[Src[m]][s].msg = m
      PROVE  UnderWay(m, n)' <= 1 + pending'[Src[m]][s].retries
  BY <1>1, <1>2, <1>6 DEF Paid
<1>7. (UnderWay(m, n) <= 1 + MaxRetries)'
  BY <1>1, <1>3 DEF Paid
<1> QED
  BY <1>4, <1>5, <1>6, <1>7 DEF Paid

LEMMA OwnDataStep ==
  ASSUME TypeOK, OwedInv, OwnData, [Next]_vars
  PROVE  OwnData'
<1> USE MsgAssumption
<1>0. /\ sendQueue \in [Node -> Seq(Frame)] /\ ackQueue \in [Node -> Seq(Frame)]
      /\ pending \in [Node -> [Seqs -> Entry]]
  BY DEF TypeOK
<1>1. ASSUME NEW n \in Node, NEW q,
             sendQueue' = [sendQueue EXCEPT ![n] = q], UNCHANGED ackQueue,
             \A f \in Range(q) : f.type = "DATA" => f.msg \in Msg /\ Src[f.msg] = n
      PROVE  OwnData'
  BY <1>0, <1>1 DEF OwnData
<1>2. ASSUME NEW n \in Node, NEW q,
             ackQueue' = [ackQueue EXCEPT ![n] = q], UNCHANGED sendQueue,
             \A f \in Range(q) : f.type # "DATA"
      PROVE  OwnData'
  BY <1>0, <1>2 DEF OwnData
<1>3. ASSUME UNCHANGED <<sendQueue, ackQueue>> PROVE OwnData'
  BY <1>3 DEF OwnData
<1>4. ASSUME NEW m \in Msg, Enqueue(m) PROVE OwnData'
  <2> DEFINE n == Src[m]
             x == DataFrame(m, nextSeq[n])
             q == Append(sendQueue[n], x)
  <2>1. sendQueue' = [sendQueue EXCEPT ![n] = q] /\ UNCHANGED ackQueue
    BY <1>4 DEF Enqueue
  <2>2. n \in Node /\ sendQueue[n] \in Seq(Frame) /\ x \in Frame
    BY <1>0, FrameTypes DEF TypeOK
  <2>3. x.msg = m
    BY DEF DataFrame
  <2>4. \A f \in Range(q) : f \in Range(sendQueue[n]) \/ f = x
    <3> HIDE DEF x
    <3> QED BY <2>2, RangeAppend
  <2>5. \A f \in Range(q) : f.type = "DATA" => f.msg \in Msg /\ Src[f.msg] = n
    <3> HIDE DEF x, q
    <3> QED BY <2>2, <2>3, <2>4 DEF OwnData
  <2> HIDE DEF q
  <2> QED BY <1>1, <2>1, <2>2, <2>5
<1>5. ASSUME NEW n \in Node, TransmitData(n) PROVE OwnData'
  <2>1. Range(<<>>) = {}
    BY DEF Range
  <2> QED BY <1>1, <1>5, <2>1 DEF TransmitData
<1>6. ASSUME NEW n \in Node, TransmitAcks(n) PROVE OwnData'
  <2>1. Range(<<>>) = {}
    BY DEF Range
  <2> QED BY <1>2, <1>6, <2>1 DEF TransmitAcks
<1>7. ASSUME NEW n \in Node, WriteFails(n) PROVE OwnData'
  <2>1. ASSUME NEW q \in Without(sendQueue[n]), sendQueue' = [sendQueue EXCEPT ![n] = q],
               UNCHANGED ackQueue
        PROVE  OwnData'
    <3>1. \A f \in Range(q) : f \in Range(sendQueue[n])
      BY <1>0, RangeWithout
    <3> QED BY <1>1, <2>1, <3>1 DEF OwnData
  <2>2. ASSUME NEW q \in Without(ackQueue[n]), ackQueue' = [ackQueue EXCEPT ![n] = q],
               UNCHANGED sendQueue
        PROVE  OwnData'
    <3>1. \A f \in Range(q) : f \in Range(ackQueue[n])
      BY <1>0, RangeWithout
    <3> QED BY <1>2, <2>2, <3>1 DEF OwnData
  <2> QED BY <1>7, <2>1, <2>2 DEF WriteFails
<1>8. ASSUME NEW n \in Node, ReceiveNew(n) PROVE OwnData'
  <2> DEFINE x == AckFrame(n, Head(rx[n]))
             q == Append(ackQueue[n], x)
  <2>1. UNCHANGED sendQueue /\ ackQueue' \in {ackQueue, [ackQueue EXCEPT ![n] = q]}
    BY <1>8 DEF ReceiveNew, TakeFrame
  <2>2. Head(rx[n]) \in Frame
    <3>1. rx[n] \in Seq(Frame) /\ rx[n] # <<>>
      BY <1>8 DEF ReceiveNew, TakeFrame, TypeOK
    <3> QED BY <3>1, RangeTail
  <2>3. x \in Frame /\ x.type # "DATA"
    BY <2>2, FrameTypes DEF AckFrame
  <2>4. \A f \in Range(q) : f \in Range(ackQueue[n]) \/ f = x
    <3> HIDE DEF x
    <3> QED BY <1>0, <2>3, RangeAppend
  <2>5. \A f \in Range(q) : f.type # "DATA"
    <3> HIDE DEF x, q
    <3> QED BY <2>3, <2>4 DEF OwnData
  <2> HIDE DEF q
  <2> QED BY <1>2, <1>3, <2>1, <2>5
<1>9. ASSUME NEW n \in Node, check_timeouts(n) PROVE OwnData'
  <2>1. PICK E \in SUBSET Expired(n) :
          \E t \in SetToSeqs({s \in E : CanRetry(n, s)}) : TimeoutPass(n, E, t)
    BY <1>9 DEF check_timeouts
  <2>2. PICK t \in SetToSeqs({s \in E : CanRetry(n, s)}) : TimeoutPass(n, E, t)
    BY <2>1
  <2>3. t \in Seq(Seqs) /\ \A i \in DOMAIN t : t[i] \in Seqs /\ t[i] \in Outstanding(n)
    BY OrderOfSeqs DEF Expired, Outstanding
  <2> DEFINE r == [i \in DOMAIN t |-> DataFrame(pending[n][t[i]].msg, t[i])]
             q == sendQueue[n] \o r
  <2>4. \A s \in Outstanding(n) : pending[n][s].msg \in Msg /\ Src[pending[n][s].msg] = n
    BY DEF OwedInv, PendingOwed, Unicast
  <2>5. r \in Seq(Frame)
    BY <2>3, <2>4, FrameTypes
  <2>6. \A f \in Range(r) : f.msg \in Msg /\ Src[f.msg] = n
    BY <2>3, <2>4 DEF Range, DataFrame
  <2>7. sendQueue' = [sendQueue EXCEPT ![n] = q] /\ UNCHANGED ackQueue
    BY <1>9, <2>2 DEF TimeoutPass, check_timeouts
  <2>8. \A f \in Range(q) : f \in Range(sendQueue[n]) \/ f \in Range(r)
    <3> HIDE DEF r
    <3> QED BY <1>0, <2>5, RangeConcat
  <2>9. \A f \in Range(q) : f.type = "DATA" => f.msg \in Msg /\ Src[f.msg] = n
    <3> HIDE DEF q, r
    <3> QED BY <2>6, <2>8 DEF OwnData
  <2> HIDE DEF q
  <2> QED BY <1>1, <2>7, <2>9
<1>10. ASSUME NEW n \in Node, Heartbeat(n) PROVE OwnData'
  <2> DEFINE x == HeartbeatFrame(n)
             q == Append(sendQueue[n], x)
  <2>1. sendQueue' = [sendQueue EXCEPT ![n] = q] /\ UNCHANGED ackQueue
    BY <1>10 DEF Heartbeat
  <2>2. x \in Frame /\ x.type # "DATA"
    BY FrameTypes DEF HeartbeatFrame
  <2>3. \A f \in Range(q) : f \in Range(sendQueue[n]) \/ f = x
    <3> HIDE DEF x
    <3> QED BY <1>0, <2>2, RangeAppend
  <2>4. \A f \in Range(q) : f.type = "DATA" => f.msg \in Msg /\ Src[f.msg] = n
    <3> HIDE DEF x, q
    <3> QED BY <2>2, <2>3 DEF OwnData
  <2> HIDE DEF q
  <2> QED BY <1>1, <2>1, <2>4
<1>11. CASE Tick
  BY <1>3, <1>11 DEF Tick
<1>12. ASSUME NEW m \in Msg, Refuse(m) PROVE OwnData'
  BY <1>3, <1>12 DEF Refuse, linkVars
<1>13. ASSUME NEW n \in Node, \/ Track(n) \/ IgnoreFrame(n) \/ ReceiveAck(n)
                              \/ ReceiveDuplicate(n) \/ StopBegin(n) \/ StopEnd(n)
       PROVE  OwnData'
  BY <1>3, <1>13 DEF Track, IgnoreFrame, ReceiveAck, ReceiveDuplicate, TakeFrame,
                     StopBegin, StopEnd
<1>14. CASE UNCHANGED vars
  BY <1>3, <1>14 DEF vars, linkVars
<1> QED
  BY <1>4, <1>5, <1>6, <1>7, <1>8, <1>9, <1>10, <1>11, <1>12, <1>13, <1>14 DEF Next, Receive

\* A step that changes neither queues nor deliveries adds no copy.
LEMMA NoCopyAdded ==
  ASSUME TypeOK, UNCHANGED <<delivered, rx, sendQueue>>, NEW m \in Msg, NEW n \in Node
  PROVE  UnderWay(m, n)' <= UnderWay(m, n)
<1>1. UnderWay(m, n) \in Nat
  BY CopiesAdd DEF UnderWay, TypeOK
<1>2. UnderWay(m, n)' = UnderWay(m, n)
  BY DEF UnderWay
<1> QED
  BY <1>1, <1>2

\* The radio copies a queue to the other nodes and empties it.
LEMMA TransmitPays ==
  ASSUME TypeOK, OwnData, NEW k \in Node, TransmitData(k) \/ TransmitAcks(k),
         NEW m \in Msg, NEW n \in Node
  PROVE  UnderWay(m, n)' <= UnderWay(m, n)
<1>0. /\ delivered \in [Msg -> [Node -> Nat]] /\ rx \in [Node -> Seq(Frame)]
      /\ sendQueue \in [Node -> Seq(Frame)] /\ ackQueue \in [Node -> Seq(Frame)]
  BY DEF TypeOK
<1>1. /\ delivered[m][n] \in Nat /\ Copies(rx[n], m) \in Nat /\ Src[m] \in Node
      /\ Copies(sendQueue[Src[m]], m) \in Nat
  BY <1>0, CopiesAdd
<1>2. Copies(<<>>, m) = 0
  <2>1. <<>> \in Seq(Frame) /\ Range(<<>>) = {}
    BY DEF Range
  <2> QED BY <2>1, CopiesNone
<1>3. CASE TransmitData(k)
  <2>1. /\ UNCHANGED delivered /\ rx' = Broadcasted(k, sendQueue[k])
        /\ sendQueue' = [sendQueue EXCEPT ![k] = <<>>]
    BY <1>3 DEF TransmitData, histVars
  <2>2. Copies(rx'[n], m) <= Copies(rx[n], m) + Copies(sendQueue[k], m)
    <3>1. Copies(sendQueue[k], m) \in Nat
      BY <1>0, CopiesNumber
    <3>2. PICK b : b = rx[n] \o sendQueue[k]
      OBVIOUS
    <3>3. rx'[n] = rx[n] \/ rx'[n] = b
      BY <2>1, <3>2 DEF Broadcasted
    <3>4. Copies(b, m) <= Copies(rx[n], m) + Copies(sendQueue[k], m)
      BY <1>0, <3>2, CopiesConcat
    <3>5. Copies(rx'[n], m) = Copies(rx[n], m) \/ Copies(rx'[n], m) = Copies(b, m)
      BY <3>3
    <3> QED BY <1>1, <3>1, <3>4, <3>5
  <2>3. CASE k = Src[m]
    <3>1. Copies(sendQueue'[Src[m]], m) = 0
      BY <1>0, <1>2, <2>1, <2>3
    <3>2. Copies(rx'[n], m) \in Nat
      <4>1. rx'[n] \in Seq(Frame)
        BY <1>0, <2>1 DEF Broadcasted
      <4> QED BY <4>1, CopiesNumber
    <3> QED BY <1>1, <2>1, <2>2, <2>3, <3>1, <3>2 DEF UnderWay
  <2>4. CASE k # Src[m]
    <3>1. Copies(sendQueue[k], m) = 0
      <4>1. \A f \in Range(sendQueue[k]) : ~(f.type = "DATA" /\ f.msg = m)
        BY <2>4 DEF OwnData
      <4> QED BY <1>0, <4>1, CopiesNone
    <3>2. sendQueue'[Src[m]] = sendQueue[Src[m]]
      BY <1>0, <1>1, <2>1, <2>4
    <3>3. Copies(rx'[n], m) \in Nat
      <4>1. rx'[n] \in Seq(Frame)
        BY <1>0, <2>1 DEF Broadcasted
      <4> QED BY <4>1, CopiesNumber
    <3> QED BY <1>1, <2>1, <2>2, <3>1, <3>2, <3>3 DEF UnderWay
  <2> QED BY <2>3, <2>4
<1>4. CASE TransmitAcks(k)
  <2>1. UNCHANGED <<delivered, sendQueue>> /\ rx' = Broadcasted(k, ackQueue[k])
    BY <1>4 DEF TransmitAcks, histVars
  <2>2. Copies(ackQueue[k], m) = 0
    <3>1. \A f \in Range(ackQueue[k]) : ~(f.type = "DATA" /\ f.msg = m)
      BY DEF OwnData
    <3> QED BY <1>0, <3>1, CopiesNone
  <2>3. Copies(rx'[n], m) <= Copies(rx[n], m) /\ Copies(rx'[n], m) \in Nat
    <3>1. PICK b : b = rx[n] \o ackQueue[k]
      OBVIOUS
    <3>2. rx'[n] = rx[n] \/ rx'[n] = b
      BY <2>1, <3>1 DEF Broadcasted
    <3>3. Copies(b, m) <= Copies(rx[n], m) + Copies(ackQueue[k], m)
      BY <1>0, <3>1, CopiesConcat
    <3>4. Copies(b, m) \in Nat
      <4>1. b \in Seq(Frame)
        BY <1>0, <3>1
      <4> QED BY <4>1, CopiesNumber
    <3>5. Copies(rx'[n], m) = Copies(rx[n], m) \/ Copies(rx'[n], m) = Copies(b, m)
      BY <3>2
    <3> QED BY <1>1, <2>2, <3>3, <3>4, <3>5
  <2> QED BY <1>1, <2>1, <2>3 DEF UnderWay
<1> QED
  BY <1>3, <1>4

\* A frame is taken from the port, and given to the router at most once.
LEMMA ReceivePays ==
  ASSUME TypeOK, NEW k \in Node, Receive(k), NEW m \in Msg, NEW n \in Node
  PROVE  UnderWay(m, n)' <= UnderWay(m, n)
<1> DEFINE f == Head(rx[k])
<1>0. /\ delivered \in [Msg -> [Node -> Nat]] /\ rx \in [Node -> Seq(Frame)]
      /\ sendQueue \in [Node -> Seq(Frame)]
  BY DEF TypeOK
<1>1. /\ delivered[m][n] \in Nat /\ Copies(rx[n], m) \in Nat /\ Src[m] \in Node
      /\ Copies(sendQueue[Src[m]], m) \in Nat
  BY <1>0, CopiesAdd
<1>2. TakeFrame(k)
  BY DEF Receive, IgnoreFrame, ReceiveAck, ReceiveDuplicate, ReceiveNew
<1>3. rx[k] # <<>> /\ rx' = [rx EXCEPT ![k] = Tail(@)] /\ UNCHANGED sendQueue
  BY <1>2 DEF TakeFrame
<1>4. \/ UNCHANGED delivered
      \/ f.type = "DATA" /\ delivered' = [delivered EXCEPT ![f.msg][k] = @ + 1]
  BY DEF Receive, IgnoreFrame, ReceiveAck, ReceiveDuplicate, ReceiveNew
<1>5. CASE n # k
  <2>1. rx'[n] = rx[n] /\ delivered'[m][n] = delivered[m][n]
    BY <1>0, <1>3, <1>4, <1>5
  <2> QED BY <1>1, <1>3, <2>1 DEF UnderWay
<1>6. CASE n = k
  <2>1. /\ Copies(Tail(rx[k]), m) <= Copies(rx[k], m)
        /\ f.type = "DATA" /\ f.msg = m => Copies(Tail(rx[k]), m) + 1 <= Copies(rx[k], m)
    BY <1>0, <1>3, CopiesTail
  <2>2. Copies(Tail(rx[k]), m) \in Nat /\ rx'[k] = Tail(rx[k])
    <3>1. Tail(rx[k]) \in Seq(Frame)
      BY <1>0, <1>3, RangeTail
    <3> QED BY <1>0, <1>3, <3>1, CopiesNumber
  <2>3. \/ delivered'[m][k] = delivered[m][k]
        \/ f.type = "DATA" /\ f.msg = m /\ delivered'[m][k] = delivered[m][k] + 1
    BY <1>0, <1>4
  <2> HIDE DEF f
  <2> QED BY <1>1, <1>3, <1>6, <2>1, <2>2, <2>3 DEF UnderWay
<1> QED
  BY <1>5, <1>6

\* A node's queue that gains at most c copies of a request.
LEMMA QueueGains ==
  ASSUME TypeOK, NEW k \in Node, NEW q \in Seq(Frame), NEW m \in Msg, NEW n \in Node,
         NEW c \in Nat,
         UNCHANGED <<delivered, rx>>, sendQueue' = [sendQueue EXCEPT ![k] = q],
         k = Src[m] => Copies(q, m) <= Copies(sendQueue[k], m) + c
  PROVE  UnderWay(m, n)' <= UnderWay(m, n) + c
<1>0. /\ delivered \in [Msg -> [Node -> Nat]] /\ rx \in [Node -> Seq(Frame)]
      /\ sendQueue \in [Node -> Seq(Frame)]
  BY DEF TypeOK
<1>1. /\ delivered[m][n] \in Nat /\ Copies(rx[n], m) \in Nat /\ Src[m] \in Node
      /\ Copies(sendQueue[Src[m]], m) \in Nat /\ Copies(q, m) \in Nat
  BY <1>0, CopiesAdd, CopiesNumber
<1>2. CASE k = Src[m]
  <2>1. sendQueue'[Src[m]] = q
    BY <1>0, <1>2
  <2> QED BY <1>1, <1>2, <2>1 DEF UnderWay
<1>3. CASE k # Src[m]
  <2>1. sendQueue'[Src[m]] = sendQueue[Src[m]]
    BY <1>0, <1>1, <1>3
  <2> QED BY <1>1, <2>1 DEF UnderWay
<1> QED
  BY <1>2, <1>3

\* A pass over m_pending_acks sends a request at most once more.
LEMMA PassAddsOne ==
  ASSUME TypeOK, OwedInv, NEW k \in Node, NEW E \in SUBSET Outstanding(k),
         NEW t \in SetToSeqs(E), NEW m \in Msg
  PROVE  LET r == [i \in DOMAIN t |-> DataFrame(pending[k][t[i]].msg, t[i])]
         IN  /\ r \in Seq(Frame) /\ Copies(r, m) <= 1
             /\ (\A s \in E : pending[k][s].msg # m) => Copies(r, m) = 0
<1> DEFINE r == [i \in DOMAIN t |-> DataFrame(pending[k][t[i]].msg, t[i])]
           A == CopiesAt(r, m)
           g == [i \in A |-> 1]
<1>1. E \in SUBSET Seqs
  BY DEF Outstanding
<1>2. t \in Seq(E) /\ \A i \in DOMAIN t : t[i] \in E /\ t[i] \in Seqs
  BY <1>1, OrderOfSeqs
<1>3. \A i, j \in DOMAIN t : t[i] = t[j] => i = j
  <2>1. \A i, j \in 1..Cardinality(E) : i # j => t[i] # t[j]
    BY DEF SetToSeqs
  <2>2. DOMAIN t = 1..Cardinality(E)
    BY DEF SetToSeqs
  <2> QED BY <2>1, <2>2
<1>4. \A s \in E : pending[k][s].msg \in Msg /\ seqOf[pending[k][s].msg] = s
  BY DEF OwedInv, PendingOwed, Unicast
<1>5. r \in Seq(Frame)
  BY <1>2, <1>4, FrameTypes
<1>6. A \subseteq DOMAIN t /\ \A i \in A : pending[k][t[i]].msg = m
  BY DEF CopiesAt, DataFrame
<1>7. \A i, j \in A : i = j
  BY <1>2, <1>3, <1>4, <1>6
<1>8. IsFiniteSet({1}) /\ Cardinality({1}) = 1
  BY FS_Singleton
<1>9. g \in [A -> {1}]
  OBVIOUS
<1>10. Cardinality(A) <= 1
  <2> HIDE DEF A, g
  <2> QED BY <1>7, <1>8, <1>9, CopiesMapped
<1>11. ASSUME \A s \in E : pending[k][s].msg # m PROVE Copies(r, m) = 0
  <2>1. A = {}
    BY <1>2, <1>6, <1>11
  <2> QED BY <2>1, FS_EmptySet DEF Copies
<1> HIDE DEF r
<1> QED
  BY <1>5, <1>10, <1>11 DEF Copies, r

LEMMA PaidStep ==
  ASSUME TypeOK, TypeOK', OwedInv, OwnData, AllPaid, [Next]_vars
  PROVE  AllPaid'
<1> USE MsgAssumption
<1> SUFFICES ASSUME NEW m \in Msg, NEW n \in Node PROVE Paid(m, n)'
  BY DEF AllPaid
<1>0. /\ Paid(m, n) /\ Src[m] \in Node /\ pending \in [Node -> [Seqs -> Entry]]
      /\ sendQueue \in [Node -> Seq(Frame)] /\ sending \in [Node -> Msg \cup {NoMsg}]
      /\ submitted \subseteq Msg
  BY DEF AllPaid, TypeOK
<1>a. UnderWay(m, n) \in Nat /\ UnderWay(m, n)' \in Nat
  <2>1. /\ delivered \in [Msg -> [Node -> Nat]] /\ delivered' \in [Msg -> [Node -> Nat]]
        /\ rx \in [Node -> Seq(Frame)] /\ rx' \in [Node -> Seq(Frame)]
        /\ sendQueue \in [Node -> Seq(Frame)] /\ sendQueue' \in [Node -> Seq(Frame)]
    BY DEF TypeOK
  <2>2. UnderWay(m, n) \in Nat
    BY <2>1, CopiesAdd DEF UnderWay
  <2>3. UnderWay(m, n)' \in Nat
    BY <2>1, CopiesAdd DEF UnderWay
  <2> QED BY <2>2, <2>3
<1>b. \A s \in Seqs : pending[Src[m]][s].retries \in Nat /\ pending[Src[m]][s].retries <= MaxRetries
  <2>1. \A s \in Seqs : pending[Src[m]][s] \in Entry
    BY <1>0
  <2>2. \A e \in Entry : e.retries \in Nat /\ e.retries <= MaxRetries
    BY NumberAssumption DEF Entry
  <2> QED BY <2>1, <2>2
<1>c. MaxRetries \in Nat
  BY NumberAssumption
<1>1. ASSUME UnderWay(m, n)' <= UnderWay(m, n), UNCHANGED sending,
             m \in submitted => m \in submitted',
             \A s \in Seqs : pending'[Src[m]][s].msg = m =>
                /\ pending[Src[m]][s].msg = m
                /\ pending'[Src[m]][s].retries >= pending[Src[m]][s].retries
      PROVE  Paid(m, n)'
  BY <1>0, <1>1, PaidStays
<1>2. ASSUME UnderWay(m, n)' <= UnderWay(m, n), UNCHANGED <<sending, submitted, pending>>
      PROVE  Paid(m, n)'
  BY <1>1, <1>2, <1>b
<1>3. CASE Tick
  <2>1. UnderWay(m, n)' <= UnderWay(m, n)
    BY <1>3, NoCopyAdded DEF Tick
  <2>2. pending' = [k \in Node |-> Older(pending[k])] /\ UNCHANGED <<sending, submitted>>
    BY <1>3 DEF Tick
  <2>3. \A p \in [Seqs -> Entry] : \A s \in Seqs :
          Older(p)[s].msg = p[s].msg /\ Older(p)[s].retries = p[s].retries
    BY DEF Older, Entry
  <2>4. \A s \in Seqs : /\ pending'[Src[m]][s].msg = pending[Src[m]][s].msg
                        /\ pending'[Src[m]][s].retries = pending[Src[m]][s].retries
    BY <1>0, <2>2, <2>3
  <2> QED BY <1>1, <1>b, <2>1, <2>2, <2>4
<1>4. ASSUME NEW k \in Msg, Refuse(k) PROVE Paid(m, n)'
  <2>1. UNCHANGED <<delivered, rx, sendQueue, sending, pending>> /\ submitted \subseteq submitted'
    BY <1>4 DEF Refuse, linkVars
  <2>2. UnderWay(m, n)' <= UnderWay(m, n)
    BY <2>1, NoCopyAdded
  <2> QED BY <1>1, <1>b, <2>1, <2>2
<1>5. ASSUME NEW k \in Msg, Enqueue(k) PROVE Paid(m, n)'
  <2>1. /\ UNCHANGED <<delivered, rx, pending>> /\ submitted' = submitted \cup {k}
        /\ k \notin submitted /\ Src[k] \in Node /\ sending' = [sending EXCEPT ![Src[k]] = k]
        /\ sendQueue' = [sendQueue EXCEPT ![Src[k]] = Append(@, DataFrame(k, nextSeq[Src[k]]))]
    BY <1>5 DEF Enqueue
  <2>2. PICK x : x = DataFrame(k, nextSeq[Src[k]])
    OBVIOUS
  <2>3. x \in Frame /\ x.msg = k
    <3>1. nextSeq[Src[k]] \in Seqs
      BY <2>1 DEF TypeOK
    <3> QED BY <2>2, <3>1, FrameTypes DEF DataFrame
  <2>4. PICK q : q = Append(sendQueue[Src[k]], x)
    OBVIOUS
  <2>5. /\ q \in Seq(Frame) /\ sendQueue' = [sendQueue EXCEPT ![Src[k]] = q]
        /\ Copies(q, m) <= Copies(sendQueue[Src[k]], m) + 1
        /\ k # m => Copies(q, m) = Copies(sendQueue[Src[k]], m)
        /\ Copies(sendQueue[Src[k]], m) \in Nat
    <3>1. sendQueue[Src[k]] \in Seq(Frame)
      BY <1>0, <2>1
    <3>2. q \in Seq(Frame) /\ sendQueue' = [sendQueue EXCEPT ![Src[k]] = q]
      BY <1>0, <2>1, <2>2, <2>3, <2>4, <3>1
    <3> QED BY <2>3, <2>4, <3>1, <3>2, CopiesAppend, CopiesNumber
  <2>6. CASE k = m
    <3>1. UnderWay(m, n)' <= UnderWay(m, n) + 1
      BY <2>1, <2>5, QueueGains
    <3>2. UnderWay(m, n) = 0
      BY <1>0, <2>1, <2>6 DEF Paid
    <3>3. \A s \in Seqs : pending'[Src[m]][s].msg # m
      BY <1>0, <2>1, <2>6 DEF OwedInv, PendingOwed, Outstanding
    <3>4. UnderWay(m, n)' <= 1
      BY <1>a, <3>1, <3>2
    <3>5. m \in submitted'
      BY <2>1, <2>6
    <3>6. UnderWay(m, n)' <= 1 + MaxRetries
      BY <1>a, <1>c, <3>4
    <3> QED BY <3>3, <3>4, <3>5, <3>6 DEF Paid
  <2>7. CASE k # m
    <3>1. Copies(q, m) <= Copies(sendQueue[Src[k]], m) + 0
      BY <2>5, <2>7
    <3>2. UnderWay(m, n)' <= UnderWay(m, n) + 0
      BY <2>1, <2>5, <3>1, QueueGains
    <3>3. UnderWay(m, n)' <= UnderWay(m, n)
      BY <1>a, <3>2
    <3>4. sending'[Src[m]] = m => sending[Src[m]] = m
      BY <1>0, <2>1, <2>7
    <3>5. m \in submitted => m \in submitted'
      BY <2>1
    <3>6. \A s \in Seqs : pending'[Src[m]][s].msg = m =>
            /\ pending[Src[m]][s].msg = m
            /\ pending'[Src[m]][s].retries >= pending[Src[m]][s].retries
      BY <1>b, <2>1
    <3> QED BY <1>0, <3>3, <3>4, <3>5, <3>6, PaidStays
  <2> QED BY <2>6, <2>7
<1>6. ASSUME NEW k \in Node, Track(k) PROVE Paid(m, n)'
  <2>1. /\ UNCHANGED <<delivered, rx, sendQueue, submitted>> /\ sending[k] # NoMsg
        /\ sending' = [sending EXCEPT ![k] = NoMsg]
        /\ \/ pending' = pending
           \/ pending' = [pending EXCEPT ![k] = EmplacePending(@, sending[k], seqOf[sending[k]])]
    BY <1>6 DEF Track
  <2>2. UnderWay(m, n)' <= UnderWay(m, n)
    BY <2>1, NoCopyAdded
  <2>3. sending'[Src[m]] = m => sending[Src[m]] = m
    BY <1>0, <2>1
  <2>4. ASSUME NEW s \in Seqs, pending'[Src[m]][s].msg = m
        PROVE  \/ sending[Src[m]] = m
               \/ /\ pending[Src[m]][s].msg = m
                  /\ pending'[Src[m]][s].retries >= pending[Src[m]][s].retries
    <3>1. CASE pending'[Src[m]][s] = pending[Src[m]][s]
      BY <1>b, <2>4, <3>1
    <3>2. CASE pending'[Src[m]][s] # pending[Src[m]][s]
      <4>1. /\ k = Src[m]
            /\ pending'[k][s] = EmplacePending(pending[k], sending[k], seqOf[sending[k]])[s]
        BY <1>0, <2>1, <3>2
      <4>2. pending'[k][s] = [msg |-> sending[k], retries |-> 0, age |-> 0]
        BY <1>0, <3>2, <4>1 DEF EmplacePending
      <4> QED BY <2>4, <4>1, <4>2
    <3> QED BY <3>1, <3>2
  <2> QED BY <1>0, <2>1, <2>2, <2>3, <2>4, PaidStays
<1>7. ASSUME NEW k \in Node, TransmitData(k) \/ TransmitAcks(k) PROVE Paid(m, n)'
  <2>1. UnderWay(m, n)' <= UnderWay(m, n)
    BY <1>7, TransmitPays
  <2>2. UNCHANGED <<sending, submitted, pending>>
    BY <1>7 DEF TransmitData, TransmitAcks, histVars
  <2> QED BY <1>2, <2>1, <2>2
<1>8. ASSUME NEW k \in Node, WriteFails(k) PROVE Paid(m, n)'
  <2>1. UNCHANGED <<sending, submitted, pending, delivered, rx>>
    BY <1>8 DEF WriteFails
  <2>2. ASSUME NEW q \in Without(sendQueue[k]), sendQueue' = [sendQueue EXCEPT ![k] = q]
        PROVE  UnderWay(m, n)' <= UnderWay(m, n)
    <3>1. sendQueue[k] \in Seq(Frame)
      BY <1>0
    <3>2. q \in Seq(Frame) /\ Copies(q, m) <= Copies(sendQueue[k], m)
      BY <3>1, RangeWithout, CopiesWithout
    <3>3. Copies(sendQueue[k], m) \in Nat /\ Copies(q, m) \in Nat
      BY <3>1, <3>2, CopiesNumber
    <3>4. Copies(q, m) <= Copies(sendQueue[k], m) + 0
      BY <3>2, <3>3
    <3>5. UnderWay(m, n)' <= UnderWay(m, n) + 0
      BY <2>1, <2>2, <3>2, <3>4, QueueGains
    <3> QED BY <1>a, <3>5
  <2>3. CASE UNCHANGED sendQueue
    BY <1>2, <2>1, <2>3, NoCopyAdded
  <2> QED BY <1>2, <1>8, <2>1, <2>2, <2>3 DEF WriteFails
<1>9. ASSUME NEW k \in Node, Receive(k) PROVE Paid(m, n)'
  <2>1. UnderWay(m, n)' <= UnderWay(m, n)
    BY <1>9, ReceivePays
  <2>2. UNCHANGED <<sending, submitted>>
    BY <1>9 DEF Receive, IgnoreFrame, ReceiveAck, ReceiveDuplicate, ReceiveNew, TakeFrame
  <2>3. \/ UNCHANGED pending
        \/ pending' = [pending EXCEPT ![k] = [@ EXCEPT ![Head(rx[k]).seq] = NoEntry]]
    BY <1>9 DEF Receive, IgnoreFrame, ReceiveAck, ReceiveDuplicate, ReceiveNew, TakeFrame, Erase
  <2>4. \A s \in Seqs : pending'[Src[m]][s] = pending[Src[m]][s]
                          \/ pending'[Src[m]][s].msg = NoMsg
    <3>1. PICK z : z = Head(rx[k]).seq
      OBVIOUS
    <3>2. CASE UNCHANGED pending
      BY <3>2
    <3>3. CASE pending' = [pending EXCEPT ![k] = [@ EXCEPT ![z] = NoEntry]]
      <4>1. NoEntry.msg = NoMsg
        BY DEF NoEntry
      <4> QED BY <1>0, <3>3, <4>1
    <3> QED BY <2>3, <3>1, <3>2, <3>3
  <2> QED BY <1>1, <1>b, <2>1, <2>2, <2>4
<1>10. ASSUME NEW k \in Node, check_timeouts(k) PROVE Paid(m, n)'
  <2>0. UNCHANGED <<delivered, rx, sending, submitted>>
    BY <1>10 DEF check_timeouts
  <2>1. PICK E \in SUBSET Expired(k) :
          \E t \in SetToSeqs({s \in E : CanRetry(k, s)}) : TimeoutPass(k, E, t)
    BY <1>10 DEF check_timeouts
  <2>2. PICK t \in SetToSeqs({s \in E : CanRetry(k, s)}) : TimeoutPass(k, E, t)
    BY <2>1
  <2>3. PICK R : R = {s \in E : CanRetry(k, s)}
    OBVIOUS
  <2>4. R \in SUBSET Outstanding(k) /\ t \in SetToSeqs(R) /\ R \subseteq E
    BY <2>2, <2>3 DEF Expired
  <2>5. PICK r : r = [i \in DOMAIN t |-> DataFrame(pending[k][t[i]].msg, t[i])]
    OBVIOUS
  <2>6. /\ r \in Seq(Frame) /\ Copies(r, m) <= 1
        /\ (\A s \in R : pending[k][s].msg # m) => Copies(r, m) = 0
    BY <2>4, <2>5, PassAddsOne
  <2>7. PICK q : q = sendQueue[k] \o r
    OBVIOUS
  <2>8. /\ q \in Seq(Frame) /\ sendQueue' = [sendQueue EXCEPT ![k] = q]
    BY <1>0, <2>2, <2>5, <2>6, <2>7 DEF TimeoutPass
  <2>9. /\ Copies(q, m) <= Copies(sendQueue[k], m) + Copies(r, m)
        /\ Copies(q, m) \in Nat /\ Copies(sendQueue[k], m) \in Nat /\ Copies(r, m) \in Nat
    BY <1>0, <2>6, <2>7, <2>8, CopiesConcat, CopiesNumber
  <2>10. \A s \in Seqs : pending'[k][s] = IF s \notin E THEN pending[k][s]
                                          ELSE IF CanRetry(k, s) THEN Retried(pending[k][s])
                                          ELSE NoEntry
    BY <1>0, <2>2 DEF TimeoutPass
  <2>11. \A j \in Node \ {k} : pending'[j] = pending[j]
    BY <1>0, <2>2 DEF TimeoutPass
  <2>a. /\ \A e : Retried(e).msg = e.msg /\ Retried(e).retries = e.retries + 1
        /\ NoEntry.msg = NoMsg
    BY DEF Retried, NoEntry
  <2>12. CASE k = Src[m] /\ \E s \in R : pending[k][s].msg = m
    <3>1. PICK s \in R : pending[k][s].msg = m
      BY <2>12
    <3>2. /\ s \in Outstanding(k) /\ s \in E /\ s \in Seqs
          /\ pending[k][s].retries < MaxRetries
      BY <2>3, <2>4, <3>1 DEF CanRetry, Outstanding
    <3>3. /\ m \in submitted /\ seqOf[m] = s /\ sending[k] # m
      BY <3>1, <3>2 DEF OwedInv, PendingOwed
    <3>4. pending'[k][s].retries = pending[k][s].retries + 1
      <4>1. CanRetry(k, s)
        BY <2>3, <3>1
      <4>2. pending'[k][s] = Retried(pending[k][s])
        BY <2>10, <3>2, <4>1
      <4> QED BY <2>a, <4>2
    <3>5. ASSUME NEW z \in Seqs, pending'[k][z].msg = m PROVE z = s
      <4>1. pending[k][z].msg = m
        BY <2>10, <2>a, <3>5
      <4>2. z \in Outstanding(k)
        BY <4>1 DEF Outstanding
      <4> QED BY <3>3, <4>1, <4>2 DEF OwedInv, PendingOwed
    <3>6. UnderWay(m, n)' <= UnderWay(m, n) + 1
      <4>1. Copies(q, m) <= Copies(sendQueue[k], m) + 1
        BY <2>6, <2>9
      <4> QED BY <2>0, <2>8, <4>1, QueueGains
    <3>7. UnderWay(m, n) <= 1 + pending[k][s].retries /\ pending[k][s].retries \in Nat
      BY <1>0, <1>b, <2>12, <3>1, <3>2 DEF Paid
    <3>8. UnderWay(m, n)' <= 1 + (pending[k][s].retries + 1) /\ UnderWay(m, n)' <= 1 + MaxRetries
      BY <1>a, <1>c, <3>2, <3>6, <3>7
    <3> QED BY <2>0, <2>12, <3>3, <3>4, <3>5, <3>8 DEF Paid
  <2>13. CASE ~(k = Src[m] /\ \E s \in R : pending[k][s].msg = m)
    <3>1. UnderWay(m, n)' <= UnderWay(m, n) + 0
      <4>1. k = Src[m] => Copies(q, m) <= Copies(sendQueue[k], m) + 0
        BY <2>6, <2>9, <2>13
      <4> QED BY <2>0, <2>8, <4>1, QueueGains
    <3>2. UnderWay(m, n)' <= UnderWay(m, n)
      BY <1>a, <3>1
    <3>3. ASSUME NEW s \in Seqs, pending'[Src[m]][s].msg = m
          PROVE  /\ pending[Src[m]][s].msg = m
                 /\ pending'[Src[m]][s].retries >= pending[Src[m]][s].retries
      <4>1. CASE k # Src[m]
        BY <1>0, <1>b, <2>11, <3>3, <4>1
      <4>2. CASE k = Src[m]
        <5>1. \/ pending'[k][s] = pending[k][s]
              \/ pending'[k][s] = Retried(pending[k][s])
          BY <2>10, <2>a, <3>3, <4>2
        <5>2. pending[k][s].retries \in Nat
          BY <1>b, <4>2
        <5> QED BY <2>a, <3>3, <4>2, <5>1, <5>2
      <4> QED BY <4>1, <4>2
    <3> QED BY <1>1, <2>0, <3>2, <3>3
  <2> QED BY <2>12, <2>13
<1>11. ASSUME NEW k \in Node, Heartbeat(k) PROVE Paid(m, n)'
  <2>1. PICK x : x = HeartbeatFrame(k)
    OBVIOUS
  <2>2. x \in Frame /\ x.type # "DATA"
    BY <2>1, FrameTypes DEF HeartbeatFrame
  <2>3. PICK q : q = Append(sendQueue[k], x)
    OBVIOUS
  <2>4. /\ UNCHANGED <<delivered, rx, sending, submitted, pending>>
        /\ sendQueue' = [sendQueue EXCEPT ![k] = q]
    BY <1>11, <2>1, <2>3 DEF Heartbeat
  <2>5. sendQueue[k] \in Seq(Frame) /\ q \in Seq(Frame)
    BY <1>0, <2>2, <2>3
  <2>6. Copies(q, m) = Copies(sendQueue[k], m) /\ Copies(sendQueue[k], m) \in Nat
    BY <2>2, <2>3, <2>5, CopiesAppend, CopiesNumber
  <2>7. Copies(q, m) <= Copies(sendQueue[k], m) + 0
    BY <2>6
  <2>8. UnderWay(m, n)' <= UnderWay(m, n) + 0
    BY <2>4, <2>5, <2>7, QueueGains
  <2>9. UnderWay(m, n)' <= UnderWay(m, n)
    BY <1>a, <2>8
  <2> QED BY <1>2, <2>4, <2>9
<1>12. ASSUME NEW k \in Node, StopBegin(k) PROVE Paid(m, n)'
  BY <1>2, <1>12, NoCopyAdded DEF StopBegin, histVars
<1>13. ASSUME NEW k \in Node, StopEnd(k) PROVE Paid(m, n)'
  <2>1. /\ UNCHANGED <<delivered, rx, sendQueue, sending, submitted>>
        /\ pending' = [pending EXCEPT ![k] = [s \in Seqs |-> NoEntry]]
    BY <1>13 DEF StopEnd
  <2>2. UnderWay(m, n)' <= UnderWay(m, n)
    BY <2>1, NoCopyAdded
  <2>3. \A s \in Seqs : pending'[Src[m]][s] = pending[Src[m]][s]
                          \/ pending'[Src[m]][s].msg = NoMsg
    BY <1>0, <2>1 DEF NoEntry
  <2> QED BY <1>1, <1>b, <2>1, <2>2, <2>3
<1>14. CASE UNCHANGED vars
  BY <1>2, <1>14, NoCopyAdded DEF vars, linkVars, histVars
<1> QED
  BY <1>3, <1>4, <1>5, <1>6, <1>7, <1>8, <1>9, <1>10, <1>11, <1>12, <1>13, <1>14 DEF Next

\* A router is given a request at most 1 + MAX_RETRIES times (UwbHandle.cpp:221-269,
\* 316-345), for any number of nodes, requests, heartbeats and faults, also when
\* sequence numbers wrap: check_timeouts pays for every copy with a retry.
THEOREM DuplicationCorrect == Spec => []BoundedDuplication
<1>1. Init => OwnData /\ AllPaid
  <2> SUFFICES ASSUME Init PROVE OwnData /\ AllPaid
    OBVIOUS
  <2> USE MsgAssumption
  <2>1. <<>> \in Seq(Frame) /\ Range(<<>>) = {}
    BY DEF Range
  <2>2. OwnData
    BY <2>1 DEF Init, OwnData
  <2>3. ASSUME NEW m \in Msg, NEW n \in Node PROVE Paid(m, n)
    <3>1. Copies(<<>>, m) = 0
      BY <2>1, CopiesNone
    <3>2. UnderWay(m, n) = 0
      BY <3>1 DEF Init, UnderWay
    <3>3. sending[Src[m]] # m /\ \A s \in Seqs : pending[Src[m]][s].msg # m
      BY DEF Init, NoEntry
    <3> QED BY <3>2, <3>3, NumberAssumption DEF Paid
  <2> QED BY <2>2, <2>3 DEF AllPaid
<1>2. TypeOK /\ TypeOK' /\ OwedInv /\ OwnData /\ AllPaid /\ [Next]_vars
        => OwnData' /\ AllPaid'
  BY OwnDataStep, PaidStep
<1>3. TypeOK /\ AllPaid => BoundedDuplication
  <2> SUFFICES ASSUME TypeOK, AllPaid, NEW m \in Msg, NEW n \in Node
               PROVE  delivered[m][n] <= 1 + MaxRetries
    BY DEF BoundedDuplication
  <2>1. /\ delivered[m][n] \in Nat /\ Copies(rx[n], m) \in Nat
        /\ Copies(sendQueue[Src[m]], m) \in Nat
    BY CopiesAdd DEF TypeOK
  <2>2. delivered[m][n] + Copies(rx[n], m) + Copies(sendQueue[Src[m]], m) <= 1 + MaxRetries
    BY DEF AllPaid, Paid, UnderWay
  <2> QED BY <2>1, <2>2, NumberAssumption
<1>4. Init => OwedInv /\ CallbackOnce
  BY DEF Init, OwedInv, PendingOwed, SendingOwed, FreshUncalled, Outstanding,
         NoEntry, CallbackOnce
<1>5. TypeOK /\ OwedInv /\ CallbackOnce /\ [Next]_vars => OwedInv' /\ CallbackOnce'
  BY OwedStep
<1> QED
  BY <1>1, <1>2, <1>3, <1>4, <1>5, TypeCorrect, PTL DEF Spec
=============================================================================
