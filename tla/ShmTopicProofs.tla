--------------------------- MODULE ShmTopicProofs ---------------------------
(***************************************************************************)
(* What holds of ShmTopic for any processes, names, queue size and number  *)
(* of messages.                                                            *)
(***************************************************************************)
EXTENDS ShmTopic, TLAPS

USE DEF Source

\* Queue operations keep the type of a queue of messages.
LEMMA QueueType ==
  ASSUME NEW q \in Seq(Message), NEW m \in Message
  PROVE  /\ Append(q, m) \in Seq(Message)
         /\ Len(Append(q, m)) = Len(q) + 1
         /\ Len(q) \in Nat
         /\ Len(Append(q, m)) > 0
  OBVIOUS

LEMMA TailType ==
  ASSUME NEW q \in Seq(Message), q # <<>>
  PROVE  /\ Tail(q) \in Seq(Message) /\ Head(q) \in Message
         /\ Len(Tail(q)) = Len(q) - 1 /\ Len(q) \in Nat /\ Len(q) > 0
  OBVIOUS

LEMMA MessageType ==
  /\ Empty \in Message
  /\ \A s \in Source, n \in Nat : [src |-> s, no |-> n] \in Message
  BY DEF Message, Empty

\* publish2Node keeps the types of the Subscribers' queues and eventfds.
LEMMA ToSubscribersType ==
  ASSUME NEW m \in Message, ToSubscribers(m),
         subQueue \in [Proc -> Seq(Message)], subFd \in [Proc -> Nat]
  PROVE  subQueue' \in [Proc -> Seq(Message)] /\ subFd' \in [Proc -> Nat]
  BY QueueType DEF ToSubscribers

\* The types of all the state, for ShmTopic as the code has it: the count that
\* onEventfdRead pops never goes below zero.
THEOREM TypeCorrect == Spec => []TypeOK
<1>1. Init => TypeOK
  BY ProcAssumption DEF Init, TypeOK
<1>2. TypeOK /\ [Next]_vars => TypeOK'
  <2> SUFFICES ASSUME TypeOK, [Next]_vars PROVE TypeOK'
    OBVIOUS
  <2>1. ASSUME NEW p \in Proc, AddNode(p) PROVE TypeOK'
    BY <2>1, ProcAssumption DEF AddNode, TypeOK, pubVars, subVars
  <2>2. ASSUME NEW p \in Proc, AddPublish(p) PROVE TypeOK'
    BY <2>2 DEF AddPublish, CreatesPublisher, RunPublish, TypeOK, subVars
  <2>3. ASSUME NEW p \in Proc, AddSubscribe(p) PROVE TypeOK'
    BY <2>3 DEF AddSubscribe, CreatesSubscriber, TypeOK, pubVars, subVars
  <2>4. ASSUME NEW p \in Proc, DeleteNode(p) PROVE TypeOK'
    BY <2>4 DEF DeleteNode, Cancelled, TypeOK, subVars
  <2>5. ASSUME NEW p \in Proc, ReadCompletes(p) PROVE TypeOK'
    BY <2>5 DEF ReadCompletes, TypeOK, regVars, subVars
  <2>6. ASSUME NEW p \in Proc, BeginRead(p) PROVE TypeOK'
    BY <2>6 DEF BeginRead, TypeOK, regVars, pubVars, subVars
  <2>7. ASSUME NEW p \in Proc, Transfer(p) PROVE TypeOK'
    <3> DEFINE q == pubQueue[p]
               m == IF q = <<>> THEN Empty ELSE Head(q)
    <3>1. q \in Seq(Message) /\ m \in Message
      BY MessageType, TailType DEF TypeOK
    <3>2. pubQueue' \in [Proc -> Seq(Message)]
      BY <2>7, <3>1, TailType DEF Transfer, TypeOK
    <3>3. subQueue' \in [Proc -> Seq(Message)] /\ subFd' \in [Proc -> Nat]
      <4>1. ToSubscribers(m)
        BY <2>7 DEF Transfer
      <4> QED BY <4>1, <3>1, ToSubscribersType DEF TypeOK
    <3>4. forwarded' \in Seq(Message)
      BY <2>7, <3>1 DEF Transfer, TypeOK
    <3>5. value' \in [Proc -> Nat]
      BY <2>7 DEF Transfer, TypeOK
    <3> QED BY <2>7, <3>2, <3>3, <3>4, <3>5 DEF Transfer, TypeOK, regVars
  <2>8. ASSUME NEW p \in Proc, EndRead(p) PROVE TypeOK'
    BY <2>8 DEF EndRead, TypeOK, regVars, subVars
  <2>9. ASSUME RemoteMessage PROVE TypeOK'
    <3>0. count[Remote] + 1 \in Nat
      BY DEF TypeOK
    <3>1. [src |-> Remote, no |-> count[Remote] + 1] \in Message
      BY <3>0, MessageType
    <3>2. ToSubscribers([src |-> Remote, no |-> count[Remote] + 1])
      BY <2>9 DEF RemoteMessage
    <3>3. subQueue' \in [Proc -> Seq(Message)] /\ subFd' \in [Proc -> Nat]
      BY <3>1, <3>2, ToSubscribersType DEF TypeOK
    <3>4. count' \in [Source -> Nat]
      BY <2>9 DEF RemoteMessage, TypeOK
    <3> QED BY <2>9, <3>3, <3>4 DEF RemoteMessage, TypeOK, regVars, pubVars
  <2>10. ASSUME NEW p \in Proc, Publish(p) PROVE TypeOK'
    <3>0. count \in [Source -> Nat] /\ p \in Source /\ count[p] + 1 \in Nat
      BY DEF TypeOK
    <3>1. [src |-> p, no |-> count[p] + 1] \in Message
      BY <3>0, MessageType
    <3>2. pubQueue' \in [Proc -> Seq(Message)]
      <4>1. Append(pubQueue[p], [src |-> p, no |-> count[p] + 1]) \in Seq(Message)
        BY <3>1, QueueType DEF TypeOK
      <4> QED BY <2>10, <4>1 DEF Publish, TypeOK
    <3>3. count' \in [Source -> Nat]
      <4>1. count' = [count EXCEPT ![p] = count[p] + 1]
        BY <2>10 DEF Publish
      <4> QED BY <3>0, <4>1
    <3>4. unsignalled' \in [Proc -> {0, 1}]
      BY <2>10 DEF Publish, TypeOK
    <3> QED BY <2>10, <3>2, <3>3, <3>4 DEF Publish, TypeOK, regVars, subVars
  <2>11. ASSUME NEW p \in Proc, Signal(p) PROVE TypeOK'
    <3>1. pubFd' \in [Proc -> Nat]
      <4>1. pubFd \in [Proc -> Nat] /\ pubFd[p] + 1 \in Nat
        BY DEF TypeOK
      <4>2. pubFd' = [pubFd EXCEPT ![p] = pubFd[p] + 1]
        BY <2>11 DEF Signal
      <4> QED BY <4>1, <4>2
    <3>2. unsignalled' \in [Proc -> {0, 1}]
      BY <2>11 DEF Signal, TypeOK
    <3> QED BY <2>11, <3>1, <3>2 DEF Signal, TypeOK, regVars, subVars
  <2>12. ASSUME NEW p \in Proc, SubRead(p) PROVE TypeOK'
    BY <2>12 DEF SubRead, TypeOK, regVars, pubVars
  <2>13. ASSUME NEW p \in Proc, SubPop(p) PROVE TypeOK'
    <3>1. subQueue' \in [Proc -> Seq(Message)]
      <4>1. CASE subQueue[p] = <<>>
        BY <2>13, <4>1 DEF SubPop, TypeOK
      <4>2. CASE subQueue[p] # <<>>
        <5>1. Tail(subQueue[p]) \in Seq(Message)
          BY <4>2, TailType DEF TypeOK
        <5> QED BY <2>13, <4>2, <5>1 DEF SubPop, TypeOK
      <4> QED BY <4>1, <4>2
    <3>2. got' \in [Proc -> Seq(Message)]
      <4>1. CASE subQueue[p] = <<>>
        BY <2>13, <4>1 DEF SubPop, TypeOK
      <4>2. CASE subQueue[p] # <<>>
        <5>1. Head(subQueue[p]) \in Message
          BY <4>2, TailType DEF TypeOK
        <5>2. Append(got[p], Head(subQueue[p])) \in Seq(Message)
          BY <5>1, QueueType DEF TypeOK
        <5> QED BY <2>13, <4>2, <5>2 DEF SubPop, TypeOK
      <4> QED BY <4>1, <4>2
    <3>3. subValue' \in [Proc -> Nat]
      BY <2>13 DEF SubPop, TypeOK
    <3> QED BY <2>13, <3>1, <3>2, <3>3 DEF SubPop, TypeOK, regVars, pubVars
  <2>14. ASSUME NEW p \in Proc, Exit(p) PROVE TypeOK'
    BY <2>14 DEF Exit, TypeOK, pubVars, subVars
  <2>15. ASSUME NEW p \in Proc, Crash(p) PROVE TypeOK'
    <3>1. crashes' \in Nat
      BY <2>15 DEF Crash, TypeOK
    <3>2. proc' \in [Proc -> {"new", "up", "leaving", "gone"}]
      BY <2>15 DEF Crash, TypeOK
    <3> QED BY <2>15, <3>1, <3>2 DEF Crash, TypeOK, pubVars, subVars
  <2>16. CASE UNCHANGED vars
    BY <2>16 DEF vars, regVars, pubVars, subVars, TypeOK
  <2> QED
    BY <2>1, <2>2, <2>3, <2>4, <2>5, <2>6, <2>7, <2>8, <2>9, <2>10, <2>11,
       <2>12, <2>13, <2>14, <2>15, <2>16 DEF Next, Master
<1> QED
  BY <1>1, <1>2, PTL DEF Spec

-----------------------------------------------------------------------------

\* Counted is inductive together with what the state of the eventfd read says:
\* m_eventfdValue is zero whenever a new read may fill it, and a process has at
\* most one Publish.
ReadInv ==
  \A p \in Proc : /\ reading[p] # "ready" => value[p] = 0
                  /\ busy = p => reading[p] = "ready"
                  /\ p \notin created => reading[p] = "off"
                  /\ (p \in created /\ proc[p] = "up") => p \in publishes
                  /\ proc[p] = "new" => p \notin created

LEMMA ReadInvInductive ==
  /\ Init => ReadInv
  /\ TypeOK /\ ReadInv /\ [Next]_vars => ReadInv'
<1>1. Init => ReadInv
  BY ProcAssumption DEF Init, ReadInv
<1>2. ASSUME TypeOK, ReadInv, [Next]_vars PROVE ReadInv'
  <2> USE TypeOK, ReadInv DEF ReadInv
  <2>0. /\ proc \in [Proc -> {"new", "up", "leaving", "gone"}]
        /\ reading \in [Proc -> {"off", "armed", "ready"}]
        /\ value \in [Proc -> Nat] /\ NoProc \notin Proc
    BY ProcAssumption DEF TypeOK
  <2>1. ASSUME NEW p \in Proc, AddNode(p) PROVE ReadInv'
    BY <2>0, <2>1 DEF AddNode, pubVars, subVars
  <2>2. ASSUME NEW p \in Proc, AddPublish(p) PROVE ReadInv'
    BY <2>0, <2>2 DEF AddPublish, CreatesPublisher, RunPublish, subVars
  <2>3. ASSUME NEW p \in Proc, AddSubscribe(p) PROVE ReadInv'
    BY <2>3 DEF AddSubscribe, CreatesSubscriber, pubVars, subVars
  <2>4. ASSUME NEW p \in Proc, DeleteNode(p) PROVE ReadInv'
    BY <2>0, <2>4 DEF DeleteNode, Cancelled, subVars
  <2>5. ASSUME NEW p \in Proc, ReadCompletes(p) PROVE ReadInv'
    BY <2>0, <2>5 DEF ReadCompletes, regVars, subVars
  <2>6. ASSUME NEW p \in Proc, BeginRead(p) PROVE ReadInv'
    BY <2>0, <2>6 DEF BeginRead, regVars, pubVars, subVars
  <2>7. ASSUME NEW p \in Proc, Transfer(p) PROVE ReadInv'
    BY <2>0, <2>7 DEF Transfer, regVars
  <2>8. ASSUME NEW p \in Proc, EndRead(p) PROVE ReadInv'
    BY <2>0, <2>8 DEF EndRead, regVars, subVars
  <2>9. ASSUME RemoteMessage PROVE ReadInv'
    BY <2>9 DEF RemoteMessage, regVars, pubVars
  <2>10. ASSUME NEW p \in Proc, Publish(p) PROVE ReadInv'
    BY <2>10 DEF Publish, regVars, subVars
  <2>11. ASSUME NEW p \in Proc, Signal(p) PROVE ReadInv'
    BY <2>11 DEF Signal, regVars, subVars
  <2>12. ASSUME NEW p \in Proc, SubRead(p) PROVE ReadInv'
    BY <2>12 DEF SubRead, regVars, pubVars
  <2>13. ASSUME NEW p \in Proc, SubPop(p) PROVE ReadInv'
    BY <2>13 DEF SubPop, regVars, pubVars
  <2>14. ASSUME NEW p \in Proc, Exit(p) PROVE ReadInv'
    BY <2>0, <2>14 DEF Exit, pubVars, subVars
  <2>15. ASSUME NEW p \in Proc, Crash(p) PROVE ReadInv'
    BY <2>0, <2>15 DEF Crash, pubVars, subVars
  <2>16. CASE UNCHANGED vars
    BY <2>16 DEF vars, regVars, pubVars, subVars
  <2> QED
    BY <1>2, <2>1, <2>2, <2>3, <2>4, <2>5, <2>6, <2>7, <2>8, <2>9, <2>10, <2>11,
       <2>12, <2>13, <2>14, <2>15, <2>16 DEF Next, Master
<1> QED
  BY <1>1, <1>2

\* publish2Node pushes and counts, or does neither.
LEMMA ToSubscribersCounts ==
  ASSUME NEW m \in Message, ToSubscribers(m), TypeOK,
         NEW s \in Proc
  PROVE  Len(subQueue'[s]) - subFd'[s] = Len(subQueue[s]) - subFd[s]
<1>1. subQueue[s] \in Seq(Message) /\ subFd[s] \in Nat
  BY DEF TypeOK
<1>2. Len(Append(subQueue[s], m)) = Len(subQueue[s]) + 1 /\ Len(subQueue[s]) \in Nat
  BY <1>1, QueueType
<1>3. CASE s \in subscribes /\ HasRoom(subQueue[s])
  <2>1. subQueue'[s] = Append(subQueue[s], m) /\ subFd'[s] = subFd[s] + 1
    BY <1>3 DEF ToSubscribers
  <2> QED BY <1>1, <1>2, <2>1
<1>4. CASE ~(s \in subscribes /\ HasRoom(subQueue[s]))
  <2>1. subQueue'[s] = subQueue[s] /\ subFd'[s] = subFd[s]
    BY <1>4 DEF ToSubscribers
  <2> QED BY <2>1
<1> QED
  BY <1>3, <1>4

LEMMA CountedInductive ==
  /\ Init => Counted
  /\ TypeOK /\ TypeOK' /\ ReadInv /\ Counted /\ [Next]_vars => Counted'
<1>1. Init => Counted
  BY DEF Init, Counted
<1>2. ASSUME TypeOK, TypeOK', ReadInv, Counted, [Next]_vars PROVE Counted'
  <2> DEFINE PubCounted(r) == Len(pubQueue[r]) = value[r] + pubFd[r] + unsignalled[r]
             SubCounted(r) == Len(subQueue[r]) = subValue[r] + subFd[r]
  <2> SUFFICES ASSUME NEW r \in Proc PROVE PubCounted(r)' /\ SubCounted(r)'
    BY DEF Counted
  <2>0. /\ PubCounted(r) /\ SubCounted(r)
        /\ value[r] \in Nat /\ pubFd[r] \in Nat /\ unsignalled[r] \in {0, 1}
        /\ subValue[r] \in Nat /\ subFd[r] \in Nat
        /\ pubQueue[r] \in Seq(Message) /\ Len(pubQueue[r]) \in Nat
        /\ subQueue[r] \in Seq(Message) /\ Len(subQueue[r]) \in Nat
    <3>1. pubQueue[r] \in Seq(Message) /\ subQueue[r] \in Seq(Message)
      BY <1>2 DEF TypeOK
    <3>2. Len(pubQueue[r]) \in Nat /\ Len(subQueue[r]) \in Nat
      BY <3>1
    <3>3. PubCounted(r) /\ SubCounted(r)
      BY <1>2 DEF Counted
    <3> QED BY <1>2, <3>1, <3>2, <3>3 DEF TypeOK
  <2>00. /\ value \in [Proc -> Nat] /\ pubFd \in [Proc -> Nat]
         /\ unsignalled \in [Proc -> {0, 1}]
         /\ subValue \in [Proc -> Nat] /\ subFd \in [Proc -> Nat]
         /\ pubQueue \in [Proc -> Seq(Message)]
         /\ subQueue \in [Proc -> Seq(Message)]
    BY <1>2 DEF TypeOK
  <2>1. CASE UNCHANGED <<value, pubQueue, pubFd, unsignalled, subQueue, subFd, subValue>>
    BY <2>0, <2>1
  <2>5. ASSUME NEW p \in Proc, ReadCompletes(p)
        PROVE  PubCounted(r)' /\ SubCounted(r)'
    <3>1. SubCounted(r)'
      BY <2>0, <2>5 DEF ReadCompletes, subVars
    <3>2. CASE r # p
      BY <2>0, <2>00, <2>5, <3>1, <3>2 DEF ReadCompletes
    <3>3. CASE r = p
      <4>1. value[r] = 0
        BY <1>2, <2>5, <3>3 DEF ReadInv, ReadCompletes
      <4>2. /\ value'[r] = pubFd[r] /\ pubFd'[r] = 0
            /\ pubQueue' = pubQueue /\ unsignalled' = unsignalled
        BY <2>00, <2>5, <3>3 DEF ReadCompletes
      <4> QED BY <2>0, <4>1, <4>2, <3>1
    <3> QED BY <3>2, <3>3
  <2>7. ASSUME NEW p \in Proc, Transfer(p)
        PROVE  PubCounted(r)' /\ SubCounted(r)'
    <3> DEFINE m == IF pubQueue[p] = <<>> THEN Empty ELSE Head(pubQueue[p])
    <3>1. m \in Message /\ ToSubscribers(m) /\ subValue' = subValue
      BY <2>00, <2>7, MessageType, TailType DEF Transfer
    <3>2. SubCounted(r)'
      <4>1. Len(subQueue'[r]) - subFd'[r] = Len(subQueue[r]) - subFd[r]
        BY <1>2, <3>1, ToSubscribersCounts
      <4>2. Len(subQueue'[r]) \in Nat /\ subFd'[r] \in Nat
        <5>1. subQueue'[r] \in Seq(Message)
          BY <1>2 DEF TypeOK
        <5> QED BY <5>1, <1>2 DEF TypeOK
      <4> QED BY <2>0, <3>1, <4>1, <4>2
    <3>3. CASE r # p
      <4>1. /\ value'[r] = value[r] /\ pubQueue'[r] = pubQueue[r]
            /\ pubFd' = pubFd /\ unsignalled' = unsignalled
        BY <2>00, <2>7, <3>3 DEF Transfer
      <4> QED BY <2>0, <3>2, <4>1
    <3>4. CASE r = p
      <4>1. value[r] > 0 /\ Len(pubQueue[r]) > 0
        BY <2>0, <2>7, <3>4 DEF Transfer
      <4>2. pubQueue[r] # <<>>
        BY <4>1
      <4>3. /\ value'[r] = value[r] - 1 /\ pubQueue'[r] = Tail(pubQueue[r])
            /\ pubFd' = pubFd /\ unsignalled' = unsignalled
        BY <2>00, <2>7, <3>4, <4>2 DEF Transfer
      <4>4. Len(pubQueue'[r]) = Len(pubQueue[r]) - 1
        BY <2>0, <4>2, <4>3, TailType
      <4> QED BY <2>0, <3>2, <4>3, <4>4
    <3> QED BY <3>3, <3>4
  <2>9. ASSUME RemoteMessage PROVE PubCounted(r)' /\ SubCounted(r)'
    <3> DEFINE m == [src |-> Remote, no |-> count[Remote] + 1]
    <3>0. count \in [Source -> Nat] /\ Remote \in Source
      BY <1>2 DEF TypeOK
    <3>1. count[Remote] + 1 \in Nat
      BY <3>0
    <3>2. m \in Message /\ ToSubscribers(m) /\ subValue' = subValue
      BY <2>9, <3>1, MessageType DEF RemoteMessage
    <3>3. Len(subQueue'[r]) - subFd'[r] = Len(subQueue[r]) - subFd[r]
      BY <1>2, <3>2, ToSubscribersCounts
    <3>4. Len(subQueue'[r]) \in Nat /\ subFd'[r] \in Nat
      <4>1. subQueue'[r] \in Seq(Message)
        BY <1>2 DEF TypeOK
      <4> QED BY <4>1, <1>2 DEF TypeOK
    <3>5. SubCounted(r)'
      BY <2>0, <3>2, <3>3, <3>4
    <3> QED BY <2>0, <2>9, <3>5 DEF RemoteMessage, pubVars
  <2>10. ASSUME NEW p \in Proc, Publish(p)
         PROVE  PubCounted(r)' /\ SubCounted(r)'
    <3> DEFINE m == [src |-> p, no |-> count[p] + 1]
    <3>1. SubCounted(r)'
      BY <2>0, <2>10 DEF Publish, subVars
    <3>2. value' = value /\ pubFd' = pubFd
      BY <2>10 DEF Publish
    <3>3. CASE r = p /\ HasRoom(pubQueue[p])
      <4>0. count \in [Source -> Nat] /\ p \in Source
        BY <1>2 DEF TypeOK
      <4>1. count[p] + 1 \in Nat
        BY <4>0
      <4>2. m \in Message
        BY <4>0, <4>1, MessageType
      <4>3. /\ unsignalled[r] = 0 /\ unsignalled'[r] = 1
            /\ pubQueue'[r] = Append(pubQueue[r], m)
        BY <2>00, <2>10, <3>3 DEF Publish
      <4>4. Len(pubQueue'[r]) = Len(pubQueue[r]) + 1
        BY <2>0, <4>2, <4>3, QueueType
      <4> QED BY <2>0, <3>1, <3>2, <4>3, <4>4
    <3>4. CASE ~(r = p /\ HasRoom(pubQueue[p]))
      <4>1. pubQueue'[r] = pubQueue[r] /\ unsignalled'[r] = unsignalled[r]
        BY <2>00, <2>10, <3>4 DEF Publish
      <4> QED BY <2>0, <3>1, <3>2, <4>1
    <3> QED BY <3>3, <3>4
  <2>11. ASSUME NEW p \in Proc, Signal(p)
         PROVE  PubCounted(r)' /\ SubCounted(r)'
    <3>1. SubCounted(r)' /\ value' = value /\ pubQueue' = pubQueue
      BY <2>0, <2>11 DEF Signal, subVars
    <3>2. CASE r = p
      <4>1. /\ unsignalled[r] = 1 /\ unsignalled'[r] = 0
            /\ pubFd'[r] = pubFd[r] + 1
        BY <2>00, <2>11, <3>2 DEF Signal
      <4> QED BY <2>0, <3>1, <4>1
    <3>3. CASE r # p
      <4>1. unsignalled'[r] = unsignalled[r] /\ pubFd'[r] = pubFd[r]
        BY <2>00, <2>11, <3>3 DEF Signal
      <4> QED BY <2>0, <3>1, <4>1
    <3> QED BY <3>2, <3>3
  <2>12. ASSUME NEW p \in Proc, SubRead(p)
         PROVE  PubCounted(r)' /\ SubCounted(r)'
    <3>1. PubCounted(r)' /\ subQueue' = subQueue
      BY <2>0, <2>12 DEF SubRead, pubVars
    <3>2. \/ r = p /\ subValue[r] = 0 /\ subValue'[r] = subFd[r] /\ subFd'[r] = 0
          \/ subValue'[r] = subValue[r] /\ subFd'[r] = subFd[r]
      BY <2>00, <2>12 DEF SubRead
    <3> QED BY <2>0, <3>1, <3>2
  <2>13. ASSUME NEW p \in Proc, SubPop(p)
         PROVE  PubCounted(r)' /\ SubCounted(r)'
    <3>1. PubCounted(r)' /\ subFd' = subFd
      BY <2>0, <2>13 DEF SubPop, pubVars
    <3>2. CASE r # p
      <4>1. subQueue'[r] = subQueue[r] /\ subValue'[r] = subValue[r]
        BY <2>00, <2>13, <3>2 DEF SubPop
      <4> QED BY <2>0, <3>1, <4>1
    <3>3. CASE r = p
      <4>1. subValue[r] > 0 /\ Len(subQueue[r]) > 0
        BY <2>0, <2>13, <3>3 DEF SubPop
      <4>2. subQueue[r] # <<>>
        BY <4>1
      <4>3. subQueue'[r] = Tail(subQueue[r]) /\ subValue'[r] = subValue[r] - 1
        BY <2>00, <2>13, <3>3, <4>2 DEF SubPop
      <4>4. Len(subQueue'[r]) = Len(subQueue[r]) - 1
        BY <2>0, <4>2, <4>3, TailType
      <4> QED BY <2>0, <3>1, <4>3, <4>4
    <3> QED BY <3>2, <3>3
  <2>14. ASSUME NEW p \in Proc,
                \/ AddNode(p) \/ AddPublish(p) \/ AddSubscribe(p) \/ DeleteNode(p)
                \/ BeginRead(p) \/ EndRead(p) \/ Exit(p) \/ Crash(p)
         PROVE  UNCHANGED <<value, pubQueue, pubFd, unsignalled, subQueue, subFd, subValue>>
    BY <2>14 DEF AddNode, AddPublish, AddSubscribe, DeleteNode, BeginRead, EndRead,
                 Exit, Crash, pubVars, subVars
  <2>15. CASE UNCHANGED vars
    BY <2>1, <2>15 DEF vars, pubVars, subVars
  <2> QED
    BY <1>2, <2>1, <2>5, <2>7, <2>9, <2>10, <2>11, <2>12, <2>13, <2>14, <2>15
       DEF Next, Master
<1> QED
  BY <1>1, <1>2

\* The eventfd protocol of Publisher and Publish, and of Subscribe and
\* Subscriber, keeps count of the queues exactly.
THEOREM CountedCorrect == Spec => []Counted
  BY TypeCorrect, ReadInvInductive, CountedInductive, PTL DEF Spec

\* The untested pop of onEventfdRead, and the tested one of onRead, always find
\* a message: for any number of processes, however they leave or die.
THEOREM PopCorrect == Spec => []PopFindsMessage
<1>1. TypeOK /\ Counted => PopFindsMessage
  <2> SUFFICES ASSUME TypeOK, Counted, NEW p \in Proc
               PROVE  /\ value[p] > 0 => pubQueue[p] # <<>>
                      /\ subValue[p] > 0 => subQueue[p] # <<>>
    BY DEF PopFindsMessage
  <2>1. /\ value[p] \in Nat /\ pubFd[p] \in Nat /\ unsignalled[p] \in {0, 1}
        /\ subValue[p] \in Nat /\ subFd[p] \in Nat
        /\ Len(pubQueue[p]) = value[p] + pubFd[p] + unsignalled[p]
        /\ Len(subQueue[p]) = subValue[p] + subFd[p]
    BY DEF TypeOK, Counted
  <2>2. ASSUME value[p] > 0 PROVE Len(pubQueue[p]) > 0
    BY <2>1, <2>2
  <2>3. ASSUME subValue[p] > 0 PROVE Len(subQueue[p]) > 0
    BY <2>1, <2>3
  <2>4. pubQueue[p] = <<>> => Len(pubQueue[p]) = 0
    OBVIOUS
  <2>5. subQueue[p] = <<>> => Len(subQueue[p]) = 0
    OBVIOUS
  <2> QED BY <2>2, <2>3, <2>4, <2>5
<1> QED
  BY <1>1, TypeCorrect, CountedCorrect, PTL

-----------------------------------------------------------------------------
(* The order of messages *)

\* A message that is newer than what q holds of its source; one that is older.
Newer(m, q) == \A i \in 1..Len(q) : q[i].src = m.src => q[i].no < m.no
Older(m, q) == \A i \in 1..Len(q) : q[i].src = m.src => m.no < q[i].no

LEMMA AppendOrdered ==
  ASSUME NEW q \in Seq(Message), NEW m \in Message, Ordered(q), Newer(m, q)
  PROVE  Ordered(Append(q, m))
  BY DEF Ordered, Newer

LEMMA TailOrdered ==
  ASSUME NEW q \in Seq(Message), q # <<>>, Ordered(q)
  PROVE  Ordered(Tail(q)) /\ Older(Head(q), Tail(q))
<1>1. Len(Tail(q)) = Len(q) - 1 /\ Len(q) \in Nat /\ Len(q) > 0
  BY TailType
<1>2. Head(q) = q[1] /\ \A i \in 1..Len(Tail(q)) : Tail(q)[i] = q[i + 1]
  BY <1>1
<1> QED BY <1>1, <1>2 DEF Ordered, Older

LEMMA AppendLeft ==
  ASSUME NEW q \in Seq(Message), NEW r \in Seq(Message), NEW m \in Message,
         Before(q, r), Older(m, r)
  PROVE  Before(Append(q, m), r)
<1>1. \A i \in 1..Len(Append(q, m)) :
        (i \in 1..Len(q) /\ Append(q, m)[i] = q[i]) \/ Append(q, m)[i] = m
  OBVIOUS
<1> QED BY <1>1 DEF Before, Older

LEMMA AppendRight ==
  ASSUME NEW q \in Seq(Message), NEW r \in Seq(Message), NEW m \in Message,
         Before(q, r), Newer(m, q)
  PROVE  Before(q, Append(r, m))
<1>1. \A i \in 1..Len(Append(r, m)) :
        (i \in 1..Len(r) /\ Append(r, m)[i] = r[i]) \/ Append(r, m)[i] = m
  OBVIOUS
<1> QED BY <1>1 DEF Before, Newer

LEMMA TailRight ==
  ASSUME NEW q \in Seq(Message), NEW r \in Seq(Message), r # <<>>, Before(q, r)
  PROVE  Before(q, Tail(r)) /\ Newer(Head(r), q)
<1>1. Len(Tail(r)) = Len(r) - 1 /\ Len(r) \in Nat /\ Len(r) > 0
  BY TailType
<1>2. Head(r) = r[1] /\ \A i \in 1..Len(Tail(r)) : Tail(r)[i] = r[i + 1]
  BY <1>1
<1> QED BY <1>1, <1>2 DEF Before, Newer

LEMMA TailLeft ==
  ASSUME NEW q \in Seq(Message), NEW r \in Seq(Message), q # <<>>, Before(q, r)
  PROVE  Before(Tail(q), r) /\ Older(Head(q), r)
<1>1. Len(Tail(q)) = Len(q) - 1 /\ Len(q) \in Nat /\ Len(q) > 0
  BY TailType
<1>2. Head(q) = q[1] /\ \A i \in 1..Len(Tail(q)) : Tail(q)[i] = q[i + 1]
  BY <1>1
<1> QED BY <1>1, <1>2 DEF Before, Older

LEMMA AppendPublished ==
  ASSUME NEW q \in Seq(Message), NEW m \in Message, NEW c \in [Source -> Nat],
         Published(q, c), m.no \in 1..c[m.src]
  PROVE  Published(Append(q, m), c)
<1>1. \A i \in 1..Len(Append(q, m)) :
        (i \in 1..Len(q) /\ Append(q, m)[i] = q[i]) \/ Append(q, m)[i] = m
  OBVIOUS
<1> QED BY <1>1 DEF Published

LEMMA TailPublished ==
  ASSUME NEW q \in Seq(Message), q # <<>>, NEW c \in [Source -> Nat], Published(q, c)
  PROVE  Published(Tail(q), c) /\ Head(q).no \in 1..c[Head(q).src]
<1>1. Len(Tail(q)) = Len(q) - 1 /\ Len(q) \in Nat /\ Len(q) > 0
  BY TailType
<1>2. Head(q) = q[1] /\ \A i \in 1..Len(Tail(q)) : Tail(q)[i] = q[i + 1]
  BY <1>1
<1> QED BY <1>1, <1>2 DEF Published

\* The next message of a source is newer than all that was published, and
\* publishing it leaves them published.
LEMMA NextPublished ==
  ASSUME NEW q \in Seq(Message), NEW c \in [Source -> Nat], NEW src \in Source,
         Published(q, c)
  PROVE  /\ Newer([src |-> src, no |-> c[src] + 1], q)
         /\ Published(q, [c EXCEPT ![src] = c[src] + 1])
<1>1. \A i \in 1..Len(q) : q[i] \in Message
  OBVIOUS
<1>2. \A i \in 1..Len(q) : q[i].src \in Source /\ q[i].no \in Nat
  BY <1>1 DEF Message
<1>3. Newer([src |-> src, no |-> c[src] + 1], q)
  BY <1>2 DEF Newer, Published
<1>4. Published(q, [c EXCEPT ![src] = c[src] + 1])
  BY <1>2 DEF Published
<1> QED BY <1>3, <1>4

\* A Publisher's queue holds its own process's messages.
OwnMessages ==
  \A p \in Proc : \A i \in 1..Len(pubQueue[p]) : pubQueue[p][i].src = p

LEMMA OwnInductive ==
  /\ Init => OwnMessages
  /\ TypeOK /\ OwnMessages /\ [Next]_vars => OwnMessages'
<1>1. Init => OwnMessages
  BY DEF Init, OwnMessages
<1>2. ASSUME TypeOK, OwnMessages, [Next]_vars PROVE OwnMessages'
  <2>0. pubQueue \in [Proc -> Seq(Message)]
    BY <1>2 DEF TypeOK
  <2> SUFFICES ASSUME NEW r \in Proc, NEW i \in 1..Len(pubQueue'[r])
               PROVE  pubQueue'[r][i].src = r
    BY DEF OwnMessages
  <2>1. CASE pubQueue'[r] = pubQueue[r]
    BY <1>2, <2>1 DEF OwnMessages
  <2>2. ASSUME NEW p \in Proc, Publish(p) PROVE pubQueue'[r][i].src = r
    <3> DEFINE m == [src |-> p, no |-> count[p] + 1]
    <3>1. pubQueue'[r] = pubQueue[r] \/ (r = p /\ pubQueue'[r] = Append(pubQueue[r], m))
      BY <2>0, <2>2 DEF Publish
    <3>2. CASE r = p /\ pubQueue'[r] = Append(pubQueue[r], m)
      <4>1. pubQueue[r] \in Seq(Message)
        BY <2>0
      <4>2. (i \in 1..Len(pubQueue[r]) /\ pubQueue'[r][i] = pubQueue[r][i]) \/ pubQueue'[r][i] = m
        BY <3>2, <4>1
      <4> QED BY <1>2, <3>2, <4>2 DEF OwnMessages
    <3> QED BY <2>1, <3>1, <3>2
  <2>3. ASSUME NEW p \in Proc, Transfer(p) PROVE pubQueue'[r][i].src = r
    <3>1. pubQueue'[r] = pubQueue[r] \/ (pubQueue[r] # <<>> /\ pubQueue'[r] = Tail(pubQueue[r]))
      BY <2>0, <2>3 DEF Transfer
    <3>2. CASE pubQueue[r] # <<>> /\ pubQueue'[r] = Tail(pubQueue[r])
      <4>1. pubQueue[r] \in Seq(Message)
        BY <2>0
      <4>2. i + 1 \in 1..Len(pubQueue[r]) /\ pubQueue'[r][i] = pubQueue[r][i + 1]
        BY <3>2, <4>1, TailType
      <4> QED BY <1>2, <4>2 DEF OwnMessages
    <3> QED BY <2>1, <3>1, <3>2
  <2>4. ASSUME NEW p \in Proc,
               \/ AddNode(p) \/ AddPublish(p) \/ AddSubscribe(p) \/ DeleteNode(p)
               \/ ReadCompletes(p) \/ BeginRead(p) \/ EndRead(p) \/ Signal(p)
               \/ SubRead(p) \/ SubPop(p) \/ Exit(p) \/ Crash(p)
        PROVE  pubQueue' = pubQueue
    BY <2>4 DEF AddNode, AddPublish, AddSubscribe, DeleteNode, ReadCompletes, BeginRead,
                EndRead, Signal, SubRead, SubPop, Exit, Crash, pubVars
  <2>5. RemoteMessage \/ UNCHANGED vars => pubQueue' = pubQueue
    BY DEF RemoteMessage, vars, pubVars
  <2> QED BY <1>2, <2>1, <2>2, <2>3, <2>4, <2>5 DEF Next, Master
<1> QED
  BY <1>1, <1>2

\* publish2Node appends to a Subscriber's queue or drops.
LEMMA ToSubscribersAppends ==
  ASSUME NEW m \in Message, ToSubscribers(m), NEW s \in Proc
  PROVE  subQueue'[s] = subQueue[s] \/ subQueue'[s] = Append(subQueue[s], m)
  BY DEF ToSubscribers

\* A message newer than what a Subscriber has or will get keeps its order.
LEMMA DeliverInOrder ==
  ASSUME NEW m \in Message, NEW q \in Seq(Message), NEW g \in Seq(Message),
         NEW q2, q2 = q \/ q2 = Append(q, m), NEW c \in [Source -> Nat],
         Ordered(q), Published(q, c), Before(g, q),
         Newer(m, q), Newer(m, g), m.no \in 1..c[m.src]
  PROVE  Ordered(q2) /\ Published(q2, c) /\ Before(g, q2)
  BY AppendOrdered, AppendPublished, AppendRight

LEMMA InOrderInductive ==
  /\ Init => InOrder
  /\ TypeOK /\ TypeOK' /\ PopFindsMessage /\ OwnMessages /\ InOrder /\ [Next]_vars
       => InOrder'
<1>1. Init => InOrder
  BY DEF Init, InOrder, Ordered, Before, Published
<1>2. ASSUME TypeOK, TypeOK', PopFindsMessage, OwnMessages, InOrder, [Next]_vars
      PROVE  InOrder'
  <2> DEFINE Part(r, s) ==
        /\ Ordered(forwarded) /\ Published(forwarded, count)
        /\ Ordered(pubQueue[r]) /\ Published(pubQueue[r], count)
        /\ Before(forwarded, pubQueue[r])
        /\ Ordered(subQueue[s]) /\ Published(subQueue[s], count)
        /\ Ordered(got[s]) /\ Published(got[s], count)
        /\ Before(got[s], subQueue[s])
        /\ Before(subQueue[s], pubQueue[r]) /\ Before(got[s], pubQueue[r])
  <2>a. ASSUME Proc = {} PROVE InOrder'
    <3>1. UNCHANGED <<forwarded, count>> \/ (forwarded' = forwarded /\ RemoteMessage)
      BY <1>2, <2>a DEF Next, RemoteMessage, vars
    <3>2. Ordered(forwarded) /\ Published(forwarded, count)
      BY <1>2 DEF InOrder
    <3>3. count \in [Source -> Nat] /\ Remote \in Source /\ forwarded \in Seq(Message)
      BY <1>2 DEF TypeOK
    <3>4. RemoteMessage => count' = [count EXCEPT ![Remote] = count[Remote] + 1]
      BY DEF RemoteMessage
    <3>5. Ordered(forwarded') /\ Published(forwarded', count')
      BY <3>1, <3>2, <3>3, <3>4, NextPublished
    <3> QED BY <2>a, <3>5 DEF InOrder
  <2>b. ASSUME \A r, s \in Proc : Part(r, s)', Proc # {} PROVE InOrder'
    BY <2>b DEF InOrder
  <2> SUFFICES ASSUME NEW r \in Proc, NEW s \in Proc PROVE Part(r, s)'
    BY <2>a, <2>b
  <2>0. Part(r, s)
    BY <1>2 DEF InOrder
  <2>1. /\ forwarded \in Seq(Message) /\ pubQueue[r] \in Seq(Message)
        /\ subQueue[s] \in Seq(Message) /\ got[s] \in Seq(Message)
        /\ pubQueue \in [Proc -> Seq(Message)] /\ subQueue \in [Proc -> Seq(Message)]
        /\ got \in [Proc -> Seq(Message)] /\ count \in [Source -> Nat]
    BY <1>2 DEF TypeOK
  <2>2. CASE UNCHANGED <<forwarded, pubQueue, subQueue, got, count>>
    BY <2>0, <2>2
  <2>3. ASSUME NEW p \in Proc, Transfer(p) PROVE Part(r, s)'
    <3> DEFINE q == pubQueue[p]
               m == Head(q)
    <3>1. q # <<>> /\ q \in Seq(Message) /\ m \in Message
      BY <1>2, <2>1, <2>3, TailType DEF PopFindsMessage, Transfer
    <3>2. /\ forwarded' = Append(forwarded, m) /\ got' = got /\ count' = count
          /\ ToSubscribers(m)
      BY <2>3, <3>1 DEF Transfer
    <3>3. pubQueue'[r] = IF r = p THEN Tail(q) ELSE pubQueue[r]
      BY <2>1, <2>3, <3>1 DEF Transfer
    <3>4. subQueue'[s] = subQueue[s] \/ subQueue'[s] = Append(subQueue[s], m)
      BY <3>1, <3>2, ToSubscribersAppends
    <3>5. /\ Ordered(q) /\ Published(q, count) /\ Before(forwarded, q)
          /\ Before(subQueue[s], q) /\ Before(got[s], q)
      BY <1>2 DEF InOrder
    <3>6. m.no \in 1..count[m.src]
      BY <2>1, <3>1, <3>5, TailPublished
    <3>7. Newer(m, forwarded) /\ Newer(m, subQueue[s]) /\ Newer(m, got[s])
      BY <2>1, <3>1, <3>5, TailRight
    <3>8. pubQueue'[r] \in Seq(Message)
      BY <2>1, <3>1, <3>3, TailType
    <3>9. Older(m, pubQueue'[r])
      <4>1. CASE r = p
        BY <3>1, <3>3, <3>5, <4>1, TailOrdered
      <4>2. CASE r # p
        <5>1. m = q[1] /\ 1 \in 1..Len(q)
          BY <3>1, TailType
        <5>2. m.src = p
          BY <1>2, <5>1 DEF OwnMessages
        <5>3. \A i \in 1..Len(pubQueue[r]) : pubQueue[r][i].src = r
          BY <1>2 DEF OwnMessages
        <5> QED BY <3>3, <4>2, <5>2, <5>3 DEF Older
      <4> QED BY <4>1, <4>2
    <3>10. /\ Ordered(pubQueue'[r]) /\ Published(pubQueue'[r], count)
           /\ Before(forwarded, pubQueue'[r]) /\ Before(subQueue[s], pubQueue'[r])
           /\ Before(got[s], pubQueue'[r])
      <4>1. CASE r = p
        BY <2>1, <3>1, <3>3, <3>5, <4>1, TailOrdered, TailPublished, TailRight
      <4>2. CASE r # p
        BY <2>0, <3>3, <4>2
      <4> QED BY <4>1, <4>2
    <3>11. /\ Ordered(forwarded') /\ Published(forwarded', count)
           /\ Before(forwarded', pubQueue'[r])
      BY <2>0, <2>1, <3>1, <3>2, <3>6, <3>7, <3>8, <3>9, <3>10,
         AppendOrdered, AppendPublished, AppendLeft
    <3>12. /\ Ordered(subQueue'[s]) /\ Published(subQueue'[s], count)
           /\ Before(got[s], subQueue'[s])
      BY <2>0, <2>1, <3>1, <3>4, <3>6, <3>7, DeliverInOrder
    <3>13. Before(subQueue'[s], pubQueue'[r])
      BY <2>1, <3>1, <3>4, <3>8, <3>9, <3>10, AppendLeft
    <3> QED BY <2>0, <3>2, <3>10, <3>11, <3>12, <3>13
  <2>4. ASSUME RemoteMessage PROVE Part(r, s)'
    <3> DEFINE m == [src |-> Remote, no |-> count[Remote] + 1]
               c == [count EXCEPT ![Remote] = count[Remote] + 1]
    <3>1. /\ forwarded' = forwarded /\ pubQueue' = pubQueue /\ got' = got
          /\ count' = c /\ ToSubscribers(m)
      BY <2>4 DEF RemoteMessage, pubVars
    <3>2. Remote \in Source /\ c \in [Source -> Nat] /\ count[Remote] + 1 \in Nat
      BY <2>1
    <3>3. m \in Message
      BY <3>2, MessageType
    <3>4. subQueue'[s] = subQueue[s] \/ subQueue'[s] = Append(subQueue[s], m)
      BY <3>1, <3>3, ToSubscribersAppends
    <3>5. /\ Published(forwarded, c) /\ Published(pubQueue[r], c)
          /\ Published(subQueue[s], c) /\ Published(got[s], c)
          /\ Newer(m, subQueue[s]) /\ Newer(m, got[s])
      BY <2>0, <2>1, <3>2, NextPublished
    <3>6. m.no \in 1..c[m.src]
      BY <2>1, <3>2
    <3>7. /\ Ordered(subQueue'[s]) /\ Published(subQueue'[s], c)
          /\ Before(got[s], subQueue'[s])
      BY <2>0, <2>1, <3>2, <3>3, <3>4, <3>5, <3>6, DeliverInOrder
    <3>8. Older(m, pubQueue[r])
      <4>1. \A i \in 1..Len(pubQueue[r]) : pubQueue[r][i].src = r
        BY <1>2 DEF OwnMessages
      <4>2. r # Remote
        BY ProcAssumption
      <4> QED BY <4>1, <4>2 DEF Older
    <3>9. Before(subQueue'[s], pubQueue[r])
      BY <2>0, <2>1, <3>3, <3>4, <3>8, AppendLeft
    <3> QED BY <2>0, <3>1, <3>5, <3>7, <3>9
  <2>5. ASSUME NEW p \in Proc, Publish(p) PROVE Part(r, s)'
    <3> DEFINE m == [src |-> p, no |-> count[p] + 1]
               c == [count EXCEPT ![p] = count[p] + 1]
    <3>1. /\ forwarded' = forwarded /\ subQueue' = subQueue /\ got' = got
          /\ count' = c
      BY <2>5 DEF Publish, subVars
    <3>2. p \in Source /\ c \in [Source -> Nat] /\ count[p] + 1 \in Nat
      BY <2>1
    <3>3. m \in Message
      BY <3>2, MessageType
    <3>4. pubQueue'[r] = pubQueue[r] \/ pubQueue'[r] = Append(pubQueue[r], m)
      BY <2>1, <2>5 DEF Publish
    <3>5. /\ Published(forwarded, c) /\ Published(pubQueue[r], c)
          /\ Published(subQueue[s], c) /\ Published(got[s], c)
          /\ Newer(m, forwarded) /\ Newer(m, pubQueue[r])
          /\ Newer(m, subQueue[s]) /\ Newer(m, got[s])
      BY <2>0, <2>1, <3>2, NextPublished
    <3>6. m.no \in 1..c[m.src]
      BY <2>1, <3>2
    <3>7. Ordered(pubQueue'[r]) /\ Published(pubQueue'[r], c)
      BY <2>0, <2>1, <3>2, <3>3, <3>4, <3>5, <3>6, AppendOrdered, AppendPublished
    <3>8. /\ Before(forwarded, pubQueue'[r]) /\ Before(subQueue[s], pubQueue'[r])
          /\ Before(got[s], pubQueue'[r])
      BY <2>0, <2>1, <3>3, <3>4, <3>5, AppendRight
    <3> QED BY <2>0, <3>1, <3>5, <3>7, <3>8
  <2>6. ASSUME NEW p \in Proc, SubPop(p) PROVE Part(r, s)'
    <3> DEFINE q == subQueue[s]
    <3>1. forwarded' = forwarded /\ pubQueue' = pubQueue /\ count' = count
      BY <2>6 DEF SubPop, pubVars
    <3>2. CASE subQueue'[s] = q /\ got'[s] = got[s]
      BY <2>0, <3>1, <3>2
    <3>3. CASE q # <<>> /\ subQueue'[s] = Tail(q) /\ got'[s] = Append(got[s], Head(q))
      <4>1. Tail(q) \in Seq(Message) /\ Head(q) \in Message
        BY <2>1, <3>3, TailType
      <4>2. /\ Ordered(Tail(q)) /\ Older(Head(q), Tail(q))
            /\ Published(Tail(q), count) /\ Head(q).no \in 1..count[Head(q).src]
        BY <2>0, <2>1, <3>3, TailOrdered, TailPublished
      <4>3. Before(got[s], Tail(q)) /\ Newer(Head(q), got[s])
        BY <2>0, <2>1, <3>3, TailRight
      <4>4. Before(Tail(q), pubQueue[r]) /\ Older(Head(q), pubQueue[r])
        BY <2>0, <2>1, <3>3, TailLeft
      <4>5. Ordered(got'[s]) /\ Published(got'[s], count)
        BY <2>0, <2>1, <3>3, <4>1, <4>2, <4>3, AppendOrdered, AppendPublished
      <4>6. Before(got'[s], Tail(q)) /\ Before(got'[s], pubQueue[r])
        BY <2>0, <2>1, <3>3, <4>1, <4>2, <4>3, <4>4, AppendLeft
      <4> QED BY <2>0, <3>1, <3>3, <4>2, <4>4, <4>5, <4>6
    <3>4. \/ subQueue'[s] = q /\ got'[s] = got[s]
          \/ q # <<>> /\ subQueue'[s] = Tail(q) /\ got'[s] = Append(got[s], Head(q))
      BY <2>1, <2>6 DEF SubPop
    <3> QED BY <3>2, <3>3, <3>4
  <2>7. ASSUME NEW p \in Proc,
               \/ AddNode(p) \/ AddPublish(p) \/ AddSubscribe(p) \/ DeleteNode(p)
               \/ ReadCompletes(p) \/ BeginRead(p) \/ EndRead(p) \/ Signal(p)
               \/ SubRead(p) \/ Exit(p) \/ Crash(p)
        PROVE  UNCHANGED <<forwarded, pubQueue, subQueue, got, count>>
    BY <2>7 DEF AddNode, AddPublish, AddSubscribe, DeleteNode, ReadCompletes, BeginRead,
                EndRead, Signal, SubRead, Exit, Crash, pubVars, subVars
  <2>8. CASE UNCHANGED vars
    BY <2>2, <2>8 DEF vars, pubVars, subVars
  <2> QED BY <1>2, <2>2, <2>3, <2>4, <2>5, <2>6, <2>7, <2>8 DEF Next, Master
<1> QED
  BY <1>1, <1>2

\* Per source, messages keep their order on the whole way from publish() to the
\* subscribers' callbacks and to the other hosts, without duplicates, whatever
\* is dropped on the way and whoever joins, leaves or dies.
THEOREM InOrderCorrect == Spec => []InOrder
  BY TypeCorrect, PopCorrect, OwnInductive, InOrderInductive, PTL DEF Spec

\* The tables of the topic hold only what belongs to registered processes.
THEOREM RegisteredCorrect == Spec => []Registered
<1>1. Init => Registered
  BY DEF Init, Registered
<1>2. TypeOK /\ Registered /\ [Next]_vars => Registered'
  <2> SUFFICES ASSUME TypeOK, Registered, [Next]_vars,
                      NEW r \in (publishes \cup subscribes)'
               PROVE  nodes'[NameOf[r]] = r
    BY DEF Registered
  <2>0. /\ nodes \in [Name -> Proc \cup {NoProc}] /\ publishes \subseteq Proc
        /\ subscribes \subseteq Proc /\ NameOf \in [Proc -> Name] /\ NoProc \notin Proc
    BY ProcAssumption DEF TypeOK
  <2>1. ASSUME NEW p \in Proc, AddNode(p) PROVE nodes'[NameOf[r]] = r
    BY <2>0, <2>1 DEF AddNode, Registered
  <2>2. ASSUME NEW p \in Proc, AddPublish(p) PROVE nodes'[NameOf[r]] = r
    BY <2>0, <2>2 DEF AddPublish, CreatesPublisher, RunPublish, Registered
  <2>3. ASSUME NEW p \in Proc, AddSubscribe(p) PROVE nodes'[NameOf[r]] = r
    BY <2>0, <2>3 DEF AddSubscribe, CreatesSubscriber, Registered
  <2>4. ASSUME NEW p \in Proc, DeleteNode(p) PROVE nodes'[NameOf[r]] = r
    <3>1. r # p /\ r \in publishes \cup subscribes /\ nodes[NameOf[p]] = p
      BY <2>4 DEF DeleteNode
    <3>2. nodes[NameOf[r]] = r
      BY <3>1 DEF Registered
    <3>3. NameOf[r] # NameOf[p]
      BY <3>1, <3>2
    <3> QED BY <2>0, <2>4, <3>2, <3>3 DEF DeleteNode
  <2>5. CASE UNCHANGED <<nodes, publishes, subscribes>>
    BY <2>5 DEF Registered
  <2>6. ASSUME NEW p \in Proc,
               \/ ReadCompletes(p) \/ BeginRead(p) \/ Transfer(p) \/ EndRead(p)
               \/ Publish(p) \/ Signal(p) \/ SubRead(p) \/ SubPop(p)
               \/ Exit(p) \/ Crash(p)
        PROVE  UNCHANGED <<nodes, publishes, subscribes>>
    BY <2>6 DEF ReadCompletes, BeginRead, Transfer, EndRead, Publish, Signal, SubRead,
                SubPop, Exit, Crash, regVars
  <2>7. RemoteMessage \/ UNCHANGED vars => UNCHANGED <<nodes, publishes, subscribes>>
    BY DEF RemoteMessage, vars, regVars
  <2> QED
    BY <2>1, <2>2, <2>3, <2>4, <2>5, <2>6, <2>7 DEF Next, Master
<1> QED
  BY <1>1, <1>2, TypeCorrect, PTL DEF Spec

-----------------------------------------------------------------------------

\* The queues alone keep their bound: a push goes through HasRoom, on both sides.
LengthBound ==
  \A p \in Proc : Len(pubQueue[p]) <= QueueSize /\ Len(subQueue[p]) <= QueueSize

\* publish2Node keeps the bound of a Subscriber's queue.
LEMMA ToSubscribersBound ==
  ASSUME NEW m \in Message, ToSubscribers(m), NEW s \in Proc,
         subQueue[s] \in Seq(Message), Len(subQueue[s]) <= QueueSize
  PROVE  Len(subQueue'[s]) <= QueueSize
<1>1. CASE s \in subscribes /\ HasRoom(subQueue[s])
  <2>1. subQueue'[s] = Append(subQueue[s], m)
    BY <1>1 DEF ToSubscribers
  <2>2. Len(subQueue'[s]) = Len(subQueue[s]) + 1 /\ Len(subQueue[s]) \in Nat
    BY <2>1, QueueType
  <2> QED BY <1>1, <2>2, BoundAssumption DEF HasRoom
<1>2. CASE ~(s \in subscribes /\ HasRoom(subQueue[s]))
  BY <1>2 DEF ToSubscribers
<1> QED
  BY <1>1, <1>2

LEMMA LengthInductive ==
  /\ Init => LengthBound
  /\ TypeOK /\ LengthBound /\ [Next]_vars => LengthBound'
<1>1. Init => LengthBound
  BY BoundAssumption DEF Init, LengthBound
<1>2. ASSUME TypeOK, LengthBound, [Next]_vars PROVE LengthBound'
  <2> SUFFICES ASSUME NEW r \in Proc
               PROVE  Len(pubQueue'[r]) <= QueueSize /\ Len(subQueue'[r]) <= QueueSize
    BY DEF LengthBound
  <2>0. /\ pubQueue \in [Proc -> Seq(Message)] /\ subQueue \in [Proc -> Seq(Message)]
        /\ pubQueue[r] \in Seq(Message) /\ subQueue[r] \in Seq(Message)
        /\ count \in [Source -> Nat]
    BY <1>2 DEF TypeOK
  <2>1. /\ Len(pubQueue[r]) <= QueueSize /\ Len(subQueue[r]) <= QueueSize
        /\ Len(pubQueue[r]) \in Nat /\ Len(subQueue[r]) \in Nat /\ QueueSize \in Nat
    BY <1>2, <2>0, BoundAssumption DEF LengthBound
  <2>2. ASSUME NEW p \in Proc, Transfer(p)
        PROVE  Len(pubQueue'[r]) <= QueueSize /\ Len(subQueue'[r]) <= QueueSize
    <3> DEFINE m == IF pubQueue[p] = <<>> THEN Empty ELSE Head(pubQueue[p])
    <3>1. m \in Message /\ ToSubscribers(m)
      BY <2>0, <2>2, MessageType, TailType DEF Transfer
    <3>2. pubQueue'[r] = pubQueue[r] \/ (pubQueue[r] # <<>> /\ pubQueue'[r] = Tail(pubQueue[r]))
      BY <2>0, <2>2 DEF Transfer
    <3>3. Len(pubQueue'[r]) <= Len(pubQueue[r]) /\ Len(pubQueue'[r]) \in Nat
      BY <2>0, <2>1, <3>2, TailType
    <3>4. Len(subQueue'[r]) <= QueueSize
      BY <2>0, <2>1, <3>1, ToSubscribersBound
    <3> QED BY <2>1, <3>3, <3>4
  <2>3. ASSUME RemoteMessage
        PROVE  Len(pubQueue'[r]) <= QueueSize /\ Len(subQueue'[r]) <= QueueSize
    <3> DEFINE m == [src |-> Remote, no |-> count[Remote] + 1]
    <3>1. Remote \in Source /\ count[Remote] + 1 \in Nat
      BY <2>0
    <3>2. m \in Message /\ ToSubscribers(m) /\ pubQueue' = pubQueue
      BY <2>3, <3>1, MessageType DEF RemoteMessage, pubVars
    <3> QED BY <2>0, <2>1, <3>2, ToSubscribersBound
  <2>4. ASSUME NEW p \in Proc, Publish(p)
        PROVE  Len(pubQueue'[r]) <= QueueSize /\ Len(subQueue'[r]) <= QueueSize
    <3> DEFINE m == [src |-> p, no |-> count[p] + 1]
    <3>1. p \in Source /\ count[p] + 1 \in Nat
      BY <2>0
    <3>2. m \in Message /\ subQueue' = subQueue
      BY <2>4, <3>1, MessageType DEF Publish, subVars
    <3>3. \/ pubQueue'[r] = pubQueue[r]
          \/ HasRoom(pubQueue[r]) /\ pubQueue'[r] = Append(pubQueue[r], m)
      BY <2>0, <2>4 DEF Publish
    <3>4. Len(Append(pubQueue[r], m)) = Len(pubQueue[r]) + 1
      BY <2>0, <3>2, QueueType
    <3> QED BY <2>1, <3>2, <3>3, <3>4 DEF HasRoom
  <2>5. ASSUME NEW p \in Proc, SubPop(p)
        PROVE  Len(pubQueue'[r]) <= QueueSize /\ Len(subQueue'[r]) <= QueueSize
    <3>1. pubQueue' = pubQueue
      BY <2>5 DEF SubPop, pubVars
    <3>2. subQueue'[r] = subQueue[r] \/ (subQueue[r] # <<>> /\ subQueue'[r] = Tail(subQueue[r]))
      BY <2>0, <2>5 DEF SubPop
    <3>3. Len(subQueue'[r]) <= Len(subQueue[r]) /\ Len(subQueue'[r]) \in Nat
      BY <2>0, <2>1, <3>2, TailType
    <3> QED BY <2>1, <3>1, <3>3
  <2>6. ASSUME NEW p \in Proc,
               \/ AddNode(p) \/ AddPublish(p) \/ AddSubscribe(p) \/ DeleteNode(p)
               \/ ReadCompletes(p) \/ BeginRead(p) \/ EndRead(p) \/ Signal(p)
               \/ SubRead(p) \/ Exit(p) \/ Crash(p)
        PROVE  UNCHANGED <<pubQueue, subQueue>>
    BY <2>6 DEF AddNode, AddPublish, AddSubscribe, DeleteNode, ReadCompletes, BeginRead,
                EndRead, Signal, SubRead, Exit, Crash, pubVars, subVars
  <2>7. UNCHANGED vars => UNCHANGED <<pubQueue, subQueue>>
    BY DEF vars, pubVars, subVars
  <2> QED BY <1>2, <2>1, <2>2, <2>3, <2>4, <2>5, <2>6, <2>7 DEF Next, Master
<1> QED
  BY <1>1, <1>2

\* The eventfds count messages that are in the queues, so they have their bound.
LEMMA CountsBounded == TypeOK /\ Counted /\ LengthBound => QueueBound
<1> SUFFICES ASSUME TypeOK, Counted, LengthBound, NEW p \in Proc
             PROVE  /\ Len(pubQueue[p]) <= QueueSize /\ Len(subQueue[p]) <= QueueSize
                    /\ pubFd[p] <= QueueSize /\ subFd[p] <= QueueSize
  BY DEF QueueBound
<1>1. /\ pubFd[p] \in Nat /\ value[p] \in Nat /\ unsignalled[p] \in {0, 1}
      /\ subFd[p] \in Nat /\ subValue[p] \in Nat
  BY DEF TypeOK
<1> QED
  BY <1>1, BoundAssumption DEF Counted, LengthBound

\* The memory of a topic stays bounded for any number of processes and messages:
\* no queue passes QUEUE_SIZE and no eventfd counts past it, even when the
\* consumer is dead and nobody ever reads its eventfd again.
THEOREM QueueBoundCorrect == Spec => []QueueBound
  BY TypeCorrect, CountedCorrect, LengthInductive, CountsBounded, PTL DEF Spec
=============================================================================
