-------------------------- MODULE DirectoryProofs ---------------------------
(***************************************************************************)
(* What holds of Directory for any hosts, nodes, topics and bounds.        *)
(***************************************************************************)
EXTENDS Directory, SequenceTheorems, TLAPS

\* Changing one link's value keeps the type of a table of links.
LEMMA LinkType ==
  ASSUME NEW S, NEW f \in [Host -> [Host -> S]], NEW h \in Host, NEW o \in Host,
         NEW v \in S
  PROVE  [f EXCEPT ![h] = [f[h] EXCEPT ![o] = v]] \in [Host -> [Host -> S]]
  OBVIOUS

LEMMA RequestType ==
  /\ \A e \in Entry : [kind |-> "add", entry |-> e] \in Request
  /\ \A n \in Node : [kind |-> "delete", node |-> n] \in Request
  /\ \A b \in SUBSET Entry : /\ [kind |-> "new", body |-> b] \in Request
                             /\ [kind |-> "reply", body |-> b] \in Request
  BY DEF Request

LEMMA RequestParts ==
  ASSUME NEW r \in Request
  PROVE  /\ r.kind = "add" => r.entry \in Entry
         /\ r.kind = "delete" => r.node \in Node
         /\ r.kind \in {"new", "reply"} => r.body \in SUBSET Entry
  BY DEF Request

LEMMA SeqParts ==
  ASSUME NEW q \in Seq(Request), q # <<>>
  PROVE  Head(q) \in Request /\ Tail(q) \in Seq(Request)
  OBVIOUS

LEMMA TopicsType == \A b \in SUBSET Entry : Topics(b) \subseteq Topic
  BY DEF Topics, Entry

\* broadcast keeps the type of the queues.
LEMMA BroadcastType ==
  ASSUME NEW h \in Host, NEW r \in Request, queue \in [Host -> [Host -> Seq(Request)]],
         broadcast(h, r)
  PROVE  queue' \in [Host -> [Host -> Seq(Request)]]
<1> DEFINE f == [o \in Host |-> IF o = h THEN queue[h][o] ELSE Append(queue[h][o], r)]
<1>1. queue' = [queue EXCEPT ![h] = f]
  BY DEF broadcast
<1>2. f \in [Host -> Seq(Request)]
  OBVIOUS
<1> QED BY <1>1, <1>2

\* A handler of a request keeps the types of what it changes.
LEMMA HandleType ==
  ASSUME TypeOK, NEW o \in Host, NEW h \in Host, NEW r \in Request, Handle(o, h, r)
  PROVE  /\ view' \in [Host -> [Host -> SUBSET Entry]]
         /\ topic2host' \in [Host -> SUBSET (Topic \X Host)]
         /\ queue' \in [Host -> [Host -> Seq(Request)]]
<1>0. /\ view \in [Host -> [Host -> SUBSET Entry]]
      /\ topic2host \in [Host -> SUBSET (Topic \X Host)]
      /\ queue \in [Host -> [Host -> Seq(Request)]]
      /\ reg \in [Host -> SUBSET Entry]
      /\ view[o][h] \in SUBSET Entry /\ reg[o] \in SUBSET Entry
      /\ queue[o][h] \in Seq(Request)
  BY DEF TypeOK
<1>1. CASE r.kind = "add" /\ HandleAdd(o, h, r.entry)
  <2>1. r.entry \in Entry /\ Topics({r.entry}) \subseteq Topic
    BY <1>1, RequestParts, TopicsType
  <2>2. view' = [view EXCEPT ![o] = [view[o] EXCEPT ![h] = view[o][h] \cup {r.entry}]]
    BY <1>1 DEF HandleAdd
  <2>3. view[o][h] \cup {r.entry} \in SUBSET Entry
    BY <1>0, <2>1
  <2>4. view' \in [Host -> [Host -> SUBSET Entry]]
    BY <1>0, <2>2, <2>3, LinkType
  <2>5. Topics({r.entry}) \X {h} \subseteq Topic \X Host
    BY <2>1
  <2> QED BY <1>0, <1>1, <2>4, <2>5 DEF HandleAdd
<1>2. CASE r.kind = "delete" /\ HandleDelete(o, h, r.node)
  <2>1. view' = [view EXCEPT ![o] =
                   [view[o] EXCEPT ![h] = view[o][h] \ OfNode(view[o][h], r.node)]]
    BY <1>2 DEF HandleDelete
  <2>2. view[o][h] \ OfNode(view[o][h], r.node) \in SUBSET Entry
    BY <1>0
  <2>3. view' \in [Host -> [Host -> SUBSET Entry]]
    BY <1>0, <2>1, <2>2, LinkType
  <2> QED BY <1>0, <1>2, <2>3 DEF HandleDelete
<1>3. CASE r.kind \in {"new", "reply"} /\ HandleNew(o, h, r)
  <2>1. r.body \in SUBSET Entry
    BY <1>3, RequestParts
  <2>2. view' = [view EXCEPT ![o] = [view[o] EXCEPT ![h] = r.body]]
    BY <1>3 DEF HandleNew, TakeList
  <2>3. view' \in [Host -> [Host -> SUBSET Entry]]
    BY <1>0, <2>1, <2>2, LinkType
  <2>4. Topics(r.body) \X {h} \subseteq Topic \X Host
    BY <2>1, TopicsType
  <2>5. topic2host' \in [Host -> SUBSET (Topic \X Host)]
    BY <1>0, <1>3, <2>4 DEF HandleNew, TakeList
  <2> DEFINE reply == [kind |-> "reply", body |-> reg[o]]
  <2>9. reply \in Request
    BY <1>0, RequestType
  <2> HIDE DEF reply
  <2>6. Append(queue[o][h], reply) \in Seq(Request)
    BY <1>0, <2>9
  <2>7. \/ queue' = queue
        \/ queue' = [queue EXCEPT ![o] = [queue[o] EXCEPT ![h] =
                       Append(queue[o][h], reply)]]
    BY <1>3 DEF HandleNew, reply
  <2>8. queue' \in [Host -> [Host -> Seq(Request)]]
    <3>1. [queue EXCEPT ![o] = [queue[o] EXCEPT ![h] = Append(queue[o][h], reply)]]
             \in [Host -> [Host -> Seq(Request)]]
      BY <1>0, <2>6, LinkType
    <3> QED BY <1>0, <2>7, <3>1
  <2> QED BY <2>3, <2>5, <2>8
<1> QED
  BY <1>1, <1>2, <1>3 DEF Handle

\* The tables and queues of all hosts keep their types; in particular topic2host
\* only ever holds subscribed topics and known hosts.
THEOREM TypeCorrect == Spec => []TypeOK
<1>1. Init => TypeOK
  BY DEF Init, TypeOK, PerLink
<1>2. TypeOK /\ [Next]_vars => TypeOK'
  <2> SUFFICES ASSUME TypeOK, [Next]_vars PROVE TypeOK'
    OBVIOUS
  <2>0. /\ reg \in [Host -> SUBSET Entry]
        /\ view \in [Host -> [Host -> SUBSET Entry]]
        /\ topic2host \in [Host -> SUBSET (Topic \X Host)]
        /\ conn \in [Host -> [Host -> {"down", "up", "dead", "reset"}]]
        /\ queue \in [Host -> [Host -> Seq(Request)]]
        /\ wire \in [Host -> [Host -> Seq(Request)]]
        /\ late \in [Host -> [Host -> Seq(Request)]]
        /\ gap \in [Host -> [Host -> BOOLEAN]]
        /\ ops \in Nat /\ faults \in Nat
    BY DEF TypeOK
  <2>1. ASSUME NEW h \in Host, NEW e \in Entry, Add(h, e) PROVE TypeOK'
    <3>1. queue' \in [Host -> [Host -> Seq(Request)]]
      BY <2>0, <2>1, BroadcastType, RequestType DEF Add
    <3>2. reg' \in [Host -> SUBSET Entry] /\ ops' \in Nat
      BY <2>0, <2>1 DEF Add
    <3> QED BY <2>0, <2>1, <3>1, <3>2 DEF Add, TypeOK
  <2>2. ASSUME NEW h \in Host, NEW n \in Node, DeleteNode(h, n) PROVE TypeOK'
    <3>1. queue' \in [Host -> [Host -> Seq(Request)]]
      BY <2>0, <2>2, BroadcastType, RequestType DEF DeleteNode
    <3>2. reg' \in [Host -> SUBSET Entry] /\ ops' \in Nat
      BY <2>0, <2>2 DEF DeleteNode
    <3> QED BY <2>0, <2>2, <3>1, <3>2 DEF DeleteNode, TypeOK
  <2>3. ASSUME NEW h \in Host, Restart(h) PROVE TypeOK'
    <3>1. reg' \in [Host -> SUBSET Entry] /\ view' \in [Host -> [Host -> SUBSET Entry]]
      BY <2>0, <2>3 DEF Restart
    <3>2. topic2host' \in [Host -> SUBSET (Topic \X Host)] /\ faults' \in Nat
      BY <2>0, <2>3 DEF Restart
    <3>3. conn' \in [Host -> [Host -> {"down", "up", "dead", "reset"}]]
      BY <2>0, <2>3 DEF Restart
    <3>4. queue' \in [Host -> [Host -> Seq(Request)]]
      BY <2>0, <2>3 DEF Restart
    <3>5. wire' \in [Host -> [Host -> Seq(Request)]]
      BY <2>0, <2>3 DEF Restart
    <3>6. \A g, o \in Host : late[g][o] \o wire[g][o] \in Seq(Request)
      BY <2>0
    <3>7. late' \in [Host -> [Host -> Seq(Request)]]
      BY <2>0, <2>3, <3>6 DEF Restart
    <3>8. gap' \in [Host -> [Host -> BOOLEAN]]
      BY <2>0, <2>3 DEF Restart
    <3> QED BY <2>0, <2>3, <3>1, <3>2, <3>3, <3>4, <3>5, <3>7, <3>8 DEF Restart, TypeOK
  <2>4. ASSUME NEW h \in Host, NEW o \in Host, Connect(h, o) PROVE TypeOK'
    <3>1. reg[h] \in SUBSET Entry
      BY <2>0
    <3>2. queue' \in [Host -> [Host -> Seq(Request)]]
      BY <2>0, <2>4, <3>1, BroadcastType, RequestType DEF Connect, onNew
    <3>3. conn' = [conn EXCEPT ![h] = [conn[h] EXCEPT ![o] = "up"]]
      BY <2>4 DEF Connect
    <3>4. conn' \in [Host -> [Host -> {"down", "up", "dead", "reset"}]]
      BY <2>0, <3>3
    <3> QED BY <2>0, <2>4, <3>2, <3>4 DEF Connect, TypeOK
  <2>5. ASSUME NEW h \in Host, NEW o \in Host, Write(h, o) PROVE TypeOK'
    <3>1. queue[h][o] \in Seq(Request) /\ wire[h][o] \in Seq(Request) /\ queue[h][o] # <<>>
      BY <2>0, <2>5 DEF Write
    <3>2. /\ Tail(queue[h][o]) \in Seq(Request)
          /\ Append(wire[h][o], Head(queue[h][o])) \in Seq(Request)
      BY <3>1, SeqParts
    <3>3. queue' = [queue EXCEPT ![h] = [queue[h] EXCEPT ![o] = Tail(queue[h][o])]]
      BY <2>5 DEF Write
    <3>4. queue' \in [Host -> [Host -> Seq(Request)]]
      BY <2>0, <3>2, <3>3, LinkType
    <3>5. \/ wire' = wire
          \/ wire' = [wire EXCEPT ![h] = [wire[h] EXCEPT ![o] =
                        Append(wire[h][o], Head(queue[h][o]))]]
      BY <2>5 DEF Write
    <3>6. wire' \in [Host -> [Host -> Seq(Request)]]
      <4>1. [wire EXCEPT ![h] = [wire[h] EXCEPT ![o] =
               Append(wire[h][o], Head(queue[h][o]))]] \in [Host -> [Host -> Seq(Request)]]
        BY <2>0, <3>2, LinkType
      <4> QED BY <2>0, <3>5, <4>1
    <3>7. conn' = conn \/ \E c \in {"reset", "down"} :
                            conn' = [conn EXCEPT ![h] = [conn[h] EXCEPT ![o] = c]]
      BY <2>5 DEF Write
    <3>8. conn' \in [Host -> [Host -> {"down", "up", "dead", "reset"}]]
      <4>1. CASE conn' = conn
        BY <2>0, <4>1
      <4>2. ASSUME NEW c \in {"reset", "down"},
                   conn' = [conn EXCEPT ![h] = [conn[h] EXCEPT ![o] = c]]
            PROVE  conn' \in [Host -> [Host -> {"down", "up", "dead", "reset"}]]
        <5>1. c \in {"down", "up", "dead", "reset"}
          OBVIOUS
        <5> QED BY <2>0, <4>2, <5>1, LinkType
      <4> QED BY <3>7, <4>1, <4>2
    <3> QED BY <2>0, <2>5, <3>4, <3>6, <3>8 DEF Write, TypeOK
  <2>6. ASSUME NEW h \in Host, NEW o \in Host, Break(h, o) PROVE TypeOK'
    <3>1. conn' = [conn EXCEPT ![h] = [conn[h] EXCEPT ![o] = "down"]]
      BY <2>6 DEF Break
    <3>2. conn' \in [Host -> [Host -> {"down", "up", "dead", "reset"}]]
      BY <2>0, <3>1
    <3>3. wire' = [wire EXCEPT ![h] = [wire[h] EXCEPT ![o] = <<>>]]
      BY <2>6 DEF Break
    <3>4. wire' \in [Host -> [Host -> Seq(Request)]]
      BY <2>0, <3>3
    <3>5. PICK k \in 0..Len(wire[h][o]) :
            late' = [late EXCEPT ![h] = [late[h] EXCEPT ![o] =
                       late[h][o] \o SubSeq(wire[h][o], 1, k)]]
      BY <2>6 DEF Break
    <3>6. late[h][o] \in Seq(Request) /\ wire[h][o] \in Seq(Request)
      BY <2>0
    <3>7. SubSeq(wire[h][o], 1, k) \in Seq(Request)
      BY <3>6
    <3>8. late[h][o] \o SubSeq(wire[h][o], 1, k) \in Seq(Request)
      BY <3>6, <3>7
    <3>9. late' \in [Host -> [Host -> Seq(Request)]]
      BY <2>0, <3>5, <3>8, LinkType
    <3>10. faults' \in Nat
      BY <2>0, <2>6 DEF Break
    <3> QED BY <2>0, <2>6, <3>2, <3>4, <3>9, <3>10 DEF Break, TypeOK
  <2>7. ASSUME NEW h \in Host, NEW o \in Host, Receive(h, o) PROVE TypeOK'
    <3> DEFINE w == wire[h][o]
    <3>1. w \in Seq(Request) /\ w # <<>>
      BY <2>0, <2>7 DEF Receive
    <3>2. Head(w) \in Request /\ Handle(o, h, Head(w))
      BY <2>7, <3>1, SeqParts DEF Receive
    <3>3. PICK k \in 1..Len(w) :
            /\ wire' = [wire EXCEPT ![h] = [wire[h] EXCEPT ![o] = SubSeq(w, k + 1, Len(w))]]
            /\ gap' = [gap EXCEPT ![h] = [gap[h] EXCEPT ![o] =
                 k > 1 \/ (gap[h][o] /\ Head(w).kind \notin {"new", "reply"})]]
      BY <2>7 DEF Receive
    <3>4. SubSeq(w, k + 1, Len(w)) \in Seq(Request)
      BY <3>1
    <3>5. wire' \in [Host -> [Host -> Seq(Request)]]
      BY <2>0, <3>3, <3>4, LinkType
    <3>6. gap' \in [Host -> [Host -> BOOLEAN]]
      BY <2>0, <3>3
    <3> QED BY <2>0, <2>7, <3>2, <3>5, <3>6, HandleType DEF Receive, TypeOK
  <2>8. ASSUME NEW h \in Host, NEW o \in Host, ReceiveLate(h, o) PROVE TypeOK'
    <3> DEFINE w == late[h][o]
    <3>1. w \in Seq(Request) /\ w # <<>>
      BY <2>0, <2>8 DEF ReceiveLate
    <3>2. Head(w) \in Request /\ Handle(o, h, Head(w))
      BY <2>8, <3>1, SeqParts DEF ReceiveLate
    <3>3. PICK k \in 1..Len(w) :
            late' = [late EXCEPT ![h] = [late[h] EXCEPT ![o] = SubSeq(w, k + 1, Len(w))]]
      BY <2>8 DEF ReceiveLate
    <3>4. SubSeq(w, k + 1, Len(w)) \in Seq(Request)
      BY <3>1
    <3>5. late' \in [Host -> [Host -> Seq(Request)]]
      BY <2>0, <3>3, <3>4, LinkType
    <3>6. gap' = [gap EXCEPT ![h] = [gap[h] EXCEPT ![o] = TRUE]]
      BY <2>8 DEF ReceiveLate
    <3>7. gap' \in [Host -> [Host -> BOOLEAN]]
      BY <2>0, <3>6
    <3> QED BY <2>0, <2>8, <3>2, <3>5, <3>7, HandleType DEF ReceiveLate, TypeOK
  <2>10. ASSUME NEW h \in Host, NEW o \in Host, ReceiveCut(h, o) PROVE TypeOK'
    <3> DEFINE w == wire[h][o]
    <3>1. w \in Seq(Request) /\ Len(w) > 1
      BY <2>0, <2>10 DEF ReceiveCut
    <3>2. Head(w) \in Request /\ Handle(o, h, Head(w))
      BY <2>10, <3>1, SeqParts DEF ReceiveCut
    <3>3. /\ wire' = [wire EXCEPT ![h] = [wire[h] EXCEPT ![o] = <<>>]]
          /\ conn' = [conn EXCEPT ![h] = [conn[h] EXCEPT ![o] = "dead"]]
          /\ gap' = [gap EXCEPT ![h] = [gap[h] EXCEPT ![o] = TRUE]]
      BY <2>10 DEF ReceiveCut
    <3>4. wire' \in [Host -> [Host -> Seq(Request)]]
      BY <2>0, <3>3
    <3>5. conn' \in [Host -> [Host -> {"down", "up", "dead", "reset"}]]
      BY <2>0, <3>3
    <3>6. gap' \in [Host -> [Host -> BOOLEAN]]
      BY <2>0, <3>3
    <3> QED BY <2>0, <2>10, <3>2, <3>4, <3>5, <3>6, HandleType DEF ReceiveCut, TypeOK
  <2>9. CASE UNCHANGED vars
    BY <2>9 DEF vars, linkVars, TypeOK
  <2> QED
    BY <2>1, <2>2, <2>3, <2>4, <2>5, <2>6, <2>7, <2>8, <2>9, <2>10,
       DirectoryAssumption DEF Next
<1> QED
  BY <1>1, <1>2, PTL DEF Spec

-----------------------------------------------------------------------------

\* A handler of a request of h leaves no topic of h without a subscriber in
\* topic2host, and does not touch what is known of other hosts.
LEMMA HandleKeepsNoStray ==
  ASSUME TypeOK, NoStrayHost, NEW o \in Host, NEW h \in Host, NEW r \in Request,
         Handle(o, h, r)
  PROVE  NoStrayHost'
<1> SUFFICES ASSUME NEW p \in Host, NEW g \in Host, NEW t \in Topic,
                    <<t, g>> \in topic2host'[p]
             PROVE  t \in Topics(view'[p][g])
  BY DEF NoStrayHost
<1>0. /\ view \in [Host -> [Host -> SUBSET Entry]]
      /\ topic2host \in [Host -> SUBSET (Topic \X Host)]
      /\ <<t, g>> \in topic2host[p] => t \in Topics(view[p][g])
  BY DEF TypeOK, NoStrayHost
<1>1. CASE r.kind = "add" /\ HandleAdd(o, h, r.entry)
  <2>1. view'[p][g] = IF p = o /\ g = h THEN view[p][g] \cup {r.entry} ELSE view[p][g]
    BY <1>0, <1>1 DEF HandleAdd
  <2>2. \/ <<t, g>> \in topic2host[p]
        \/ p = o /\ g = h /\ t \in Topics({r.entry})
    BY <1>0, <1>1 DEF HandleAdd
  <2> QED BY <1>0, <2>1, <2>2 DEF Topics
<1>2. CASE r.kind = "delete" /\ HandleDelete(o, h, r.node)
  <2>1. <<t, g>> \in topic2host[p]
    BY <1>0, <1>2 DEF HandleDelete
  <2>2. CASE p = o /\ g = h
    <3>1. t \notin Topics(view[o][h])
      BY <1>0, <1>2, <2>2 DEF HandleDelete, RemovedTopics
    <3> QED BY <1>0, <2>1, <2>2, <3>1
  <2>3. CASE ~(p = o /\ g = h)
    <3>1. view'[p][g] = view[p][g]
      BY <1>0, <1>2, <2>3 DEF HandleDelete
    <3> QED BY <1>0, <2>1, <3>1
  <2> QED BY <2>2, <2>3
<1>3. CASE r.kind \in {"new", "reply"} /\ HandleNew(o, h, r)
  <2>1. view'[p][g] = IF p = o /\ g = h THEN r.body ELSE view[p][g]
    BY <1>0, <1>3 DEF HandleNew, TakeList
  <2>2. CASE p = o /\ g = h
    <3>1. t \in Topics(r.body)
      BY <1>0, <1>3, <2>2 DEF HandleNew, TakeList
    <3> QED BY <2>1, <2>2, <3>1
  <2>3. CASE ~(p = o /\ g = h)
    <3>1. <<t, g>> \in topic2host[p]
      BY <1>0, <1>3, <2>3 DEF HandleNew, TakeList
    <3> QED BY <1>0, <2>1, <2>3, <3>1
  <2> QED BY <2>2, <2>3
<1> QED
  BY <1>1, <1>2, <1>3 DEF Handle

\* No message of a topic is sent to a host without a known subscriber, whatever
\* is lost, late or restarted.
THEOREM NoStrayCorrect == Spec => []NoStrayHost
<1>1. Init => NoStrayHost
  BY DEF Init, NoStrayHost
<1>2. TypeOK /\ NoStrayHost /\ [Next]_vars => NoStrayHost'
  <2> SUFFICES ASSUME TypeOK, NoStrayHost, [Next]_vars PROVE NoStrayHost'
    OBVIOUS
  <2>1. CASE UNCHANGED <<view, topic2host>>
    BY <2>1 DEF NoStrayHost
  <2>2. ASSUME NEW h \in Host, NEW o \in Host, Receive(h, o) PROVE NoStrayHost'
    <3>1. wire[h][o] \in Seq(Request) /\ wire[h][o] # <<>>
      BY <2>2 DEF Receive, TypeOK
    <3> QED BY <2>2, <3>1, SeqParts, HandleKeepsNoStray DEF Receive
  <2>3. ASSUME NEW h \in Host, NEW o \in Host, ReceiveLate(h, o) PROVE NoStrayHost'
    <3>1. late[h][o] \in Seq(Request) /\ late[h][o] # <<>>
      BY <2>3 DEF ReceiveLate, TypeOK
    <3> QED BY <2>3, <3>1, SeqParts, HandleKeepsNoStray DEF ReceiveLate
  <2>8. ASSUME NEW h \in Host, NEW o \in Host, ReceiveCut(h, o) PROVE NoStrayHost'
    <3>1. wire[h][o] \in Seq(Request) /\ wire[h][o] # <<>>
      BY <2>8 DEF ReceiveCut, TypeOK
    <3> QED BY <2>8, <3>1, SeqParts, HandleKeepsNoStray DEF ReceiveCut
  <2>4. ASSUME NEW h \in Host, Restart(h) PROVE NoStrayHost'
    <3>1. /\ topic2host \in [Host -> SUBSET (Topic \X Host)]
          /\ view \in [Host -> [Host -> SUBSET Entry]]
      BY DEF TypeOK
    <3>2. topic2host'[h] = {}
      BY <2>4, <3>1 DEF Restart
    <3>3. \A p \in Host \ {h} : view'[p] = view[p] /\ topic2host'[p] = topic2host[p]
      BY <2>4, <3>1 DEF Restart
    <3> QED BY <3>2, <3>3 DEF NoStrayHost
  <2>5. (\E h \in Host : (\E e \in Entry : Add(h, e)) \/ (\E n \in Node : DeleteNode(h, n)))
          => UNCHANGED <<view, topic2host>>
    BY DEF Add, DeleteNode
  <2>6. (\E h, o \in Host : Connect(h, o) \/ Write(h, o) \/ Break(h, o))
          => UNCHANGED <<view, topic2host>>
    BY DEF Connect, Write, Break
  <2>7. UNCHANGED vars => UNCHANGED <<view, topic2host>>
    BY DEF vars
  <2> QED
    BY <2>1, <2>2, <2>3, <2>4, <2>5, <2>6, <2>7, <2>8, DirectoryAssumption DEF Next
<1> QED
  BY <1>1, <1>2, TypeCorrect, PTL DEF Spec

-----------------------------------------------------------------------------
(* A copy follows the original *)

\* What handling request r makes of a copy S.
Applied(S, r) ==
  IF r.kind = "add" THEN S \cup {r.entry}
  ELSE IF r.kind = "delete" THEN S \ OfNode(S, r.node) ELSE r.body

\* The requests q of a link contain no list.
NoList(q) == \A i \in 1..Len(q) : q[i].kind \notin {"new", "reply"}

\* st[i] is what a copy st[0] has become after the first i requests of q, and in
\* the end it is S.
Trace(st, q, S) ==
  /\ st \in [0..Len(q) -> SUBSET Entry]
  /\ st[Len(q)] = S
  /\ \A i \in 1..Len(q) : st[i] = Applied(st[i - 1], q[i])

\* The requests q lead to S: from a copy of A, unless a list among them makes the
\* copy they start from irrelevant.
Leads(q, S, A) ==
  \E st : Trace(st, q, S) /\ (NoList(q) => st[0] \in A)

\* The copies at o that the requests under way may find, and these requests.
Known(h, o) ==
  IF conn[h][o] = "up" /\ ~gap[h][o] THEN {view[o][h]} ELSE SUBSET Entry
UnderWay(h, o) == wire[h][o] \o queue[h][o]

\* The requests between h and o, in the order in which they are written and
\* read, lead from what o knows to what h has.  A connection that is not up
\* carries nothing.
LinkGood(h, o) ==
  /\ Leads(UnderWay(h, o), reg[h], Known(h, o))
  /\ conn[h][o] # "up" => wire[h][o] = <<>>
CopyInv == \A h \in Host : \A o \in Others(h) : LinkGood(h, o)

LEMMA AppliedType ==
  ASSUME NEW S \in SUBSET Entry, NEW r \in Request
  PROVE  Applied(S, r) \in SUBSET Entry
  BY RequestParts DEF Applied, Request

LEMMA LeadsWeaken ==
  ASSUME NEW q, NEW S, NEW A, NEW B, Leads(q, S, A), A \subseteq B
  PROVE  Leads(q, S, B)
  BY DEF Leads

\* A request at the end of the queue is one more step.
LEMMA LeadsAppend ==
  ASSUME NEW q \in Seq(Request), NEW r \in Request, NEW S, NEW A, NEW B,
         Leads(q, S, A), r.kind \in {"new", "reply"} \/ A \subseteq B
  PROVE  Leads(Append(q, r), Applied(S, r), B)
<1>1. PICK st : Trace(st, q, S) /\ (NoList(q) => st[0] \in A)
  BY DEF Leads
<1> DEFINE a == Append(q, r)
           f == [i \in 0..(Len(q) + 1) |-> IF i <= Len(q) THEN st[i] ELSE Applied(S, r)]
<1>2. /\ Len(q) \in Nat /\ Len(a) = Len(q) + 1 /\ a[Len(q) + 1] = r
      /\ \A i \in 1..Len(q) : a[i] = q[i]
  OBVIOUS
<1> HIDE DEF a
<1>3. S \in SUBSET Entry /\ Applied(S, r) \in SUBSET Entry
  BY <1>1, <1>2, AppliedType DEF Trace
<1>4. f \in [0..Len(a) -> SUBSET Entry]
  BY <1>1, <1>2, <1>3 DEF Trace
<1>5. f[Len(a)] = Applied(S, r) /\ f[0] = st[0] /\ f[Len(q)] = S
  BY <1>1, <1>2 DEF Trace
<1>6. ASSUME NEW i \in 1..Len(a) PROVE f[i] = Applied(f[i - 1], a[i])
  <2>1. CASE i = Len(q) + 1
    BY <1>2, <1>5, <2>1
  <2>2. CASE i # Len(q) + 1
    <3>1. i \in 1..Len(q) /\ i - 1 \in 0..Len(q) /\ i - 1 <= Len(q) /\ i <= Len(q)
      BY <1>2, <2>2
    <3>2. f[i] = st[i] /\ f[i - 1] = st[i - 1]
      BY <1>2, <3>1
    <3> QED BY <1>1, <1>2, <3>1, <3>2 DEF Trace
  <2> QED BY <2>1, <2>2
<1>7. NoList(a) => f[0] \in B
  <2>1. SUFFICES ASSUME NoList(a) PROVE f[0] \in B
    OBVIOUS
  <2>2. r.kind \notin {"new", "reply"} /\ NoList(q)
    BY <1>2, <2>1 DEF NoList
  <2> QED BY <1>1, <1>5, <2>2
<1>8. Trace(f, a, Applied(S, r))
  BY <1>4, <1>5, <1>6 DEF Trace
<1> QED
  BY <1>7, <1>8 DEF Leads, a

\* q2 is what is left of q without its first k requests.
Rest(q2, q, k) == Len(q2) = Len(q) - k /\ \A i \in 1..Len(q2) : q2[i] = q[i + k]

\* Lost requests leave an end that still leads to the same.
LEMMA LeadsDrop ==
  ASSUME NEW q \in Seq(Request), NEW q2 \in Seq(Request), NEW k \in 0..Len(q),
         Rest(q2, q, k), NEW S, NEW A, Leads(q, S, A)
  PROVE  Leads(q2, S, SUBSET Entry)
<1>1. PICK st : Trace(st, q, S)
  BY DEF Leads
<1>2. Len(q) \in Nat /\ Len(q2) \in Nat /\ k \in Nat /\ Len(q2) + k = Len(q)
  BY DEF Rest
<1> DEFINE f == [i \in 0..Len(q2) |-> st[i + k]]
<1>3. f \in [0..Len(q2) -> SUBSET Entry] /\ f[Len(q2)] = S
  <2>1. \A i \in 0..Len(q2) : i + k \in 0..Len(q)
    BY <1>2
  <2>2. st \in [0..Len(q) -> SUBSET Entry] /\ st[Len(q)] = S
    BY <1>1 DEF Trace
  <2>3. f \in [0..Len(q2) -> SUBSET Entry]
    BY <2>1, <2>2
  <2>4. Len(q2) \in 0..Len(q2)
    BY <1>2
  <2> QED BY <1>2, <2>2, <2>3, <2>4
<1>4. ASSUME NEW i \in 1..Len(q2) PROVE f[i] = Applied(f[i - 1], q2[i])
  <2>1. i + k \in 1..Len(q) /\ (i - 1) + k = (i + k) - 1 /\ i - 1 \in 0..Len(q2)
    BY <1>2
  <2>2. st[i + k] = Applied(st[(i + k) - 1], q[i + k])
    BY <1>1, <2>1 DEF Trace
  <2>3. f[i] = st[i + k] /\ f[i - 1] = st[(i + k) - 1]
    BY <1>2, <2>1
  <2> QED BY <2>2, <2>3 DEF Rest
<1>5. f[0] \in SUBSET Entry
  BY <1>2, <1>3
<1> QED
  BY <1>3, <1>4, <1>5 DEF Leads, Trace

\* The first request is applied to what is known.
LEMMA LeadsTake ==
  ASSUME NEW q \in Seq(Request), NEW q2 \in Seq(Request), q # <<>>, Rest(q2, q, 1),
         NEW S, NEW A, NEW B, Leads(q, S, A),
         q[1].kind \in {"new", "reply"} => q[1].body \in B,
         q[1].kind \notin {"new", "reply"} => \A V \in A : Applied(V, q[1]) \in B
  PROVE  Leads(q2, S, B)
<1>1. PICK st : Trace(st, q, S) /\ (NoList(q) => st[0] \in A)
  BY DEF Leads
<1>2. Len(q) \in Nat /\ Len(q2) \in Nat /\ Len(q2) + 1 = Len(q)
  BY DEF Rest
<1> DEFINE f == [i \in 0..Len(q2) |-> st[i + 1]]
<1>3. f \in [0..Len(q2) -> SUBSET Entry] /\ f[Len(q2)] = S
  BY <1>1, <1>2 DEF Trace
<1>4. ASSUME NEW i \in 1..Len(q2) PROVE f[i] = Applied(f[i - 1], q2[i])
  <2>1. i + 1 \in 1..Len(q) /\ (i - 1) + 1 = i /\ i - 1 \in 0..Len(q2) /\ (i + 1) - 1 = i
    BY <1>2
  <2>2. st[i + 1] = Applied(st[i], q[i + 1])
    BY <1>1, <2>1 DEF Trace
  <2>3. f[i] = st[i + 1] /\ f[i - 1] = st[i]
    BY <1>2, <2>1
  <2> QED BY <2>2, <2>3 DEF Rest
<1>5. f[0] = Applied(st[0], q[1])
  <2>1. 1 \in 1..Len(q) /\ 0 \in 0..Len(q2)
    BY <1>2
  <2>2. st[1] = Applied(st[0], q[1])
    BY <1>1, <2>1 DEF Trace
  <2> QED BY <2>1, <2>2
<1>6. ASSUME NoList(q2) PROVE f[0] \in B
  <2>1. CASE q[1].kind \in {"new", "reply"}
    BY <1>5, <2>1 DEF Applied
  <2>2. CASE q[1].kind \notin {"new", "reply"}
    <3>1. NoList(q)
      <4> SUFFICES ASSUME NEW i \in 1..Len(q) PROVE q[i].kind \notin {"new", "reply"}
        BY DEF NoList
      <4>1. CASE i = 1
        BY <2>2, <4>1
      <4>2. CASE i # 1
        <5>1. i - 1 \in 1..Len(q2) /\ (i - 1) + 1 = i
          BY <1>2, <4>2
        <5>2. q2[i - 1] = q[i]
          BY <5>1 DEF Rest
        <5> QED BY <1>6, <5>1, <5>2 DEF NoList
      <4> QED BY <4>1, <4>2
    <3> QED BY <1>1, <1>5, <2>2, <3>1
  <2> QED BY <2>1, <2>2
<1> QED
  BY <1>3, <1>4, <1>6 DEF Leads, Trace

\* Nothing under way: the copy is the original.
LEMMA LeadsEmpty ==
  ASSUME NEW S, NEW A
  PROVE  /\ Leads(<<>>, S, A) => S \in A
         /\ S \in SUBSET Entry => Leads(<<>>, S, SUBSET Entry)
<1>1. Len(<<>>) = 0
  OBVIOUS
<1>2. ASSUME Leads(<<>>, S, A) PROVE S \in A
  <2>1. PICK st : Trace(st, <<>>, S) /\ (NoList(<<>>) => st[0] \in A)
    BY <1>2 DEF Leads
  <2> QED BY <1>1, <2>1 DEF Trace, NoList
<1>3. ASSUME S \in SUBSET Entry PROVE Leads(<<>>, S, SUBSET Entry)
  <2> DEFINE f == [i \in 0..0 |-> S]
  <2>1. f[0] = S /\ f \in [0..0 -> SUBSET Entry]
    BY <1>3
  <2>2. Trace(f, <<>>, S)
    BY <1>1, <2>1 DEF Trace
  <2> QED BY <1>3, <2>1, <2>2 DEF Leads
<1> QED
  BY <1>2, <1>3

LEMMA ConcatAppend ==
  ASSUME NEW w \in Seq(Request), NEW q \in Seq(Request), NEW r \in Request
  PROVE  w \o Append(q, r) = Append(w \o q, r)
<1>1. /\ w \o Append(q, r) \in Seq(Request) /\ Append(w \o q, r) \in Seq(Request)
      /\ Len(w \o Append(q, r)) = Len(w) + Len(q) + 1
      /\ Len(Append(w \o q, r)) = Len(w) + Len(q) + 1
  OBVIOUS
<1>2. \A i \in 1..(Len(w) + Len(q) + 1) : (w \o Append(q, r))[i] = Append(w \o q, r)[i]
  OBVIOUS
<1> QED BY <1>1, <1>2, SeqEqual

LEMMA ConcatMove ==
  ASSUME NEW w \in Seq(Request), NEW q \in Seq(Request), q # <<>>
  PROVE  Append(w, Head(q)) \o Tail(q) = w \o q
<1> DEFINE a == Append(w, Head(q))
<1>0. /\ Head(q) \in Request /\ Tail(q) \in Seq(Request) /\ Len(Tail(q)) = Len(q) - 1
      /\ Head(q) = q[1] /\ \A i \in 1..(Len(q) - 1) : Tail(q)[i] = q[i + 1]
      /\ Len(q) \in Nat /\ Len(q) > 0
  OBVIOUS
<1>1. /\ a \in Seq(Request) /\ Len(a) = Len(w) + 1 /\ a[Len(w) + 1] = q[1]
      /\ \A i \in 1..Len(w) : a[i] = w[i]
  BY <1>0
<1> HIDE DEF a
<1>2. a \o Tail(q) \in Seq(Request) /\ Len(a \o Tail(q)) = Len(w) + Len(q)
  BY <1>0, <1>1
<1>3. ASSUME NEW i \in 1..(Len(w) + Len(q)) PROVE (a \o Tail(q))[i] = (w \o q)[i]
  <2>1. CASE i <= Len(w)
    BY <1>0, <1>1, <2>1
  <2>2. CASE i = Len(w) + 1
    BY <1>0, <1>1, <2>2
  <2>0. i \in Int /\ Len(w) \in Int
    OBVIOUS
  <2>3. CASE i > Len(w) + 1
    <3>1. (a \o Tail(q))[i] = Tail(q)[i - Len(a)] /\ (w \o q)[i] = q[i - Len(w)]
      BY <1>0, <1>1, <2>3
    <3>2. i - Len(a) \in 1..(Len(q) - 1) /\ i - Len(a) + 1 = i - Len(w)
      BY <1>0, <1>1, <2>3
    <3> QED BY <1>0, <3>1, <3>2
  <2>4. i <= Len(w) \/ i = Len(w) + 1 \/ i > Len(w) + 1
    BY <2>0
  <2> QED BY <2>1, <2>2, <2>3, <2>4
<1>4. w \o q \in Seq(Request) /\ Len(w \o q) = Len(w) + Len(q)
  OBVIOUS
<1> QED BY <1>2, <1>3, <1>4, SeqEqual DEF a
LEMMA ConcatEmpty ==
  ASSUME NEW w \in Seq(Request), NEW q \in Seq(Request), q \o w = <<>>
  PROVE  w \o q = <<>>
<1>1. /\ Len(w) \in Nat /\ Len(q) \in Nat /\ Len(q \o w) = Len(q) + Len(w)
      /\ Len(w \o q) = Len(w) + Len(q) /\ Len(<<>>) = 0
  OBVIOUS
<1>2. Len(w) = 0 /\ Len(q) = 0
  BY <1>1
<1>3. w = <<>> /\ q = <<>>
  BY <1>2
<1> QED BY <1>3

\* How the operations on the two sequences of a link act on their concatenation.
LEMMA ConcatFacts ==
  ASSUME NEW w \in Seq(Request), NEW q \in Seq(Request)
  PROVE  /\ w \o q \in Seq(Request)
         /\ <<>> \o q = q
         /\ Rest(q, w \o q, Len(w)) /\ Len(w) \in 0..Len(w \o q)
         /\ q # <<>> => Rest(Tail(q), q, 1) /\ 1 \in 0..Len(q)
<1>1. w \o q \in Seq(Request) /\ Len(w \o q) = Len(w) + Len(q)
  OBVIOUS
<1>4. <<>> \o q = q
  OBVIOUS
<1>5. Rest(q, w \o q, Len(w)) /\ Len(w) \in 0..Len(w \o q)
  BY <1>1 DEF Rest
<1>6. q # <<>> => Rest(Tail(q), q, 1) /\ 1 \in 0..Len(q)
  BY DEF Rest
<1> QED
  BY <1>1, <1>4, <1>5, <1>6

\* A read takes the first k requests of the connection.
LEMMA ReadFacts ==
  ASSUME NEW w \in Seq(Request), NEW q \in Seq(Request), NEW k \in 1..Len(w)
  PROVE  LET v == SubSeq(w, k + 1, Len(w)) IN
         /\ v \o q \in Seq(Request) /\ k \in 0..Len(w \o q)
         /\ Rest(v \o q, w \o q, k) /\ (w \o q)[1] = Head(w) /\ w \o q # <<>>
<1> DEFINE v == SubSeq(w, k + 1, Len(w))
<1>1. /\ v \in Seq(Request) /\ Len(v) = Len(w) - k
      /\ \A i \in 1..Len(v) : v[i] = w[i + k]
  OBVIOUS
<1> HIDE DEF v
<1>2. v \o q \in Seq(Request) /\ Len(v \o q) = Len(w) - k + Len(q)
  <2>1. v \in Seq(Request)
    BY <1>1
  <2>2. v \o q \in Seq(Request) /\ Len(v \o q) = Len(v) + Len(q)
    BY <2>1
  <2> QED BY <1>1, <2>2
<1>3. Len(w \o q) = Len(w) + Len(q) /\ k \in 0..Len(w \o q) /\ (w \o q)[1] = Head(w)
  OBVIOUS
<1>4. ASSUME NEW i \in 1..Len(v \o q) PROVE (v \o q)[i] = (w \o q)[i + k]
  <2>1. CASE i <= Len(v)
    BY <1>1, <2>1
  <2>2. CASE i > Len(v)
    BY <1>1, <1>2, <2>2
  <2> QED BY <2>1, <2>2, <1>1, <1>2
<1>5. w \o q # <<>>
  BY <1>3
<1> QED
  BY <1>2, <1>3, <1>4, <1>5 DEF Rest, v

\* What a handler does to any link: the copy takes the request, and the answer
\* to POST /new goes to the end of the queue in the other direction.
LEMMA HandleEffect ==
  ASSUME TypeOK, NEW o \in Host, NEW h \in Host, NEW r \in Request, Handle(o, h, r),
         NEW g \in Host, NEW p \in Host
  PROVE  /\ view'[p][g] = IF p = o /\ g = h THEN Applied(view[o][h], r) ELSE view[p][g]
         /\ \/ queue'[g][p] = queue[g][p]
            \/ /\ g = o /\ p = h
               /\ queue'[g][p] = Append(queue[g][p], [kind |-> "reply", body |-> reg[g]])
<1>0. /\ view \in [Host -> [Host -> SUBSET Entry]]
      /\ queue \in [Host -> [Host -> Seq(Request)]]
  BY DEF TypeOK
<1>1. CASE r.kind = "add" /\ HandleAdd(o, h, r.entry)
  BY <1>0, <1>1 DEF HandleAdd, Applied
<1>2. CASE r.kind = "delete" /\ HandleDelete(o, h, r.node)
  BY <1>0, <1>2 DEF HandleDelete, Applied
<1>3. CASE r.kind \in {"new", "reply"} /\ HandleNew(o, h, r)
  <2>1. view'[p][g] = IF p = o /\ g = h THEN Applied(view[o][h], r) ELSE view[p][g]
    BY <1>0, <1>3 DEF HandleNew, TakeList, Applied
  <2> QED BY <1>0, <1>3, <2>1 DEF HandleNew
<1> QED
  BY <1>1, <1>2, <1>3 DEF Handle

\* A link whose queue may have got a list of its host and which is otherwise
\* left alone stays good.
LEMMA LinkListed ==
  ASSUME TypeOK, NEW g \in Host, NEW p \in Host, LinkGood(g, p), NEW r \in Request,
         r.kind \in {"new", "reply"}, r.body = reg[g],
         queue'[g][p] = queue[g][p] \/ queue'[g][p] = Append(queue[g][p], r),
         reg'[g] = reg[g], wire'[g][p] = wire[g][p], conn'[g][p] = conn[g][p],
         Known(g, p) \subseteq Known(g, p)'
  PROVE  LinkGood(g, p)'
<1>1. wire[g][p] \in Seq(Request) /\ queue[g][p] \in Seq(Request)
  BY DEF TypeOK
<1>2. UnderWay(g, p) \in Seq(Request)
  BY <1>1, ConcatFacts DEF UnderWay
<1>3. Leads(UnderWay(g, p), reg[g], Known(g, p))
  BY DEF LinkGood
<1>4. CASE queue'[g][p] = queue[g][p]
  <2>1. UnderWay(g, p)' = UnderWay(g, p)
    BY <1>4 DEF UnderWay
  <2>2. Leads(UnderWay(g, p), reg[g], Known(g, p)')
    BY <1>3, LeadsWeaken
  <2> QED BY <2>1, <2>2 DEF LinkGood
<1>5. CASE queue'[g][p] = Append(queue[g][p], r)
  <2>1. UnderWay(g, p)' = Append(UnderWay(g, p), r)
    BY <1>1, <1>5, ConcatAppend DEF UnderWay
  <2>2. Applied(reg[g], r) = reg[g]
    BY DEF Applied
  <2>3. Leads(Append(UnderWay(g, p), r), Applied(reg[g], r), Known(g, p)')
    BY <1>2, <1>3, LeadsAppend
  <2> QED BY <2>1, <2>2, <2>3 DEF LinkGood
<1> QED
  BY <1>4, <1>5

\* A change at h is broadcast: every link from h gets the request that makes the
\* same change to a copy.
LEMMA LinkBroadcast ==
  ASSUME TypeOK, NEW h \in Host, NEW g \in Host, NEW p \in Others(g), LinkGood(g, p),
         NEW r \in Request, broadcast(h, r),
         reg'[g] = IF g = h THEN Applied(reg[g], r) ELSE reg[g],
         UNCHANGED <<view, conn, wire, gap>>
  PROVE  LinkGood(g, p)'
<1>1. p \in Host /\ p # g
  BY DEF Others
<1>2. wire[g][p] \in Seq(Request) /\ queue[g][p] \in Seq(Request)
      /\ queue \in [Host -> [Host -> Seq(Request)]]
  BY <1>1 DEF TypeOK
<1>3. UnderWay(g, p) \in Seq(Request)
  BY <1>2, ConcatFacts DEF UnderWay
<1>4. Leads(UnderWay(g, p), reg[g], Known(g, p)) /\ Known(g, p)' = Known(g, p)
  BY DEF LinkGood, Known
<1>5. CASE g = h
  <2>1. queue'[g][p] = Append(queue[g][p], r)
    BY <1>1, <1>2, <1>5 DEF broadcast
  <2>2. UnderWay(g, p)' = Append(UnderWay(g, p), r)
    BY <1>2, <2>1, ConcatAppend DEF UnderWay
  <2>3. Leads(Append(UnderWay(g, p), r), Applied(reg[g], r), Known(g, p))
    BY <1>3, <1>4, LeadsAppend
  <2> QED BY <1>4, <1>5, <2>2, <2>3 DEF LinkGood
<1>6. CASE g # h
  <2>1. queue'[g][p] = queue[g][p]
    BY <1>1, <1>2, <1>6 DEF broadcast
  <2> QED BY <1>4, <1>6, <2>1 DEF LinkGood, UnderWay
<1> QED
  BY <1>5, <1>6

LEMMA CopyStep ==
  ASSUME TypeOK, TypeOK', CopyInv, [Next]_vars
  PROVE  CopyInv'
<1> SUFFICES ASSUME NEW g \in Host, NEW p \in Others(g) PROVE LinkGood(g, p)'
  BY DEF CopyInv, Others
<1>0. /\ p \in Host /\ p # g /\ LinkGood(g, p)
      /\ Leads(UnderWay(g, p), reg[g], Known(g, p))
      /\ wire[g][p] \in Seq(Request) /\ queue[g][p] \in Seq(Request)
      /\ reg \in [Host -> SUBSET Entry] /\ reg[g] \in SUBSET Entry
      /\ view \in [Host -> [Host -> SUBSET Entry]] /\ view[p][g] \in SUBSET Entry
      /\ view'[p][g] \in SUBSET Entry
      /\ conn \in [Host -> [Host -> {"down", "up", "dead", "reset"}]]
      /\ queue \in [Host -> [Host -> Seq(Request)]]
      /\ wire \in [Host -> [Host -> Seq(Request)]]
      /\ gap \in [Host -> [Host -> BOOLEAN]]
  <2>1. p \in Host /\ p # g /\ LinkGood(g, p)
    BY DEF CopyInv, Others
  <2>2. Leads(UnderWay(g, p), reg[g], Known(g, p))
    BY <2>1 DEF LinkGood
  <2>3. view'[p][g] \in SUBSET Entry
    BY <2>1 DEF TypeOK
  <2>4. /\ reg \in [Host -> SUBSET Entry] /\ view \in [Host -> [Host -> SUBSET Entry]]
        /\ conn \in [Host -> [Host -> {"down", "up", "dead", "reset"}]]
        /\ queue \in [Host -> [Host -> Seq(Request)]]
        /\ wire \in [Host -> [Host -> Seq(Request)]]
        /\ gap \in [Host -> [Host -> BOOLEAN]]
    BY DEF TypeOK
  <2> QED BY <2>1, <2>2, <2>3, <2>4
<1>1. UnderWay(g, p) \in Seq(Request)
  BY <1>0, ConcatFacts DEF UnderWay
<1>2. [kind |-> "reply", body |-> reg[g]] \in Request /\ [kind |-> "new", body |-> reg[g]] \in Request
  BY <1>0, RequestType
\* A link that a step leaves alone, or of which it only forgets what is known.
<1>3. ASSUME queue'[g][p] = queue[g][p], reg'[g] = reg[g], wire'[g][p] = wire[g][p],
             conn'[g][p] = conn[g][p], Known(g, p) \subseteq Known(g, p)'
      PROVE  LinkGood(g, p)'
  BY <1>0, <1>2, <1>3, LinkListed
<1>4. Known(g, p) \subseteq SUBSET Entry
  BY <1>0 DEF Known
<1>5. ASSUME NEW h \in Host, NEW e \in Entry, Add(h, e) PROVE LinkGood(g, p)'
  <2> DEFINE r == [kind |-> "add", entry |-> e]
  <2>1. r \in Request /\ r.kind = "add" /\ r.entry = e
    BY RequestType
  <2>2. broadcast(h, r) /\ UNCHANGED <<view, conn, wire, gap>>
    BY <1>5 DEF Add
  <2>3. reg'[g] = IF g = h THEN Applied(reg[g], r) ELSE reg[g]
    BY <1>0, <1>5, <2>1 DEF Add, Applied
  <2> HIDE DEF r
  <2> QED BY <1>0, <2>1, <2>2, <2>3, LinkBroadcast
<1>6. ASSUME NEW h \in Host, NEW n \in Node, DeleteNode(h, n) PROVE LinkGood(g, p)'
  <2> DEFINE r == [kind |-> "delete", node |-> n]
  <2>1. r \in Request /\ r.kind = "delete" /\ r.node = n
    BY RequestType
  <2>2. broadcast(h, r) /\ UNCHANGED <<view, conn, wire, gap>>
    BY <1>6 DEF DeleteNode
  <2>3. reg'[g] = IF g = h THEN Applied(reg[g], r) ELSE reg[g]
    BY <1>0, <1>6, <2>1 DEF DeleteNode, Applied
  <2> HIDE DEF r
  <2> QED BY <1>0, <2>1, <2>2, <2>3, LinkBroadcast
\* The list that follows the requests lost with an earlier connection makes up
\* for them.
<1>7. ASSUME NEW h \in Host, NEW o \in Host, Connect(h, o) PROVE LinkGood(g, p)'
  <2>1. UNCHANGED <<reg, view, wire, gap>> /\ onNew(h)
        /\ conn' = [conn EXCEPT ![h][o] = "up"] /\ o # h
    BY <1>7 DEF Connect
  <2>2. CASE g = h
    <3> DEFINE r == [kind |-> "new", body |-> reg[g]]
    <3>1. r \in Request /\ r.kind = "new" /\ r.body = reg[g]
      BY <1>2
    <3>2. queue'[g][p] = Append(queue[g][p], r)
      BY <1>0, <2>1, <2>2 DEF onNew, broadcast
    <3> HIDE DEF r
    <3>3. UnderWay(g, p)' = Append(UnderWay(g, p), r)
      BY <1>0, <2>1, <3>1, <3>2, ConcatAppend DEF UnderWay
    <3>4. Applied(reg[g], r) = reg[g]
      BY <3>1 DEF Applied
    <3>5. Leads(Append(UnderWay(g, p), r), Applied(reg[g], r), Known(g, p)')
      BY <1>0, <1>1, <3>1, LeadsAppend
    <3>6. conn'[g][p] # "up" => wire'[g][p] = <<>>
      BY <1>0, <2>1 DEF LinkGood
    <3> QED BY <2>1, <3>3, <3>4, <3>5, <3>6 DEF LinkGood
  <2>3. CASE g # h
    <3>1. queue'[g][p] = queue[g][p] /\ conn'[g][p] = conn[g][p]
      BY <1>0, <2>1, <2>3 DEF onNew, broadcast
    <3> QED BY <1>3, <2>1, <3>1 DEF Known
  <2> QED BY <2>2, <2>3
<1>8. ASSUME NEW h \in Host, NEW o \in Host, Write(h, o) PROVE LinkGood(g, p)'
  <2>0. UNCHANGED <<reg, view, gap>>
    BY <1>8 DEF Write
  <2>1. CASE ~(g = h /\ p = o)
    <3>1. queue'[g][p] = queue[g][p]
      BY <1>0, <1>8, <2>1 DEF Write
    <3>2. wire'[g][p] = wire[g][p]
      <4> DEFINE v == Append(wire[h][o], Head(queue[h][o]))
      <4>1. wire' = wire \/ wire' = [wire EXCEPT ![h][o] = v]
        BY <1>8 DEF Write
      <4> HIDE DEF v
      <4>2. CASE wire' = wire
        BY <4>2
      <4>3. CASE wire' = [wire EXCEPT ![h][o] = v]
        BY <1>0, <2>1, <4>3
      <4> QED BY <4>1, <4>2, <4>3
    <3>3. conn'[g][p] = conn[g][p]
      <4> DEFINE v == IF conn[h][o] = "dead" THEN "reset" ELSE "down"
      <4>1. conn' = conn \/ conn' = [conn EXCEPT ![h][o] = v]
        BY <1>8 DEF Write
      <4> HIDE DEF v
      <4>2. CASE conn' = conn
        BY <4>2
      <4>3. CASE conn' = [conn EXCEPT ![h][o] = v]
        BY <1>0, <2>1, <4>3
      <4> QED BY <4>1, <4>2, <4>3
    <3> QED BY <1>3, <2>0, <3>1, <3>2, <3>3 DEF Known
  <2>2. CASE g = h /\ p = o
    <3>0. queue[g][p] # <<>> /\ queue'[g][p] = Tail(queue[g][p])
      BY <1>0, <1>8, <2>2 DEF Write
    <3>1. CASE conn[g][p] = "up"
      <4>1. conn' = conn /\ wire'[g][p] = Append(wire[g][p], Head(queue[g][p]))
        BY <1>0, <1>8, <2>2, <3>1 DEF Write
      <4>2. UnderWay(g, p)' = UnderWay(g, p)
        BY <1>0, <3>0, <4>1, ConcatMove DEF UnderWay
      <4> QED BY <1>0, <2>0, <3>1, <4>1, <4>2 DEF LinkGood, Known
    <3>2. CASE conn[g][p] # "up"
      <4>1. wire' = wire /\ conn'[g][p] # "up"
        BY <1>0, <1>8, <2>2, <3>2 DEF Write
      <4>2. wire[g][p] = <<>>
        BY <1>0, <3>2 DEF LinkGood
      <4>3. UnderWay(g, p) = queue[g][p] /\ UnderWay(g, p)' = Tail(queue[g][p])
        BY <1>0, <3>0, <4>1, <4>2, ConcatFacts, SeqParts DEF UnderWay
      <4>4. Tail(queue[g][p]) \in Seq(Request)
        BY <1>0, <3>0, SeqParts
      <4>5. Rest(Tail(queue[g][p]), queue[g][p], 1) /\ 1 \in 0..Len(queue[g][p])
        BY <1>0, <3>0, ConcatFacts
      <4>6. Leads(Tail(queue[g][p]), reg[g], SUBSET Entry)
        BY <1>0, <4>3, <4>4, <4>5, LeadsDrop
      <4>7. Known(g, p)' = SUBSET Entry
        BY <4>1 DEF Known
      <4> QED BY <2>0, <4>1, <4>2, <4>3, <4>6, <4>7 DEF LinkGood
    <3> QED BY <3>1, <3>2
  <2> QED BY <2>1, <2>2
\* Whatever loses what was written and not read, with the connection.
<1>9. ASSUME reg'[g] = reg[g], wire'[g][p] = <<>>, Known(g, p)' = SUBSET Entry,
             queue'[g][p] = queue[g][p]
      PROVE  LinkGood(g, p)'
  <2>1. UnderWay(g, p)' = queue[g][p]
    BY <1>0, <1>9, ConcatFacts DEF UnderWay
  <2>2. Rest(queue[g][p], UnderWay(g, p), Len(wire[g][p]))
        /\ Len(wire[g][p]) \in 0..Len(UnderWay(g, p))
    BY <1>0, ConcatFacts DEF UnderWay
  <2>3. Leads(queue[g][p], reg[g], SUBSET Entry)
    BY <1>0, <1>1, <2>2, LeadsDrop
  <2> QED BY <1>9, <2>1, <2>3 DEF LinkGood
<1>10. ASSUME NEW h \in Host, NEW o \in Host, Break(h, o) PROVE LinkGood(g, p)'
  <2>0. UNCHANGED <<reg, view, gap, queue>>
    BY <1>10 DEF Break
  <2>1. CASE ~(g = h /\ p = o)
    <3>1. conn'[g][p] = conn[g][p] /\ wire'[g][p] = wire[g][p]
      BY <1>0, <1>10, <2>1 DEF Break
    <3> QED BY <1>3, <2>0, <3>1 DEF Known
  <2>2. CASE g = h /\ p = o
    <3>1. conn'[g][p] = "down" /\ wire'[g][p] = <<>>
      BY <1>0, <1>10, <2>2 DEF Break
    <3> QED BY <1>9, <2>0, <3>1 DEF Known
  <2> QED BY <2>1, <2>2
<1>11. ASSUME NEW h \in Host, Restart(h) PROVE LinkGood(g, p)'
  <2>1. CASE g = h
    <3>1. /\ reg'[g] = {} /\ queue'[g][p] = <<>> /\ wire'[g][p] = <<>>
          /\ conn'[g][p] = "down"
      BY <1>0, <1>11, <2>1 DEF Restart
    <3>2. UnderWay(g, p)' = <<>> /\ Known(g, p)' = SUBSET Entry
      BY <3>1 DEF UnderWay, Known
    <3>3. {} \in SUBSET Entry
      OBVIOUS
    <3>4. Leads(<<>>, {}, SUBSET Entry)
      BY <3>3, LeadsEmpty
    <3> QED BY <3>1, <3>2, <3>4 DEF LinkGood
  <2>2. CASE g # h /\ p = h
    <3>1. /\ reg'[g] = reg[g] /\ queue'[g][p] = queue[g][p] /\ wire'[g][p] = <<>>
          /\ gap'[g][p] = TRUE
      BY <1>0, <1>11, <2>2 DEF Restart
    <3> QED BY <1>9, <3>1 DEF Known
  <2>3. CASE g # h /\ p # h
    <3>1. /\ reg'[g] = reg[g] /\ queue'[g][p] = queue[g][p] /\ wire'[g][p] = wire[g][p]
          /\ conn'[g][p] = conn[g][p] /\ gap'[g][p] = gap[g][p] /\ view'[p] = view[p]
      BY <1>0, <1>11, <2>3 DEF Restart
    <3> QED BY <1>3, <3>1 DEF Known
  <2> QED BY <2>1, <2>2, <2>3
<1>e. ASSUME NEW h \in Host, NEW o \in Host, NEW r \in Request, Handle(o, h, r)
      PROVE  /\ view'[p][g] = IF p = o /\ g = h THEN Applied(view[o][h], r) ELSE view[p][g]
             /\ \/ queue'[g][p] = queue[g][p]
                \/ /\ g = o /\ p = h
                   /\ queue'[g][p] = Append(queue[g][p], [kind |-> "reply", body |-> reg[g]])
  BY <1>0, <1>e, HandleEffect
\* A link other than the one read from gets at most an answer.
<1>12. ASSUME NEW h \in Host, NEW o \in Host, NEW r \in Request, Handle(o, h, r),
              ~(g = h /\ p = o), reg' = reg, wire'[g][p] = wire[g][p],
              conn'[g][p] = conn[g][p], gap'[g][p] = gap[g][p]
       PROVE  LinkGood(g, p)'
  <2>1. view'[p][g] = view[p][g]
        /\ \/ queue'[g][p] = queue[g][p]
           \/ queue'[g][p] = Append(queue[g][p], [kind |-> "reply", body |-> reg[g]])
    BY <1>12, <1>e
  <2>2. Known(g, p)' = Known(g, p)
    BY <1>12, <2>1 DEF Known
  <2> QED BY <1>0, <1>2, <1>12, <2>1, <2>2, LinkListed
<1>13. ASSUME NEW h \in Host, NEW o \in Host, Receive(h, o) PROVE LinkGood(g, p)'
  <2> DEFINE w == wire[h][o]
             v(k) == SubSeq(w, k + 1, Len(w))
  <2>0. w \in Seq(Request) /\ w # <<>> /\ Head(w) \in Request /\ Handle(o, h, Head(w))
        /\ UNCHANGED <<reg, conn>>
    BY <1>0, <1>13, SeqParts DEF Receive
  <2>1. PICK k \in 1..Len(w) :
          /\ wire' = [wire EXCEPT ![h][o] = v(k)]
          /\ gap' = [gap EXCEPT ![h][o] =
               k > 1 \/ (gap[h][o] /\ Head(w).kind \notin {"new", "reply"})]
    BY <1>13 DEF Receive
  <2>2. CASE ~(g = h /\ p = o)
    <3>1. wire'[g][p] = wire[g][p] /\ gap'[g][p] = gap[g][p]
      BY <1>0, <2>1, <2>2
    <3> QED BY <1>12, <2>0, <2>2, <3>1
  <2>3. CASE g = h /\ p = o
    <3>1. wire'[g][p] = v(k) /\ view'[p][g] = Applied(view[p][g], Head(w))
          /\ queue'[g][p] = queue[g][p] /\ conn'[g][p] = conn[g][p] /\ reg'[g] = reg[g]
      <4>1. wire'[g][p] = v(k) /\ conn'[g][p] = conn[g][p] /\ reg'[g] = reg[g]
        BY <1>0, <2>0, <2>1, <2>3
      <4>2. view'[p][g] = Applied(view[p][g], Head(w)) /\ queue'[g][p] = queue[g][p]
        BY <1>0, <1>e, <2>0, <2>3
      <4> QED BY <4>1, <4>2
    <3>2. gap'[g][p] = (k > 1 \/ (gap[g][p] /\ Head(w).kind \notin {"new", "reply"}))
      BY <1>0, <2>1, <2>3
    <3> DEFINE u == UnderWay(g, p)
               u2 == v(k) \o queue[g][p]
    <3>3. /\ u2 \in Seq(Request) /\ k \in 0..Len(u) /\ Rest(u2, u, k)
          /\ u[1] = Head(w) /\ u # <<>>
      BY <1>0, <2>0, <2>3, ReadFacts DEF UnderWay
    <3>4. UnderWay(g, p)' = u2
      BY <3>1 DEF UnderWay
    <3> HIDE DEF u2, u
    <3>5. u \in Seq(Request) /\ Leads(u, reg[g], Known(g, p))
      BY <1>0, <1>1 DEF u
    <3>6. Leads(u2, reg[g], Known(g, p)')
      <4>1. CASE Known(g, p)' = SUBSET Entry
        BY <3>3, <3>5, <4>1, LeadsDrop
      <4>2. CASE conn'[g][p] = "up" /\ ~gap'[g][p]
        <5>1. Known(g, p)' = {Applied(view[p][g], u[1])}
          BY <3>1, <3>3, <4>2 DEF Known
        <5>2. k = 1 /\ (gap[g][p] => u[1].kind \in {"new", "reply"})
          <6>1. ~(k > 1) /\ (gap[g][p] => Head(w).kind \in {"new", "reply"})
            BY <3>2, <4>2
          <6> QED BY <3>3, <6>1
        <5>3. Rest(u2, u, 1)
          BY <3>3, <5>2
        <5>4. ASSUME u[1].kind \in {"new", "reply"} PROVE u[1].body \in Known(g, p)'
          BY <5>1, <5>4 DEF Applied
        <5>5. ASSUME u[1].kind \notin {"new", "reply"}
              PROVE  \A V \in Known(g, p) : Applied(V, u[1]) \in Known(g, p)'
          <6>1. Known(g, p) = {view[p][g]}
            BY <1>0, <3>1, <4>2, <5>2, <5>5 DEF Known
          <6> QED BY <5>1, <6>1
        <5> QED BY <3>3, <3>5, <5>3, <5>4, <5>5, LeadsTake
      <4> QED BY <4>1, <4>2 DEF Known
    <3>7. conn'[g][p] # "up" => wire'[g][p] = <<>>
      <4>1. conn[g][p] = "up"
        BY <1>0, <2>0, <2>3 DEF LinkGood
      <4> QED BY <3>1, <4>1
    <3> QED BY <3>1, <3>4, <3>6, <3>7 DEF LinkGood
  <2> QED BY <2>2, <2>3
<1>14. ASSUME NEW h \in Host, NEW o \in Host, ReceiveCut(h, o) PROVE LinkGood(g, p)'
  <2>0. wire[h][o] \in Seq(Request) /\ wire[h][o] # <<>>
        /\ Head(wire[h][o]) \in Request /\ Handle(o, h, Head(wire[h][o])) /\ reg' = reg
    BY <1>0, <1>14, SeqParts DEF ReceiveCut
  <2>1. CASE ~(g = h /\ p = o)
    <3>1. conn'[g][p] = conn[g][p] /\ wire'[g][p] = wire[g][p] /\ gap'[g][p] = gap[g][p]
      BY <1>0, <1>14, <2>1 DEF ReceiveCut
    <3> QED BY <1>12, <2>0, <2>1, <3>1
  <2>2. CASE g = h /\ p = o
    <3>1. conn'[g][p] = "dead" /\ wire'[g][p] = <<>>
      BY <1>0, <1>14, <2>2 DEF ReceiveCut
    <3>2. queue'[g][p] = queue[g][p]
      BY <1>0, <1>e, <2>0, <2>2
    <3> QED BY <1>9, <2>0, <3>1, <3>2 DEF Known
  <2> QED BY <2>1, <2>2
<1>15. ASSUME NEW h \in Host, NEW o \in Host, ReceiveLate(h, o) PROVE LinkGood(g, p)'
  <2>0. late[h][o] \in Seq(Request) /\ late[h][o] # <<>>
        /\ Handle(o, h, Head(late[h][o])) /\ UNCHANGED <<reg, conn, wire>>
    BY <1>15 DEF ReceiveLate, TypeOK
  <2>1. Head(late[h][o]) \in Request
    BY <2>0, SeqParts
  <2>2. CASE ~(g = h /\ p = o)
    <3>1. gap'[g][p] = gap[g][p]
      BY <1>0, <1>15, <2>2 DEF ReceiveLate
    <3> QED BY <1>12, <2>0, <2>1, <2>2, <3>1
  <2>3. CASE g = h /\ p = o
    <3>1. gap'[g][p] = TRUE
      BY <1>0, <1>15, <2>3 DEF ReceiveLate
    <3>2. queue'[g][p] = queue[g][p]
      BY <1>0, <1>e, <2>0, <2>1, <2>3
    <3>3. Known(g, p)' = SUBSET Entry
      BY <3>1 DEF Known
    <3> QED BY <1>3, <1>4, <2>0, <3>2, <3>3
  <2> QED BY <2>2, <2>3
<1>16. CASE UNCHANGED vars
  BY <1>3, <1>16 DEF vars, linkVars, Known
<1> QED
  BY <1>5, <1>6, <1>7, <1>8, <1>10, <1>11, <1>13, <1>14, <1>15, <1>16,
     DirectoryAssumption DEF Next

\* A connection that is up, has nothing under way and has lost nothing since the
\* last list leaves the receiver with exactly the sender's nodes and topics: for
\* any number of hosts, however their connections broke and however often the
\* masters restarted before.
THEOREM CopyCorrect == Spec => []CopyAgrees
<1>1. Init => CopyInv
  <2>1. SUFFICES ASSUME Init, NEW h \in Host, NEW o \in Others(h) PROVE LinkGood(h, o)
    BY DEF CopyInv
  <2>2. o \in Host /\ {} \in SUBSET Entry
    BY DEF Others
  <2>3. /\ UnderWay(h, o) = <<>> /\ reg[h] = {} /\ Known(h, o) = SUBSET Entry
        /\ wire[h][o] = <<>>
    BY <2>1, <2>2 DEF Init, PerLink, UnderWay, Known
  <2> QED BY <2>2, <2>3, LeadsEmpty DEF LinkGood
<1>2. TypeOK /\ TypeOK' /\ CopyInv /\ [Next]_vars => CopyInv'
  BY CopyStep
<1>3. TypeOK /\ CopyInv => CopyAgrees
  <2> SUFFICES ASSUME TypeOK, CopyInv, NEW h \in Host, NEW o \in Others(h),
                      conn[h][o] = "up", queue[h][o] \o wire[h][o] = <<>>, ~gap[h][o]
               PROVE  view[o][h] = reg[h]
    BY DEF CopyAgrees
  <2>1. o \in Host /\ LinkGood(h, o)
    BY DEF CopyInv, Others
  <2>2. queue[h][o] \in Seq(Request) /\ wire[h][o] \in Seq(Request)
    BY <2>1 DEF TypeOK
  <2>4. UnderWay(h, o) = <<>>
    BY <2>2, ConcatEmpty DEF UnderWay
  <2>5. Known(h, o) = {view[o][h]}
    BY DEF Known
  <2>6. reg[h] \in Known(h, o)
    BY <2>1, <2>4, LeadsEmpty DEF LinkGood
  <2> QED BY <2>5, <2>6
<1> QED
  BY <1>1, <1>2, <1>3, TypeCorrect, PTL DEF Spec
=============================================================================
