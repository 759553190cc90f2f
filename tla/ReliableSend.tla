---------------------------- MODULE ReliableSend ----------------------------
(***************************************************************************)
(* What Uwb::Handle::send_http_reliable promises to its caller, with no    *)
(* frames, sequence numbers, slots or timers: a submitted request may be   *)
(* handed to the routers of its receivers, and its callback is called at   *)
(* most once; it may report success for a unicast request only after the   *)
(* destination's router has been given the request.                        *)
(***************************************************************************)
EXTENDS Naturals, Sequences

CONSTANTS
  Node,       \* radio node ids
  Broadcast,  \* FrameCodec::BROADCAST_ID
  Msg,        \* the requests the masters hand to the link
  Dst         \* Dst[m]: the node id a request is sent to, or Broadcast

VARIABLES
  submitted,  \* requests passed to send_http_reliable
  calls,      \* calls[m]: the arguments its callback was called with
  delivered   \* delivered[m][n]: times n's router was given m

vars == <<submitted, calls, delivered>>

Init ==
  /\ submitted = {}
  /\ calls = [m \in Msg |-> <<>>]
  /\ delivered = [m \in Msg |-> [n \in Node |-> 0]]

\* Requests whose callback has not been called yet.
Open == {m \in submitted : calls[m] = <<>>}

Submit(m) ==
  /\ m \notin submitted
  /\ submitted' = submitted \cup {m}
  /\ UNCHANGED <<calls, delivered>>

\* A request the link refuses at once: its callback gets false.
Refuse(m) ==
  /\ m \notin submitted
  /\ submitted' = submitted \cup {m}
  /\ calls' = [calls EXCEPT ![m] = Append(@, "failed")]
  /\ UNCHANGED delivered

Deliver(m, n) ==
  /\ m \in submitted
  /\ Dst[m] \in {n, Broadcast}
  /\ delivered' = [delivered EXCEPT ![m][n] = @ + 1]
  /\ UNCHANGED <<submitted, calls>>

Succeed(m) ==
  /\ m \in Open
  /\ Dst[m] = Broadcast \/ delivered[m][Dst[m]] > 0
  /\ calls' = [calls EXCEPT ![m] = Append(@, "ok")]
  /\ UNCHANGED <<submitted, delivered>>

\* Several open requests can fail in one pass of a timer or at shutdown.
Fail(S) ==
  /\ S # {}
  /\ S \subseteq Open
  /\ calls' = [m \in Msg |-> IF m \in S THEN Append(calls[m], "failed") ELSE calls[m]]
  /\ UNCHANGED <<submitted, delivered>>

Next ==
  \/ \E m \in Msg : Submit(m) \/ Refuse(m) \/ Succeed(m)
  \/ \E m \in Msg, n \in Node : Deliver(m, n)
  \/ \E S \in SUBSET Msg : Fail(S)

Spec == Init /\ [][Next]_vars
=============================================================================
