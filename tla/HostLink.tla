------------------------------ MODULE HostLink ------------------------------
(***************************************************************************)
(* What a master relies on when it hands requests to the connection to a   *)
(* neighbour (HostInterface::send and onNew): requests are written in the  *)
(* order they were submitted, each at most once, only while the connection *)
(* is up; the one request that is lost when the connection breaks is the   *)
(* first, and when the connection comes up again a list of all nodes       *)
(* follows the requests that were waiting.                                 *)
(***************************************************************************)
EXTENDS Naturals, Sequences

VARIABLES
  up,       \* the connection is established, as the sender sees it
  pending,  \* the kinds of the requests that are not written yet
  detour    \* lists may take another way to the neighbour

vars == <<up, pending, detour>>

\* A request with the list of all nodes (POST and PUT /new), or another one.
Kind == {"list", "data"}

Init ==
  /\ up = FALSE
  /\ pending = <<>>
  /\ detour \in BOOLEAN

Submit(k) ==
  /\ pending' = Append(pending, k)
  /\ UNCHANGED <<up, detour>>

Written ==
  /\ up
  /\ pending # <<>>
  /\ pending' = Tail(pending)
  /\ UNCHANGED <<up, detour>>

Broken ==
  /\ up
  /\ pending # <<>>
  /\ up' = FALSE
  /\ pending' = Tail(pending)
  /\ UNCHANGED detour

\* The list, then the weight of the link; the list is only missing if it went
\* another way.
Established ==
  /\ ~up
  /\ up' = TRUE
  /\ \/ pending' = pending \o <<"list", "data">>
     \/ detour /\ pending' = Append(pending, "data")
  /\ UNCHANGED detour

Next ==
  \/ \E k \in Kind : Submit(k)
  \/ Written \/ Broken \/ Established

Spec == Init /\ [][Next]_vars
=============================================================================
