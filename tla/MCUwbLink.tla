----------------------------- MODULE MCUwbLink -----------------------------
(***************************************************************************)
(* Instances of UwbLink for TLC.  The name of a request says who sends to  *)
(* whom: "a13" goes from node 1 to node 3, "c1x" is a broadcast of node 1. *)
(* MaxNodes and AckTimeout are the program's (3 slots per round, 4 slots). *)
(***************************************************************************)
EXTENDS UwbLink, TLC

SrcOf == [a13 |-> 1, b13 |-> 1, c1x |-> 1, d31 |-> 3, e13 |-> 1]
DstOf == [a13 |-> 3, b13 |-> 3, c1x |-> Broadcast, d31 |-> 1, e13 |-> 3]
MCSrc == [m \in Msg |-> SrcOf[m]]
MCDst == [m \in Msg |-> DstOf[m]]
=============================================================================
