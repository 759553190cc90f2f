---------------------------- MODULE MCAlgorithms ----------------------------
(* RouteMap, ClientCmd, DgpsNode, Vehicle, DwaSearch, SlotClock and UwbWire,
   checked in one run: a behaviour is one of any of them, the others stay where
   they began. *)
EXTENDS RouteMap, ClientCmd, DgpsNode, Vehicle, DwaSearch, SlotClock, UwbWire, TLC

VARIABLE part

\* One user more than a node name admits.
MCUser == {"u", "v", "w"}

\* No limit, limits below and above what the car can do, a negative one.
MCCaps == {-1, 0, 1, 9}

\* A body that ends in a backslash, one that reads like an escaped line end, one
\* that reads like the end of the head, one whose end reads like a checksum.
MCBody == {<<92>>, <<92, 110>>, <<13, 10, 13, 10>>, <<92, 13, 48, 48>>}

AlgorithmsInit ==
  /\ part \in {"route", "command", "node", "drive", "search", "clock", "wire"}
  /\ part = "route" \/ initWeight = [l \in Link |-> 0]
  /\ part = "node" \/ (plugged = TRUE
                         /\ args = [mode |-> "NTRIP1", data |-> TRUE, ser |-> TRUE])
  /\ part = "search" \/ ask = [vel |-> 0, yaw |-> 0, cap |-> 0, back |-> FALSE,
                               allow_pub |-> FALSE, goal |-> <<0, 0>>,
                               obstacle |-> NoObstacle]
  /\ part = "clock" \/ ahead = [n \in Station |-> 0]
  /\ Init /\ CcInit /\ DgInit /\ VhInit /\ DwInit /\ ScInit /\ WiInit

AlgorithmsNext ==
  \/ part = "route" /\ Next
       /\ UNCHANGED <<part, ccVars, dgVars, vhVars, dwVars, scVars, wiVars>>
  \/ part = "command" /\ CcNext
       /\ UNCHANGED <<part, vars, dgVars, vhVars, dwVars, scVars, wiVars>>
  \/ part = "node" /\ DgNext
       /\ UNCHANGED <<part, vars, ccVars, vhVars, dwVars, scVars, wiVars>>
  \/ part = "drive" /\ VhNext
       /\ UNCHANGED <<part, vars, ccVars, dgVars, dwVars, scVars, wiVars>>
  \/ part = "search" /\ DwNext
       /\ UNCHANGED <<part, vars, ccVars, dgVars, vhVars, scVars, wiVars>>
  \/ part = "clock" /\ ScNext
       /\ UNCHANGED <<part, vars, ccVars, dgVars, vhVars, dwVars, wiVars>>
  \/ part = "wire" /\ WiNext
       /\ UNCHANGED <<part, vars, ccVars, dgVars, vhVars, dwVars, scVars>>

AlgorithmsSpec ==
  AlgorithmsInit /\ [][AlgorithmsNext]_<<part, vars, ccVars, dgVars, vhVars, dwVars,
                                         scVars, wiVars>>
=============================================================================
