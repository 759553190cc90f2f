------------------------------ MODULE SlotClock -----------------------------
(***************************************************************************)
(* The time slots of src/src/Master/src/uwb/UwbTimeslotmanager.cpp: each   *)
(* node's monitor thread reads the node's own clock, and calls on_my_slot  *)
(* when it sees a new slot that is its own and whose transmission window   *)
(* is still open.  The clock is read three times on the way, and time goes *)
(* on between two readings.  UwbLink lets the owner of a slot transmit and *)
(* nobody else; this module is when that is so.                            *)
(*                                                                         *)
(* Time is counted in any unit that divides slot and window, up to MaxTime. *)
(***************************************************************************)
EXTENDS Integers, FiniteSets

CONSTANTS
  Station,       \* the node ids present, within 1..MAX_NODES
  MAX_NODES, SLOT_DURATION, TRANSMISSION_WINDOW,
  MaxSkew,       \* how far a clock may be ahead of another one
  MaxDrain,      \* how long on_my_slot may take
  MaxTime

ASSUME ClockAssumption ==
  /\ MAX_NODES \in Nat \ {0} /\ Station \subseteq 1..MAX_NODES
  /\ SLOT_DURATION \in Nat /\ TRANSMISSION_WINDOW \in 1..SLOT_DURATION
  /\ MaxSkew \in Nat /\ MaxDrain \in Nat \ {0} /\ MaxTime \in Nat
  /\ MaxSkew + MaxDrain <= SLOT_DURATION - TRANSMISSION_WINDOW

VARIABLES
  now,        \* the time since GLOBAL_EPOCH_MS
  ahead,      \* how far the clock of a node is ahead
  last,       \* m_last_slot; -1 is 0xFFFFFFFF
  doing,      \* what a monitor does next: "poll", "mine", "window" or "send"
  until,      \* end of the transmission of a node that is sending, else 0
  straddled   \* history: nodes that read two slots in one pass of the monitor

scVars == <<now, ahead, last, doing, until, straddled>>

get_current_slot(n) == (now + ahead[n]) \div SLOT_DURATION
get_time_in_slot(n) == (now + ahead[n]) % SLOT_DURATION
is_my_slot_now(n) == get_current_slot(n) % MAX_NODES = (n - 1) % MAX_NODES

ScInit ==
  /\ now = 0
  /\ ahead \in [Station -> 0..MaxSkew]
  /\ last = [n \in Station |-> -1]
  /\ doing = [n \in Station |-> "poll"]
  /\ until = [n \in Station |-> 0]
  /\ straddled = {}

\* Time passes, and a transmission does not outlast its time.
PassTime ==
  /\ now < MaxTime
  /\ \A n \in Station : doing[n] = "send" => now < until[n]
  /\ now' = now + 1
  /\ UNCHANGED <<ahead, last, doing, until, straddled>>

\* A new slot is noted before it is looked at.
monitor_thread(n) ==
  /\ doing[n] = "poll" /\ get_current_slot(n) # last[n]
  /\ last' = [last EXCEPT ![n] = get_current_slot(n)]
  /\ doing' = [doing EXCEPT ![n] = "mine"]
  /\ straddled' = straddled \ {n}
  /\ UNCHANGED <<now, ahead, until>>

CheckMine(n) ==
  /\ doing[n] = "mine"
  /\ doing' = [doing EXCEPT ![n] = IF is_my_slot_now(n) THEN "window" ELSE "poll"]
  /\ straddled' = straddled \cup (IF get_current_slot(n) = last[n] THEN {} ELSE {n})
  /\ UNCHANGED <<now, ahead, last, until>>

\* Mutant: the whole slot may be used.
SlotLasts(n) == get_time_in_slot(n) < SLOT_DURATION

WindowOpen(n) == get_time_in_slot(n) < TRANSMISSION_WINDOW

\* on_my_slot begins; how long its queues take is not looked at.
CheckWindow(n, d) ==
  /\ doing[n] = "window"
  /\ doing' = [doing EXCEPT ![n] = IF WindowOpen(n) THEN "send" ELSE "poll"]
  /\ until' = [until EXCEPT ![n] = IF WindowOpen(n) THEN now + d ELSE @]
  /\ straddled' = straddled \cup (IF get_current_slot(n) = last[n] THEN {} ELSE {n})
  /\ UNCHANGED <<now, ahead, last>>

SendDone(n) ==
  /\ doing[n] = "send" /\ now = until[n]
  /\ doing' = [doing EXCEPT ![n] = "poll"]
  /\ until' = [until EXCEPT ![n] = 0]
  /\ UNCHANGED <<now, ahead, last, straddled>>

ScNext ==
  \/ PassTime
  \/ \E n \in Station :
       \/ monitor_thread(n) \/ CheckMine(n) \/ SendDone(n)
       \/ \E d \in 1..MaxDrain : CheckWindow(n, d)

ScSpec == ScInit /\ [][ScNext]_scVars

-----------------------------------------------------------------------------
(* Properties *)

ScTypeOK ==
  /\ now \in 0..MaxTime /\ ahead \in [Station -> 0..MaxSkew]
  /\ last \in [Station -> Int] /\ until \in [Station -> Int]
  /\ doing \in [Station -> {"poll", "mine", "window", "send"}]
  /\ straddled \subseteq Station

\* Two nodes are not on the radio at once, although their clocks differ and a
\* monitor may wake up late in its slot, as long as the difference and what
\* on_my_slot takes fit in the guard interval together (ClockAssumption: the code
\* checks neither).  The exception is a monitor whose readings of the clock fall
\* into two slots: is_my_slot may be asked at the end of one and the window at the
\* beginning of the next, which belongs to another node (UwbTimeslotmanager.cpp:89-102).
SlotsDisjoint ==
  \A n, m \in Station \ straddled :
    n # m => ~(doing[n] = "send" /\ doing[m] = "send")
=============================================================================
