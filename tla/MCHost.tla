------------------------------ MODULE MCHost ------------------------------
(* Two programs that give their nodes the same name. *)
EXTENDS NodeLife

SameName == [i \in 1..2 |-> "n"]

\* ProcessManager's run() and onSignal are code of a running process.
Spec == NlSpec /\ WF_nlVars(Manager)
=============================================================================
