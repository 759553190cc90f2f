----------------------------- MODULE MCServices -----------------------------
(* AppBridge, NtripClient and ShmTopic, checked in one run: a behaviour is one of
   any of them, the others stay where they began. *)
EXTENDS AppBridge, NtripClient, MCShmTopic

VARIABLE part

ServicesInit ==
  /\ part \in {"bridge", "ntrip", "topic"}
  /\ part = "ntrip" \/ args = [mode |-> "UDP", data |-> TRUE, ser |-> TRUE]
  /\ AbInit /\ NtInit /\ Init

ServicesNext ==
  \/ part = "bridge" /\ AbNext /\ UNCHANGED <<part, ntVars, vars>>
  \/ part = "ntrip" /\ NtNext /\ UNCHANGED <<part, abVars, vars>>
  \/ part = "topic" /\ Next /\ UNCHANGED <<part, abVars, ntVars>>

\* The loop of the ArkTS thread turns while calls of ArkTS come in, so a wake-up is
\* not passed over for ever; stopCommand and the nodes' threads run on, which calls
\* there are is up to the user.
BridgeFairness ==
  /\ SF_abVars(app = "up" /\ OnAsyncMessage) /\ WF_abVars(app = "up" /\ Stop)
  /\ \A n \in Op : WF_abVars(app = "up" /\ NodeThread(n))

\* The client's thread runs, but nothing makes the caster answer.
NtripFairness == WF_ntVars(part = "ntrip" /\ (Runs \/ Writes \/ TcpNmea(TRUE)))

ServicesSpec ==
  /\ ServicesInit /\ [][ServicesNext]_<<part, abVars, ntVars, vars>>
  /\ BridgeFairness /\ NtripFairness /\ Fairness
=============================================================================
