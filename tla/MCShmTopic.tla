----------------------------- MODULE MCShmTopic -----------------------------
(* Instances of ShmTopic for TLC. *)
EXTENDS ShmTopic, TLC

CONSTANTS a, b, c, x, y

OwnNames == (a :> x) @@ (b :> y)

\* c is a second process under the name of a: refused while a is registered,
\* its successor afterwards.
SharedName == (a :> x) @@ (b :> y) @@ (c :> x)
=============================================================================
