---------------------------- MODULE MCDirectory -----------------------------
(* Instances of Directory for TLC. *)
EXTENDS Directory
CONSTANTS h1, h2, n1, n2, t1
=============================================================================
