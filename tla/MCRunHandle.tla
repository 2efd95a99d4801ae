---------------------------- MODULE MCRunHandle ----------------------------
(* Instances of RunHandle for TLC. *)
EXTENDS RunHandle

CONSTANTS w1, w2

\* An impatient and a patient call.
MCTimeout == [w \in Waiters |-> IF w = w1 THEN 1 ELSE 3]
=============================================================================
