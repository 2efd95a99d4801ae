---------------------------- MODULE MCProvision ----------------------------
(* An instance of Provision for TLC: up to three calls and three versions. *)
EXTENDS Provision

CONSTANTS c1, c2, c3, v1, v2, v3

\* v2's archive has no conduit entry, v3's is no archive at all.
MCAsset == [v \in Versions |-> CASE v = v1 -> "binary" [] v = v2 -> "nobinary" [] v = v3 -> "unreadable"]
=============================================================================
