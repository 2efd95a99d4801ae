--------------------------- MODULE MCLocalEngine ---------------------------
(* Instances of LocalEngine for TLC. *)
EXTENDS LocalEngine, TLC

CONSTANTS h1, h2, e1, e2, p1, p2, p3, p4

\* Ctrl-C where the source can bear it: while the log is open and nothing is
\* spawned, once the atexit handler is registered, in the readiness loop,
\* before _terminate is entered, and after the engine is dead or was killed.
BearableInterrupts == {"spawn", "dial", "poll", "probe", "hangup", "t_reap", "t_log"}

MCSymmetry ==
  Permutations(Hosts) \cup Permutations(Engines) \cup Permutations(Ports)
=============================================================================
