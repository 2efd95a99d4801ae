-------------------------- MODULE CloseRace_proofs --------------------------
(* Theorems about CloseRace, for any threads. *)
EXTENDS CloseRace, TLAPS

\* Where its steps have brought a thread.
ThreadOK(t) ==
  /\ pc[t] \in Closing \ {"check", "mark"} => exiting \/ closed
  /\ pc[t] \in Terminating => stopped
  /\ pc[t] \in {"t_wait", "t_kill"} => eng # "running"
  /\ pc[t] = "t_reap" => eng \in {"dying", "dead"}
  /\ pc[t] = "t_log" => eng = "dead"
  /\ pc[t] = "gone" => t = Main /\ exiting /\ stopped
  /\ exiting /\ t # Main => pc[t] = "idle"
  /\ exiting => pc[Main] \in {"gone", "t_check", "t_mark"} \cup Terminating

\* What is still to be done after a flag was set is being done by some thread.
SomeoneDoes ==
  /\ closed => ~chan \/ \E t \in Threads : pc[t] = "hangup"
  /\ closed => stopped \/ \E t \in Threads : pc[t] \in {"hangup", "t_check", "t_mark"}
  /\ stopped => eng \in {"dying", "dead"} \/ \E t \in Threads : pc[t] \in Terminating
  /\ stopped => (eng = "dead" /\ ~log) \/ gaveUp \/ \E t \in Threads : pc[t] \in Terminating

IInv == TypeOK /\ (\A t \in Threads : ThreadOK(t)) /\ SomeoneDoes

\* The invariant holds while nobody closes.
LEMMA InitInv == Init => IInv
BY DEF Init, IInv, TypeOK, ThreadOK, SomeoneDoes, Closing, Terminating

\* Every step of a thread, of the engine and of the exit keeps it.
LEMMA Step == IInv /\ [Next]_vars => IInv'
<1> SUFFICES ASSUME IInv, [Next]_vars PROVE IInv'
  OBVIOUS
<1>0. TypeOK /\ SomeoneDoes /\ \A t \in Threads : ThreadOK(t)
  BY DEF IInv
<1> USE CloseAssumption DEF TypeOK, Goto, Return, Closing, Terminating, flags
<1>1. ASSUME NEW t \in Threads, Close(t) PROVE IInv'
  BY <1>0, <1>1 DEF Close, IInv, ThreadOK, SomeoneDoes
<1>2. ASSUME NEW t \in Threads, Check(t) PROVE IInv'
  BY <1>0, <1>2 DEF Check, IInv, ThreadOK, SomeoneDoes
<1>3. ASSUME NEW t \in Threads, Mark(t) PROVE IInv'
  BY <1>0, <1>3 DEF Mark, IInv, ThreadOK, SomeoneDoes
<1>4. ASSUME NEW t \in Threads, HangUp(t) PROVE IInv'
  BY <1>0, <1>4 DEF HangUp, IInv, ThreadOK, SomeoneDoes
<1>5. ASSUME NEW t \in Threads, TerminateCheck(t) PROVE IInv'
  BY <1>0, <1>5 DEF TerminateCheck, IInv, ThreadOK, SomeoneDoes
<1>6. ASSUME NEW t \in Threads, TerminateMark(t) PROVE IInv'
  BY <1>0, <1>6 DEF TerminateMark, IInv, ThreadOK, SomeoneDoes
<1>7. ASSUME NEW t \in Threads, TerminatePoll(t) PROVE IInv'
  BY <1>0, <1>7 DEF TerminatePoll, IInv, ThreadOK, SomeoneDoes
<1>8. ASSUME NEW t \in Threads, SigTerm(t) PROVE IInv'
  BY <1>0, <1>8 DEF SigTerm, IInv, ThreadOK, SomeoneDoes
<1>9. ASSUME NEW t \in Threads, Wait(t) PROVE IInv'
  BY <1>0, <1>9 DEF Wait, IInv, ThreadOK, SomeoneDoes
<1>10. ASSUME NEW t \in Threads, SigKill(t) PROVE IInv'
  BY <1>0, <1>10 DEF SigKill, IInv, ThreadOK, SomeoneDoes
<1>11. ASSUME NEW t \in Threads, Reap(t) PROVE IInv'
  BY <1>0, <1>11 DEF Reap, IInv, ThreadOK, SomeoneDoes
<1>12. ASSUME NEW t \in Threads, CloseLog(t) PROVE IInv'
  BY <1>0, <1>12 DEF CloseLog, IInv, ThreadOK, SomeoneDoes
<1>13. CASE Exit
  BY <1>0, <1>13 DEF Exit, IInv, ThreadOK, SomeoneDoes
<1>14. CASE Die
  BY <1>0, <1>14 DEF Die, IInv, ThreadOK, SomeoneDoes
<1>15. CASE UNCHANGED vars
  BY <1>0, <1>15 DEF vars, IInv, ThreadOK, SomeoneDoes
<1>16. QED
  BY <1>1, <1>2, <1>3, <1>4, <1>5, <1>6, <1>7, <1>8, <1>9, <1>10, <1>11, <1>12, <1>13, <1>14, <1>15
  DEF Next, Go

\* However close() and the exit interleave, IInv holds.
THEOREM Invariance == Spec => []IInv
<1>1. QED
  BY InitInv, Step, PTL DEF Spec

\* Once every close() has returned, engine, channel and log are closed.
THEOREM Released == Spec => []AllReturnedMeansReleased
<1>1. IInv => AllReturnedMeansReleased
  BY DEF IInv, SomeoneDoes, AllReturnedMeansReleased, Terminating
<1>2. QED
  BY <1>1, Invariance, PTL

\* A process that has exited leaves no engine that nobody has told to end.
THEOREM ExitStops == Spec => []ExitStopsEngine
<1>1. IInv => ExitStopsEngine
  BY CloseAssumption DEF IInv, ThreadOK, SomeoneDoes, ExitStopsEngine, Terminating
<1>2. QED
  BY <1>1, Invariance, PTL
=============================================================================
