----------------------------- MODULE CloseRace -----------------------------
(***************************************************************************)
(* close() of one LocalConduit from several threads (client.py,            *)
(* src/src/conduit/_local.py).  _closed and _stopped are tested in one step *)
(* and set in another, so two threads may both find them unset; then       *)
(* on_close runs twice and the engine gets two SIGTERMs.  The process may  *)
(* also exit, which joins its (non-daemon) threads and then runs the       *)
(* atexit handler in Main.                                                 *)
(***************************************************************************)
CONSTANTS Threads, Main

ASSUME CloseAssumption == Main \in Threads

VARIABLES
  pc,               \* pc[t]: the step thread t is at
  closed, stopped,  \* Client._closed, LocalConduit._stopped
  chan, log,        \* the channel, the log file is open
  eng,              \* the engine, external
  exiting,          \* Main is past the last line of the program
  gaveUp            \* some close() raised TimeoutExpired

flags == <<closed, stopped>>
vars == <<pc, flags, chan, log, eng, exiting, gaveUp>>

Terminating == {"t_poll", "t_term", "t_wait", "t_kill", "t_reap", "t_log"}
Closing == {"check", "mark", "hangup", "t_check", "t_mark"} \cup Terminating

TypeOK ==
  /\ pc \in [Threads -> Closing \cup {"idle", "gone"}]
  /\ closed \in BOOLEAN /\ stopped \in BOOLEAN /\ chan \in BOOLEAN /\ log \in BOOLEAN
  /\ eng \in {"running", "draining", "dying", "dead"}
  /\ exiting \in BOOLEAN /\ gaveUp \in BOOLEAN

Init ==
  /\ pc = [t \in Threads |-> "idle"]
  /\ closed = FALSE /\ stopped = FALSE /\ chan = TRUE /\ log = TRUE
  /\ eng = "running"
  /\ exiting = FALSE /\ gaveUp = FALSE

-----------------------------------------------------------------------------
Goto(t, step) == pc' = [pc EXCEPT ![t] = step]

\* close() returns, or the atexit handler does.
Return(t) == Goto(t, IF exiting THEN "gone" ELSE "idle")

Close(t) ==
  /\ pc[t] = "idle" /\ ~exiting
  /\ Goto(t, "check")
  /\ UNCHANGED <<flags, chan, log, eng, exiting, gaveUp>>

\* if self._closed: return
Check(t) ==
  /\ pc[t] = "check"
  /\ \/ closed /\ Return(t)
     \/ ~closed /\ Goto(t, "mark")
  /\ UNCHANGED <<flags, chan, log, eng, exiting, gaveUp>>

\* self._closed = True
Mark(t) ==
  /\ pc[t] = "mark"
  /\ closed' = TRUE
  /\ Goto(t, "hangup")
  /\ UNCHANGED <<stopped, chan, log, eng, exiting, gaveUp>>

\* self._channel.close(), and on to self._on_close()
HangUp(t) ==
  /\ pc[t] = "hangup"
  /\ chan' = FALSE
  /\ Goto(t, "t_check")
  /\ UNCHANGED <<flags, log, eng, exiting, gaveUp>>

\* _terminate: if self._stopped: return
TerminateCheck(t) ==
  /\ pc[t] = "t_check"
  /\ \/ stopped /\ Return(t)
     \/ ~stopped /\ Goto(t, "t_mark")
  /\ UNCHANGED <<flags, chan, log, eng, exiting, gaveUp>>

\* self._stopped = True
TerminateMark(t) ==
  /\ pc[t] = "t_mark"
  /\ stopped' = TRUE
  /\ Goto(t, "t_poll")
  /\ UNCHANGED <<closed, chan, log, eng, exiting, gaveUp>>

TerminatePoll(t) ==
  /\ pc[t] = "t_poll"
  /\ Goto(t, IF eng = "dead" THEN "t_log" ELSE "t_term")
  /\ UNCHANGED <<flags, chan, log, eng, exiting, gaveUp>>

\* Mutant: SIGTERM and no wait.
SigTermAndGo(t) ==
  /\ pc[t] = "t_term"
  /\ eng' = IF eng = "running" THEN "draining" ELSE eng
  /\ Goto(t, "t_log")
  /\ UNCHANGED <<flags, chan, log, exiting, gaveUp>>

\* SIGTERM, which an engine already told to end survives.
SigTerm(t) ==
  /\ pc[t] = "t_term"
  /\ eng' = IF eng = "running" THEN "draining" ELSE eng
  /\ Goto(t, "t_wait")
  /\ UNCHANGED <<flags, chan, log, exiting, gaveUp>>

\* Mutant: wait() without a timeout.
WaitForever(t) ==
  /\ pc[t] = "t_wait"
  /\ eng = "dead" /\ Goto(t, "t_log")
  /\ UNCHANGED <<flags, chan, log, eng, exiting, gaveUp>>

\* wait(timeout=10): the engine is dead, or the grace period of this thread over.
Wait(t) ==
  /\ pc[t] = "t_wait"
  /\ \/ eng = "dead" /\ Goto(t, "t_log")
     \/ eng # "dead" /\ Goto(t, "t_kill")
  /\ UNCHANGED <<flags, chan, log, eng, exiting, gaveUp>>

\* Mutant: kill() and no second wait.
SigKillAndGo(t) ==
  /\ pc[t] = "t_kill"
  /\ eng' = IF eng = "dead" THEN eng ELSE "dying"
  /\ Goto(t, "t_log")
  /\ UNCHANGED <<flags, chan, log, exiting, gaveUp>>

SigKill(t) ==
  /\ pc[t] = "t_kill"
  /\ eng' = IF eng = "dead" THEN eng ELSE "dying"
  /\ Goto(t, "t_reap")
  /\ UNCHANGED <<flags, chan, log, exiting, gaveUp>>

\* The second wait(timeout=10): TimeoutExpired leaves close() before the log is
\* closed.
Reap(t) ==
  /\ pc[t] = "t_reap"
  /\ \/ eng = "dead" /\ Goto(t, "t_log") /\ UNCHANGED gaveUp
     \/ eng # "dead" /\ Return(t) /\ gaveUp' = TRUE
  /\ UNCHANGED <<flags, chan, log, eng, exiting>>

CloseLog(t) ==
  /\ pc[t] = "t_log"
  /\ log' = FALSE
  /\ Return(t)
  /\ UNCHANGED <<flags, chan, eng, exiting, gaveUp>>

\* The program ends: the other threads are joined, then _atexit_kill runs.
Exit ==
  /\ ~exiting /\ \A t \in Threads : pc[t] = "idle"
  /\ exiting' = TRUE
  /\ Goto(Main, "t_check")
  /\ UNCHANGED <<flags, chan, log, eng, gaveUp>>

\* The engine ends: a crash, the end of its drain, or the SIGKILL.
Die ==
  /\ eng # "dead"
  /\ eng' = "dead"
  /\ UNCHANGED <<pc, flags, chan, log, exiting, gaveUp>>

Go(t) ==
  \/ Check(t) \/ Mark(t) \/ HangUp(t) \/ TerminateCheck(t) \/ TerminateMark(t)
  \/ TerminatePoll(t) \/ SigTerm(t) \/ Wait(t) \/ SigKill(t) \/ Reap(t) \/ CloseLog(t)

Next == (\E t \in Threads : Close(t) \/ Go(t)) \/ Exit \/ Die

\* Threads run, and the kernel ends a SIGKILLed child.  The engine owes nothing.
Spec ==
  /\ Init /\ [][Next]_vars
  /\ \A t \in Threads : WF_vars(Go(t))
  /\ WF_vars(eng = "dying" /\ Die)

-----------------------------------------------------------------------------
\* However the calls overlap: when all of them have returned, and none raised,
\* the engine is dead and the channel and the log file are closed.  (One that
\* finds _closed set returns at once, while the first still waits.)
AllReturnedMeansReleased ==
  closed /\ ~gaveUp /\ (\A t \in Threads : pc[t] = "idle") => eng = "dead" /\ ~chan /\ ~log

\* A process that exits, whoever of its threads has called close() or none,
\* leaves no engine that was not at least sent SIGKILL.
ExitStopsEngine == pc[Main] = "gone" => eng \in {"dying", "dead"}

\* Every close() returns or raises, even of an engine that ignores SIGTERM.
ClosesEnd == \A t \in Threads : pc[t] = "check" ~> pc[t] = "idle"

\* And the engine ends, even if a close() gave up.
CloseEndsEngine == closed ~> eng = "dead"
=============================================================================
