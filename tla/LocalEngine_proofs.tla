------------------------- MODULE LocalEngine_proofs -------------------------
(* Theorems about LocalEngine, for any hosts, engines and ports. *)
EXTENDS LocalEngine, TLAPS

\* Where a host's own step puts its engine.
HostOK(h) ==
  /\ pc[h] \in Steps => cur[h] \in Engines /\ owner[cur[h]] = h
  /\ pc[h] = "spawn" => eng[cur[h]] = "none"
  /\ pc[h] \in Starting => cur[h] \notin stopped
  /\ pc[h] \in {"dial", "poll", "probe"} => cur[h] \in handlers
  /\ pc[h] \in {"t_wait", "t_kill"} => eng[cur[h]] \in {"draining", "dying", "dead"}
  /\ pc[h] = "t_kill" => h \in late
  /\ pc[h] \in {"t_reap", "t_log"} => ~Untouched(cur[h])
  /\ pc[h] = "t_reap" /\ ~KernelMayStall => h \notin late
  /\ pc[h] = "gone" => handlers \cap Own(h) = {}

\* Who looks after an engine that was not sent SIGKILL.
EngineOK(e) ==
  /\ owner[e] = NoHost => eng[e] = "none" /\ e \notin handlers \cup stopped
  /\ Untouched(e) =>
       \/ pc[owner[e]] = "killed"
       \/ e \in handlers \ stopped
       \/ cur[owner[e]] = e /\ pc[owner[e]] \in {"register", "t_check"} /\ e \notin stopped
       \/ cur[owner[e]] = e /\ pc[owner[e]] \in {"t_term", "t_wait", "t_kill"}

IInv == TypeOK /\ (\A h \in Hosts : HostOK(h)) /\ (\A e \in Engines : EngineOK(e))

\* Ctrl-C spares the steps in which an engine hangs on the running thread alone.
SafeInterrupts == InterruptAt \cap {"register", "t_check", "t_term", "t_wait", "t_kill"} = {}

\* The invariant holds when no host has opened anything.
LEMMA InitInv == Init => IInv
BY LocalAssumption DEF Init, IInv, TypeOK, HostOK, EngineOK, Steps, Starting, Stopping, Own, Untouched, Results, Life

\* No step of a host or an engine leaves the types.
LEMMA TypeStep == IInv /\ [Next]_vars => TypeOK'
<1> SUFFICES ASSUME IInv, [Next]_vars PROVE TypeOK'
  OBVIOUS
<1>0. TypeOK /\ \A h \in Hosts : HostOK(h)
  BY DEF IInv
<1> USE LocalAssumption DEF TypeOK, Goto, Report, Steps, Starting, Stopping, Results, Life,
        hostVars, flags, resources, engineVars
<1>1. ASSUME NEW h \in Hosts, Begin(h) PROVE TypeOK'
  <2>1. PICK e \in Engines, a \in Addr :
          /\ owner' = [owner EXCEPT ![e] = h] /\ addr' = [addr EXCEPT ![e] = a]
          /\ cur' = [cur EXCEPT ![h] = e] /\ log' = log \cup {e}
    BY <1>1 DEF Begin, FreePorts, Addr
  <2>2. addr' \in [Engines -> Addr \cup {NoAddr}]
    BY <1>0, <2>1
  <2>3. QED
    BY <1>0, <1>1, <2>1, <2>2 DEF Begin
<1>2. ASSUME NEW h \in Hosts, Spawn(h) PROVE TypeOK'
  BY <1>0, <1>2 DEF Spawn, HostOK
<1>3. ASSUME NEW h \in Hosts, Register(h) PROVE TypeOK'
  BY <1>0, <1>3 DEF Register, HostOK
<1>4. ASSUME NEW h \in Hosts, Dial(h) PROVE TypeOK'
  BY <1>0, <1>4 DEF Dial, HostOK
<1>5. ASSUME NEW h \in Hosts, Poll(h) PROVE TypeOK'
  BY <1>0, <1>5 DEF Poll, TerminateAndRaise
<1>6. ASSUME NEW h \in Hosts, Probe(h) PROVE TypeOK'
  BY <1>0, <1>6 DEF Probe, HostOK
<1>7. ASSUME NEW h \in Hosts, Deadline(h) PROVE TypeOK'
  BY <1>0, <1>7 DEF Deadline
<1>8. ASSUME NEW h \in Hosts, Close(h) PROVE TypeOK'
  BY <1>0, <1>8 DEF Close, Own
<1>9. ASSUME NEW h \in Hosts, HangUp(h) PROVE TypeOK'
  BY <1>0, <1>9 DEF HangUp
<1>10. ASSUME NEW h \in Hosts, TerminateCheck(h) PROVE TypeOK'
  BY <1>0, <1>10 DEF TerminateCheck, HostOK
<1>11. ASSUME NEW h \in Hosts, SigTerm(h) PROVE TypeOK'
  BY <1>0, <1>11 DEF SigTerm
<1>12. ASSUME NEW h \in Hosts, Wait(h) PROVE TypeOK'
  BY <1>0, <1>12 DEF Wait
<1>13. ASSUME NEW h \in Hosts, SigKill(h) PROVE TypeOK'
  BY <1>0, <1>13 DEF SigKill
<1>14. ASSUME NEW h \in Hosts, Reap(h) PROVE TypeOK'
  BY <1>0, <1>14 DEF Reap
<1>15. ASSUME NEW h \in Hosts, CloseLog(h) PROVE TypeOK'
  BY <1>0, <1>15 DEF CloseLog
<1>16. ASSUME NEW h \in Hosts, Exit(h) PROVE TypeOK'
  BY <1>0, <1>16 DEF Exit
<1>17. ASSUME NEW h \in Hosts, RunHandler(h) PROVE TypeOK'
  BY <1>0, <1>17 DEF RunHandler
<1>18. ASSUME NEW h \in Hosts, Interrupt(h) PROVE TypeOK'
  <2>1. \E step \in {"t_check", "idle", "atexit"} : pc' = [pc EXCEPT ![h] = step]
    BY <1>0, <1>18 DEF Interrupt, TerminateAndRaise
  <2>2. /\ result' = [result EXCEPT ![h] = "interrupt"]
        /\ ret' = ret \/ ret' = [ret EXCEPT ![h] = "idle"]
    BY <1>18 DEF Interrupt, TerminateAndRaise
  <2>3. UNCHANGED <<cur, late, owner, held, handlers, stopped, closed, addr, chan, log, eng, bound>>
    BY <1>18 DEF Interrupt
  <2>4. QED
    BY <1>0, <2>1, <2>2, <2>3
<1>19. ASSUME NEW h \in Hosts, KillHost(h) PROVE TypeOK'
  BY <1>0, <1>19 DEF KillHost
<1>20. ASSUME NEW e \in Engines, Bind(e) PROVE TypeOK'
  <2>1. /\ bound' = bound \cup {e} \/ bound' = bound
        /\ eng' = [eng EXCEPT ![e] = "dead"] \/ eng' = eng
        /\ UNCHANGED <<hostVars, flags, resources>>
    BY <1>20 DEF Bind
  <2>2. QED
    BY <1>0, <2>1
<1>21. ASSUME NEW e \in Engines, Die(e) PROVE TypeOK'
  BY <1>0, <1>21 DEF Die
<1>22. CASE UNCHANGED vars
  BY <1>0, <1>22 DEF vars
<1>23. ASSUME NEW h \in Hosts, Local(h), ~Begin(h) PROVE TypeOK'
  BY <1>0, <1>23 DEF Local
<1>24. QED
  BY <1>1, <1>2, <1>3, <1>4, <1>5, <1>6, <1>7, <1>8, <1>9, <1>10, <1>11, <1>12, <1>13, <1>14, <1>15, <1>16, <1>17, <1>18, <1>19, <1>20, <1>21, <1>22, <1>23 DEF Next, Run

\* Every step keeps HostOK: a host that works on an engine owns it, so no other
\* host can move that engine under it.
LEMMA HostStep ==
  ASSUME IInv, [Next]_vars, SafeInterrupts, NEW x \in Hosts
  PROVE  HostOK(x)'
<1>0. TypeOK /\ (\A h \in Hosts : HostOK(h)) /\ (\A e \in Engines : EngineOK(e))
  BY DEF IInv
<1> USE LocalAssumption DEF TypeOK, HostOK, Goto, Report, Steps, Starting, Stopping, Own, Untouched,
        hostVars, flags, resources, engineVars
<1>1. ASSUME NEW h \in Hosts, Begin(h) PROVE HostOK(x)'
  BY <1>0, <1>1 DEF Begin, EngineOK
<1>2. ASSUME NEW h \in Hosts, Spawn(h) PROVE HostOK(x)'
  BY <1>0, <1>2 DEF Spawn
<1>3. ASSUME NEW h \in Hosts, Register(h) PROVE HostOK(x)'
  BY <1>0, <1>3 DEF Register
<1>4. ASSUME NEW h \in Hosts, Dial(h) PROVE HostOK(x)'
  BY <1>0, <1>4 DEF Dial
<1>5. ASSUME NEW h \in Hosts, Poll(h) PROVE HostOK(x)'
  BY <1>0, <1>5 DEF Poll, TerminateAndRaise
<1>6. ASSUME NEW h \in Hosts, Probe(h) PROVE HostOK(x)'
  BY <1>0, <1>6 DEF Probe
<1>7. ASSUME NEW h \in Hosts, Deadline(h) PROVE HostOK(x)'
  BY <1>0, <1>7 DEF Deadline
<1>8. ASSUME NEW h \in Hosts, Close(h) PROVE HostOK(x)'
  BY <1>0, <1>8 DEF Close, EngineOK
<1>9. ASSUME NEW h \in Hosts, HangUp(h) PROVE HostOK(x)'
  BY <1>0, <1>9 DEF HangUp
<1>10. ASSUME NEW h \in Hosts, TerminateCheck(h) PROVE HostOK(x)'
  BY <1>0, <1>10 DEF TerminateCheck
<1>11. ASSUME NEW h \in Hosts, SigTerm(h) PROVE HostOK(x)'
  BY <1>0, <1>11 DEF SigTerm
<1>12. ASSUME NEW h \in Hosts, Wait(h) PROVE HostOK(x)'
  BY <1>0, <1>12 DEF Wait
<1>13. ASSUME NEW h \in Hosts, SigKill(h) PROVE HostOK(x)'
  BY <1>0, <1>13 DEF SigKill
<1>14. ASSUME NEW h \in Hosts, Reap(h) PROVE HostOK(x)'
  BY <1>0, <1>14 DEF Reap
<1>15. ASSUME NEW h \in Hosts, CloseLog(h) PROVE HostOK(x)'
  BY <1>0, <1>15 DEF CloseLog
<1>16. ASSUME NEW h \in Hosts, Exit(h) PROVE HostOK(x)'
  BY <1>0, <1>16 DEF Exit
<1>17. ASSUME NEW h \in Hosts, RunHandler(h) PROVE HostOK(x)'
  BY <1>0, <1>17 DEF RunHandler
<1>18. ASSUME NEW h \in Hosts, Interrupt(h) PROVE HostOK(x)'
  BY <1>0, <1>18 DEF SafeInterrupts, Interrupt, TerminateAndRaise
<1>19. ASSUME NEW h \in Hosts, KillHost(h) PROVE HostOK(x)'
  BY <1>0, <1>19 DEF KillHost
<1>20. ASSUME NEW e \in Engines, Bind(e) PROVE HostOK(x)'
  BY <1>0, <1>20 DEF Bind, EngineOK
<1>21. ASSUME NEW e \in Engines, Die(e) PROVE HostOK(x)'
  BY <1>0, <1>21 DEF Die, Alive
<1>22. CASE UNCHANGED vars
  BY <1>0, <1>22 DEF vars
<1>23. ASSUME NEW h \in Hosts, Local(h), ~Begin(h) PROVE HostOK(x)'
  BY <1>0, <1>23 DEF Local
<1>24. QED
  BY <1>1, <1>2, <1>3, <1>4, <1>5, <1>6, <1>7, <1>8, <1>9, <1>10, <1>11, <1>12, <1>13, <1>14, <1>15, <1>16, <1>17, <1>18, <1>19, <1>20, <1>21, <1>22, <1>23 DEF Next, Run

\* Every step keeps EngineOK: whoever looks after an engine lets go of it only
\* when somebody else has taken over or the engine is dead or sent SIGKILL.
LEMMA EngineStep ==
  ASSUME IInv, [Next]_vars, SafeInterrupts, NEW x \in Engines
  PROVE  EngineOK(x)'
<1>0. TypeOK /\ (\A h \in Hosts : HostOK(h)) /\ EngineOK(x)
  BY DEF IInv
<1> USE LocalAssumption DEF TypeOK, HostOK, EngineOK, Goto, Report, Steps, Starting, Stopping, Own,
        Untouched, hostVars, flags, resources, engineVars
<1>1. ASSUME NEW h \in Hosts, Begin(h) PROVE EngineOK(x)'
  BY <1>0, <1>1 DEF Begin, EngineOK
<1>2. ASSUME NEW h \in Hosts, Spawn(h) PROVE EngineOK(x)'
  BY <1>0, <1>2 DEF Spawn
<1>3. ASSUME NEW h \in Hosts, Register(h) PROVE EngineOK(x)'
  BY <1>0, <1>3 DEF Register
<1>4. ASSUME NEW h \in Hosts, Dial(h) PROVE EngineOK(x)'
  BY <1>0, <1>4 DEF Dial
<1>5. ASSUME NEW h \in Hosts, Poll(h) PROVE EngineOK(x)'
  BY <1>0, <1>5 DEF Poll, TerminateAndRaise
<1>6. ASSUME NEW h \in Hosts, Probe(h) PROVE EngineOK(x)'
  BY <1>0, <1>6 DEF Probe
<1>7. ASSUME NEW h \in Hosts, Deadline(h) PROVE EngineOK(x)'
  BY <1>0, <1>7 DEF Deadline
<1>8. ASSUME NEW h \in Hosts, Close(h) PROVE EngineOK(x)'
  BY <1>0, <1>8 DEF Close, EngineOK
<1>9. ASSUME NEW h \in Hosts, HangUp(h) PROVE EngineOK(x)'
  BY <1>0, <1>9 DEF HangUp
<1>10. ASSUME NEW h \in Hosts, TerminateCheck(h) PROVE EngineOK(x)'
  BY <1>0, <1>10 DEF TerminateCheck
<1>11. ASSUME NEW h \in Hosts, SigTerm(h) PROVE EngineOK(x)'
  BY <1>0, <1>11 DEF SigTerm
<1>12. ASSUME NEW h \in Hosts, Wait(h) PROVE EngineOK(x)'
  BY <1>0, <1>12 DEF Wait
<1>13. ASSUME NEW h \in Hosts, SigKill(h) PROVE EngineOK(x)'
  BY <1>0, <1>13 DEF SigKill
<1>14. ASSUME NEW h \in Hosts, Reap(h) PROVE EngineOK(x)'
  BY <1>0, <1>14 DEF Reap
<1>15. ASSUME NEW h \in Hosts, CloseLog(h) PROVE EngineOK(x)'
  BY <1>0, <1>15 DEF CloseLog
<1>16. ASSUME NEW h \in Hosts, Exit(h) PROVE EngineOK(x)'
  BY <1>0, <1>16 DEF Exit
<1>17. ASSUME NEW h \in Hosts, RunHandler(h) PROVE EngineOK(x)'
  BY <1>0, <1>17 DEF RunHandler
<1>18. ASSUME NEW h \in Hosts, Interrupt(h) PROVE EngineOK(x)'
  BY <1>0, <1>18 DEF SafeInterrupts, Interrupt, TerminateAndRaise
<1>19. ASSUME NEW h \in Hosts, KillHost(h) PROVE EngineOK(x)'
  BY <1>0, <1>19 DEF KillHost
<1>20. ASSUME NEW e \in Engines, Bind(e) PROVE EngineOK(x)'
  BY <1>0, <1>20 DEF Bind, EngineOK
<1>21. ASSUME NEW e \in Engines, Die(e) PROVE EngineOK(x)'
  BY <1>0, <1>21 DEF Die, Alive
<1>22. CASE UNCHANGED vars
  BY <1>0, <1>22 DEF vars
<1>23. ASSUME NEW h \in Hosts, Local(h), ~Begin(h) PROVE EngineOK(x)'
  BY <1>0, <1>23 DEF Local
<1>24. QED
  BY <1>1, <1>2, <1>3, <1>4, <1>5, <1>6, <1>7, <1>8, <1>9, <1>10, <1>11, <1>12, <1>13, <1>14, <1>15, <1>16, <1>17, <1>18, <1>19, <1>20, <1>21, <1>22, <1>23 DEF Next, Run

\* IInv is inductive: it holds in every state of every behaviour.
LEMMA Invariance ==
  ASSUME SafeInterrupts
  PROVE  Spec => []IInv
<1>1. IInv /\ [Next]_vars => IInv'
  BY TypeStep, HostStep, EngineStep DEF IInv
<1>2. QED
  BY InitInv, <1>1, PTL DEF Spec

\* IInv says of every engine that somebody will stop it, and of every host that
\* exited that nobody is left.
LEMMA Consequences == IInv => NoAbandonedEngine /\ HostExitLeavesNothing
<1> SUFFICES ASSUME IInv PROVE NoAbandonedEngine /\ HostExitLeavesNothing
  OBVIOUS
<1> USE LocalAssumption DEF IInv, TypeOK, EngineOK, Untouched
<1>1. ASSUME NEW e \in Engines, Untouched(e) PROVE owner[e] \in Hosts
  BY <1>1
<1>2. NoAbandonedEngine
  BY <1>1 DEF NoAbandonedEngine, Starting, Stopping
<1>3. HostExitLeavesNothing
  BY DEF HostExitLeavesNothing, HostOK, Own
<1>4. QED
  BY <1>2, <1>3

\* Type correctness of local(), close() and the atexit handlers.
THEOREM TypeCorrect ==
  ASSUME SafeInterrupts
  PROVE  Spec => []TypeOK
<1>1. IInv => TypeOK
  BY DEF IInv
<1>2. QED
  BY Invariance, <1>1, PTL

\* However hosts, engines and deadlines interleave, and wherever a bearable
\* Ctrl-C or a kill -9 strikes, no engine runs without somebody to stop it.
THEOREM NobodyAbandoned ==
  ASSUME SafeInterrupts
  PROVE  Spec => []NoAbandonedEngine
BY Invariance, Consequences, PTL

\* A host that exits normally has left none of its engines running.
THEOREM ExitLeavesNothing ==
  ASSUME SafeInterrupts
  PROVE  Spec => []HostExitLeavesNothing
BY Invariance, Consequences, PTL

\* However stops are begun and failed starts cleaned up: an engine gets the whole
\* grace period after its SIGTERM, and SIGKILL only when that has run out.
THEOREM GraceFirst ==
  ASSUME SafeInterrupts
  PROVE  Spec => GraceBeforeKill
<1> DEFINE Grace ==
      \A e \in Engines :
        /\ eng'[e] = "draining" /\ eng[e] # "draining" => owner[e] \notin late'
        /\ eng'[e] = "dying" /\ eng[e] # "dying" => eng[e] = "draining" /\ owner[e] \in late
<1>1. ASSUME IInv, [Next]_vars PROVE Grace
  <2> USE <1>1 DEF IInv, TypeOK, HostOK, Steps, Starting, Stopping
  <2>1. ASSUME NEW h \in Hosts, Spawn(h) PROVE Grace
    BY <2>1 DEF Spawn
  <2>2. ASSUME NEW h \in Hosts, SigTerm(h) PROVE Grace
    BY <2>2 DEF SigTerm
  <2>3. ASSUME NEW h \in Hosts, SigKill(h) PROVE Grace
    BY <2>3 DEF SigKill
  <2>4. ASSUME NEW e \in Engines, Bind(e) PROVE Grace
    BY <2>4 DEF Bind
  <2>5. ASSUME NEW e \in Engines, Die(e) PROVE Grace
    BY <2>5 DEF Die
  <2>6. ASSUME NEW h \in Hosts,
               \/ Local(h) \/ Close(h) \/ Exit(h) \/ Deadline(h) \/ Interrupt(h) \/ KillHost(h)
               \/ Register(h) \/ Dial(h) \/ Poll(h) \/ Probe(h) \/ HangUp(h) \/ TerminateCheck(h)
               \/ Wait(h) \/ Reap(h) \/ CloseLog(h) \/ RunHandler(h)
        PROVE  UNCHANGED eng
    BY <2>6 DEF Local, Begin, Close, Exit, Deadline, Interrupt, KillHost, Register, Dial, Poll, Probe, HangUp,
         TerminateCheck, Wait, Reap, CloseLog, RunHandler, engineVars
  <2>7. CASE UNCHANGED vars
    BY <2>7 DEF vars, engineVars
  <2>8. QED
    BY <2>1, <2>2, <2>3, <2>4, <2>5, <2>6, <2>7 DEF Next, Run
<1>2. QED
  BY Invariance, <1>1, PTL DEF Spec, GraceBeforeKill
-----------------------------------------------------------------------------
(* When nothing interrupts a stop and the kernel ends a SIGKILLed child in     *)
(* time, close() that returns and local() that raises have released the        *)
(* engine.                                                                     *)

\* No Ctrl-C from Client.close's channel.close() to the end of _terminate, and no
\* TimeoutExpired from the second wait.
CalmStops == InterruptAt \cap (Stopping \cup {"hangup"}) = {} /\ ~KernelMayStall

Released == {"closed", "engine_crashed", "engine_unreachable"}
Finishing == {"t_term", "t_wait", "t_kill", "t_reap", "t_log"}
Done(e) == eng[e] = "dead" /\ e \notin log

\* What the thread of h knows of the object it works on, or worked on last.
ThreadOK(h) ==
  /\ pc[h] \in Starting => cur[h] \notin held
  /\ pc[h] \in Stopping /\ ret[h] = "idle" /\ result[h] \in Released => cur[h] \notin chan
  /\ pc[h] = "t_check" /\ ret[h] = "idle" => cur[h] \notin stopped \cup (held \ closed)
  /\ pc[h] = "t_log" => eng[cur[h]] = "dead"
  /\ pc[h] = "hangup" => ret[h] = "idle" /\ cur[h] \in closed \ stopped
  /\ pc[h] = "idle" /\ result[h] \in Released =>
       cur[h] \in Engines /\ owner[cur[h]] = h /\ Done(cur[h]) /\ cur[h] \notin chan

\* Which of its flags an object may have set, and who is still at work on it.
ObjectOK(e) ==
  /\ owner[e] = NoHost => e \notin held \cup closed \cup stopped
  /\ e \in closed => e \in held
  /\ e \in stopped =>
       \/ Done(e)
       \/ pc[owner[e]] = "killed"
       \/ cur[owner[e]] = e /\ pc[owner[e]] \in Finishing
  /\ e \in closed =>
       \/ e \in stopped \ chan
       \/ pc[owner[e]] = "killed"
       \/ cur[owner[e]] = e /\ pc[owner[e]] = "hangup"
       \/ cur[owner[e]] = e /\ pc[owner[e]] = "t_check" /\ e \notin chan
  /\ e \in stopped /\ e \in held \ closed =>
       \/ pc[owner[e]] \in {"atexit", "gone", "killed"}
       \/ ret[owner[e]] = "atexit" /\ pc[owner[e]] \in Stopping

RInv == (\A h \in Hosts : ThreadOK(h)) /\ (\A e \in Engines : ObjectOK(e))

\* Nothing is held, closed or stopped at first.
LEMMA ReleaseInit == Init => RInv
BY LocalAssumption DEF Init, RInv, ThreadOK, ObjectOK, Steps, Starting, Stopping, Released

\* Every step keeps ThreadOK: no other host touches the object of this one.
LEMMA ThreadStep ==
  ASSUME IInv, RInv, [Next]_vars, CalmStops, NEW x \in Hosts
  PROVE  ThreadOK(x)'
<1>0. TypeOK /\ (\A h \in Hosts : HostOK(h)) /\ ThreadOK(x) /\ (\A e \in Engines : ObjectOK(e) /\ EngineOK(e))
  BY DEF IInv, RInv
<1> USE LocalAssumption DEF TypeOK, HostOK, ThreadOK, CalmStops, Goto, Report, Done, Released, Finishing,
        Steps, Starting, Stopping, Own, Untouched, hostVars, flags, resources, engineVars
<1>1. ASSUME NEW h \in Hosts, Begin(h) PROVE ThreadOK(x)'
  BY <1>0, <1>1 DEF Begin, ObjectOK, EngineOK
<1>2. ASSUME NEW h \in Hosts, Spawn(h) PROVE ThreadOK(x)'
  BY <1>0, <1>2 DEF Spawn
<1>3. ASSUME NEW h \in Hosts, Register(h) PROVE ThreadOK(x)'
  BY <1>0, <1>3 DEF Register
<1>4. ASSUME NEW h \in Hosts, Dial(h) PROVE ThreadOK(x)'
  BY <1>0, <1>4 DEF Dial
<1>5. ASSUME NEW h \in Hosts, Poll(h) PROVE ThreadOK(x)'
  BY <1>0, <1>5 DEF Poll, TerminateAndRaise
<1>6. ASSUME NEW h \in Hosts, Probe(h) PROVE ThreadOK(x)'
  BY <1>0, <1>6 DEF Probe
<1>7. ASSUME NEW h \in Hosts, Deadline(h) PROVE ThreadOK(x)'
  BY <1>0, <1>7 DEF Deadline
<1>8. ASSUME NEW h \in Hosts, Close(h) PROVE ThreadOK(x)'
  BY <1>0, <1>8 DEF Close, ObjectOK, EngineOK
<1>9. ASSUME NEW h \in Hosts, HangUp(h) PROVE ThreadOK(x)'
  BY <1>0, <1>9 DEF HangUp
<1>10. ASSUME NEW h \in Hosts, TerminateCheck(h) PROVE ThreadOK(x)'
  BY <1>0, <1>10 DEF TerminateCheck, ObjectOK
<1>11. ASSUME NEW h \in Hosts, SigTerm(h) PROVE ThreadOK(x)'
  BY <1>0, <1>11 DEF SigTerm
<1>12. ASSUME NEW h \in Hosts, Wait(h) PROVE ThreadOK(x)'
  BY <1>0, <1>12 DEF Wait
<1>13. ASSUME NEW h \in Hosts, SigKill(h) PROVE ThreadOK(x)'
  BY <1>0, <1>13 DEF SigKill
<1>14. ASSUME NEW h \in Hosts, Reap(h) PROVE ThreadOK(x)'
  BY <1>0, <1>14 DEF Reap
<1>15. ASSUME NEW h \in Hosts, CloseLog(h) PROVE ThreadOK(x)'
  BY <1>0, <1>15 DEF CloseLog
<1>16. ASSUME NEW h \in Hosts, Exit(h) PROVE ThreadOK(x)'
  BY <1>0, <1>16 DEF Exit
<1>17. ASSUME NEW h \in Hosts, RunHandler(h) PROVE ThreadOK(x)'
  BY <1>0, <1>17 DEF RunHandler, ObjectOK
<1>18. ASSUME NEW h \in Hosts, Interrupt(h) PROVE ThreadOK(x)'
  BY <1>0, <1>18 DEF Interrupt, TerminateAndRaise
<1>19. ASSUME NEW h \in Hosts, KillHost(h) PROVE ThreadOK(x)'
  BY <1>0, <1>19 DEF KillHost
<1>20. ASSUME NEW e \in Engines, Bind(e) PROVE ThreadOK(x)'
  BY <1>0, <1>20 DEF Bind
<1>21. ASSUME NEW e \in Engines, Die(e) PROVE ThreadOK(x)'
  BY <1>0, <1>21 DEF Die, Alive
<1>22. CASE UNCHANGED vars
  BY <1>0, <1>22 DEF vars
<1>23. ASSUME NEW h \in Hosts, Local(h), ~Begin(h) PROVE ThreadOK(x)'
  BY <1>0, <1>23 DEF Local
<1>24. QED
  BY <1>1, <1>2, <1>3, <1>4, <1>5, <1>6, <1>7, <1>8, <1>9, <1>10, <1>11, <1>12, <1>13, <1>14, <1>15, <1>16, <1>17, <1>18, <1>19, <1>20, <1>21, <1>22, <1>23 DEF Next, Run

\* Every step keeps ObjectOK: a stop that has begun is carried to its end by the
\* thread that began it.
LEMMA ObjectStep ==
  ASSUME IInv, RInv, [Next]_vars, CalmStops, NEW x \in Engines
  PROVE  ObjectOK(x)'
<1>0. TypeOK /\ (\A h \in Hosts : HostOK(h) /\ ThreadOK(h)) /\ ObjectOK(x) /\ EngineOK(x)
  BY DEF IInv, RInv
<1> USE LocalAssumption DEF TypeOK, HostOK, ObjectOK, CalmStops, Goto, Report, Done, Released, Finishing,
        Steps, Starting, Stopping, Own, Untouched, hostVars, flags, resources, engineVars
<1>1. ASSUME NEW h \in Hosts, Begin(h) PROVE ObjectOK(x)'
  BY <1>0, <1>1 DEF Begin, EngineOK
<1>2. ASSUME NEW h \in Hosts, Spawn(h) PROVE ObjectOK(x)'
  BY <1>0, <1>2 DEF Spawn, ThreadOK
<1>3. ASSUME NEW h \in Hosts, Register(h) PROVE ObjectOK(x)'
  BY <1>0, <1>3 DEF Register
<1>4. ASSUME NEW h \in Hosts, Dial(h) PROVE ObjectOK(x)'
  BY <1>0, <1>4 DEF Dial
<1>5. ASSUME NEW h \in Hosts, Poll(h) PROVE ObjectOK(x)'
  BY <1>0, <1>5 DEF Poll, TerminateAndRaise, ThreadOK
<1>6. ASSUME NEW h \in Hosts, Probe(h) PROVE ObjectOK(x)'
  BY <1>0, <1>6 DEF Probe, ThreadOK
<1>7. ASSUME NEW h \in Hosts, Deadline(h) PROVE ObjectOK(x)'
  BY <1>0, <1>7 DEF Deadline
<1>8. ASSUME NEW h \in Hosts, Close(h) PROVE ObjectOK(x)'
  BY <1>0, <1>8 DEF Close
<1>9. ASSUME NEW h \in Hosts, HangUp(h) PROVE ObjectOK(x)'
  BY <1>0, <1>9 DEF HangUp, ThreadOK
<1>10. ASSUME NEW h \in Hosts, TerminateCheck(h) PROVE ObjectOK(x)'
  BY <1>0, <1>10 DEF TerminateCheck, ThreadOK
<1>11. ASSUME NEW h \in Hosts, SigTerm(h) PROVE ObjectOK(x)'
  BY <1>0, <1>11 DEF SigTerm
<1>12. ASSUME NEW h \in Hosts, Wait(h) PROVE ObjectOK(x)'
  BY <1>0, <1>12 DEF Wait, ThreadOK
<1>13. ASSUME NEW h \in Hosts, SigKill(h) PROVE ObjectOK(x)'
  BY <1>0, <1>13 DEF SigKill
<1>14. ASSUME NEW h \in Hosts, Reap(h) PROVE ObjectOK(x)'
  BY <1>0, <1>14 DEF Reap, ThreadOK
<1>15. ASSUME NEW h \in Hosts, CloseLog(h) PROVE ObjectOK(x)'
  BY <1>0, <1>15 DEF CloseLog, ThreadOK
<1>16. ASSUME NEW h \in Hosts, Exit(h) PROVE ObjectOK(x)'
  BY <1>0, <1>16 DEF Exit
<1>17. ASSUME NEW h \in Hosts, RunHandler(h) PROVE ObjectOK(x)'
  BY <1>0, <1>17 DEF RunHandler
<1>18. ASSUME NEW h \in Hosts, Interrupt(h) PROVE ObjectOK(x)'
  BY <1>0, <1>18 DEF Interrupt, TerminateAndRaise, ThreadOK
<1>19. ASSUME NEW h \in Hosts, KillHost(h) PROVE ObjectOK(x)'
  BY <1>0, <1>19 DEF KillHost
<1>20. ASSUME NEW e \in Engines, Bind(e) PROVE ObjectOK(x)'
  BY <1>0, <1>20 DEF Bind
<1>21. ASSUME NEW e \in Engines, Die(e) PROVE ObjectOK(x)'
  BY <1>0, <1>21 DEF Die, Alive
<1>22. CASE UNCHANGED vars
  BY <1>0, <1>22 DEF vars
<1>23. ASSUME NEW h \in Hosts, Local(h), ~Begin(h) PROVE ObjectOK(x)'
  BY <1>0, <1>23 DEF Local
<1>24. QED
  BY <1>1, <1>2, <1>3, <1>4, <1>5, <1>6, <1>7, <1>8, <1>9, <1>10, <1>11, <1>12, <1>13, <1>14, <1>15, <1>16, <1>17, <1>18, <1>19, <1>20, <1>21, <1>22, <1>23 DEF Next, Run

\* A close() that returned, and a local() that raised an error of its own, leave
\* a dead engine, a closed channel and a closed log file, in any number of hosts
\* and engines, if no Ctrl-C strikes in a stop and no SIGKILLed child outlives
\* the second wait.
THEOREM ReleasedIsReleased ==
  ASSUME SafeInterrupts, CalmStops
  PROVE  Spec => []ReleasedMeansReleased
<1>1. IInv /\ RInv /\ [Next]_vars => RInv'
  BY ThreadStep, ObjectStep DEF RInv
<1>2. RInv => ReleasedMeansReleased
  BY DEF RInv, ThreadOK, ReleasedMeansReleased, Released, Done
<1>3. QED
  BY Invariance, ReleaseInit, <1>1, <1>2, PTL DEF Spec

-----------------------------------------------------------------------------
(* With one host and no Ctrl-C between atexit.register and the try statement,  *)
(* the client of local() talks to the engine that local() spawned.             *)

OneHost == \A g, h \in Hosts : g = h

\* An engine that has yet to bind its ports is the one its host is starting, or
\* has not yet sent SIGTERM.
WaitsToBind(e) ==
  eng[e] = "running" /\ e \notin bound =>
    \/ pc[owner[e]] = "killed"
    \/ /\ cur[owner[e]] = e
       /\ pc[owner[e]] \in {"register", "dial", "poll", "probe", "t_check", "t_term"}

\* Nobody else is at the address of an engine that is being started.
PortOK(h) ==
  pc[h] \in Starting =>
    \A x \in bound : x # cur[h] => addr[x].grpc # addr[cur[h]].grpc

NInv == (\A e \in Engines : WaitsToBind(e)) /\ (\A h \in Hosts : PortOK(h))

\* No step but Spawn leaves behind an engine that has yet to bind.
LEMMA WaitsStep ==
  ASSUME IInv, NInv, [Next]_vars, SafeInterrupts, "dial" \notin InterruptAt, OneHost, NEW x \in Engines
  PROVE  WaitsToBind(x)'
<1>0. /\ TypeOK /\ (\A h \in Hosts : HostOK(h) /\ PortOK(h)) /\ EngineOK(x) /\ WaitsToBind(x)
      /\ \A g, h \in Hosts : g = h
  BY DEF IInv, NInv, OneHost
<1> USE LocalAssumption DEF TypeOK, HostOK, EngineOK, WaitsToBind, Goto, Report, Steps, Starting, Stopping,
        Own, Untouched, hostVars, flags, resources, engineVars
<1>1. ASSUME NEW h \in Hosts, Begin(h) PROVE WaitsToBind(x)'
  BY <1>0, <1>1 DEF Begin, EngineOK
<1>2. ASSUME NEW h \in Hosts, Spawn(h) PROVE WaitsToBind(x)'
  BY <1>0, <1>2 DEF Spawn
<1>3. ASSUME NEW h \in Hosts, Register(h) PROVE WaitsToBind(x)'
  BY <1>0, <1>3 DEF Register
<1>4. ASSUME NEW h \in Hosts, Dial(h) PROVE WaitsToBind(x)'
  BY <1>0, <1>4 DEF Dial
<1>5. ASSUME NEW h \in Hosts, Poll(h) PROVE WaitsToBind(x)'
  BY <1>0, <1>5 DEF Poll, TerminateAndRaise
<1>6. ASSUME NEW h \in Hosts, Probe(h) PROVE WaitsToBind(x)'
  <2>1. CASE x = cur[h] /\ Answers(cur[h])
    <3>1. pc[h] = "probe"
      BY <1>6 DEF Probe
    <3>2. x \in bound
      BY <1>0, <2>1, <3>1 DEF PortOK, Answers
    <3>3. QED
      BY <1>6, <3>2 DEF Probe
  <2>2. CASE x # cur[h] \/ pc' = [pc EXCEPT ![h] = "poll"]
    BY <1>0, <1>6, <2>2 DEF Probe
  <2>3. QED
    BY <1>6, <2>1, <2>2 DEF Probe
<1>7. ASSUME NEW h \in Hosts, Deadline(h) PROVE WaitsToBind(x)'
  BY <1>0, <1>7 DEF Deadline
<1>8. ASSUME NEW h \in Hosts, Close(h) PROVE WaitsToBind(x)'
  BY <1>0, <1>8 DEF Close
<1>9. ASSUME NEW h \in Hosts, HangUp(h) PROVE WaitsToBind(x)'
  BY <1>0, <1>9 DEF HangUp
<1>10. ASSUME NEW h \in Hosts, TerminateCheck(h) PROVE WaitsToBind(x)'
  BY <1>0, <1>10 DEF TerminateCheck
<1>11. ASSUME NEW h \in Hosts, SigTerm(h) PROVE WaitsToBind(x)'
  BY <1>0, <1>11 DEF SigTerm
<1>12. ASSUME NEW h \in Hosts, Wait(h) PROVE WaitsToBind(x)'
  BY <1>0, <1>12 DEF Wait
<1>13. ASSUME NEW h \in Hosts, SigKill(h) PROVE WaitsToBind(x)'
  BY <1>0, <1>13 DEF SigKill
<1>14. ASSUME NEW h \in Hosts, Reap(h) PROVE WaitsToBind(x)'
  BY <1>0, <1>14 DEF Reap
<1>15. ASSUME NEW h \in Hosts, CloseLog(h) PROVE WaitsToBind(x)'
  BY <1>0, <1>15 DEF CloseLog
<1>16. ASSUME NEW h \in Hosts, Exit(h) PROVE WaitsToBind(x)'
  BY <1>0, <1>16 DEF Exit
<1>17. ASSUME NEW h \in Hosts, RunHandler(h) PROVE WaitsToBind(x)'
  BY <1>0, <1>17 DEF RunHandler
<1>18. ASSUME NEW h \in Hosts, Interrupt(h) PROVE WaitsToBind(x)'
  BY <1>0, <1>18 DEF Interrupt, TerminateAndRaise, SafeInterrupts
<1>19. ASSUME NEW h \in Hosts, KillHost(h) PROVE WaitsToBind(x)'
  BY <1>0, <1>19 DEF KillHost
<1>20. ASSUME NEW e \in Engines, Bind(e) PROVE WaitsToBind(x)'
  BY <1>0, <1>20 DEF Bind
<1>21. ASSUME NEW e \in Engines, Die(e) PROVE WaitsToBind(x)'
  BY <1>0, <1>21 DEF Die, Alive
<1>22. CASE UNCHANGED vars
  BY <1>0, <1>22 DEF vars
<1>23. ASSUME NEW h \in Hosts, Local(h), ~Begin(h) PROVE WaitsToBind(x)'
  BY <1>0, <1>23 DEF Local
<1>24. QED
  BY <1>1, <1>2, <1>3, <1>4, <1>5, <1>6, <1>7, <1>8, <1>9, <1>10, <1>11, <1>12, <1>13, <1>14, <1>15, <1>16, <1>17, <1>18, <1>19, <1>20, <1>21, <1>22, <1>23 DEF Next, Run

\* A port is free when it is drawn, and until local() is over nobody else binds.
LEMMA PortStep ==
  ASSUME IInv, NInv, [Next]_vars, OneHost, NEW x \in Hosts
  PROVE  PortOK(x)'
<1>0. /\ TypeOK /\ HostOK(x) /\ PortOK(x) /\ (\A e \in Engines : EngineOK(e) /\ WaitsToBind(e))
      /\ \A g, h \in Hosts : g = h
  BY DEF IInv, NInv, OneHost
<1> USE DEF PortOK, Starting
<1>1. ASSUME NEW h \in Hosts, Begin(h) PROVE PortOK(x)'
  <2>1. PICK e \in Engines, g \in FreePorts, w \in FreePorts :
          /\ addr' = [addr EXCEPT ![e] = [grpc |-> g, http |-> w]]
          /\ cur' = [cur EXCEPT ![h] = e] /\ bound' = bound /\ h = x
    BY <1>0, <1>1 DEF Begin, engineVars
  <2>2. ASSUME NEW y \in bound, y # e PROVE addr'[y].grpc # addr'[e].grpc
    <3>1. addr[y].grpc \in Taken
      BY DEF Taken
    <3>2. g \notin Taken
      BY <2>1 DEF FreePorts
    <3>3. addr'[y] = addr[y] /\ addr'[e].grpc = g
      BY <1>0, <2>1, <2>2 DEF TypeOK
    <3>4. QED
      BY <3>1, <3>2, <3>3
  <2>3. cur'[x] = e
    BY <1>0, <2>1 DEF TypeOK
  <2>4. QED
    BY <2>1, <2>2, <2>3
<1>2. ASSUME NEW e \in Engines, Bind(e) PROVE PortOK(x)'
  <2>1. UNCHANGED <<pc, cur, addr>>
    BY <1>2 DEF Bind, hostVars, flags
  <2>2. CASE bound' = bound
    BY <1>0, <2>1, <2>2
  <2>3. CASE bound' = bound \cup {e} /\ pc[x] \in Starting
    <3>1. eng[e] = "running" /\ e \notin bound
      BY <1>2 DEF Bind
    <3>2. owner[e] \in Hosts
      BY <1>0, <3>1 DEF TypeOK, EngineOK
    <3>3. cur[x] = e
      BY <1>0, <2>3, <3>1, <3>2 DEF WaitsToBind
    <3>4. QED
      BY <1>0, <2>1, <2>3, <3>3
  <2>4. QED
    BY <1>2, <2>1, <2>2, <2>3 DEF Bind
<1>3. ASSUME NEW e \in Engines, Die(e) PROVE PortOK(x)'
  BY <1>0, <1>3 DEF Die, hostVars, flags
<1>4. ASSUME bound' = bound, addr' = addr, pc'[x] \in Starting => pc[x] \in Starting /\ cur'[x] = cur[x]
      PROVE  PortOK(x)'
  BY <1>0, <1>4
<1>5. ASSUME NEW h \in Hosts,
             \/ (Local(h) /\ ~Begin(h)) \/ Close(h) \/ Exit(h) \/ Run(h) \/ Deadline(h) \/ Interrupt(h) \/ KillHost(h)
      PROVE  PortOK(x)'
  <2>1. bound' = bound /\ addr' = addr
    BY <1>5 DEF Local, Close, Exit, Run, Deadline, Interrupt, KillHost, Spawn, Register, Dial, Poll, Probe,
         HangUp, TerminateCheck, SigTerm, Wait, SigKill, Reap, CloseLog, RunHandler, flags, engineVars
  <2>2. h = x /\ ret[h] \in {"idle", "atexit"} /\ pc \in [Hosts -> Steps \cup {"idle", "atexit", "gone", "killed"}]
    BY <1>0 DEF TypeOK
  <2>3. pc'[x] \in Starting => pc[x] \in Starting /\ cur'[x] = cur[x]
    <3> USE <2>2 DEF Goto, Stopping
    <3>1. CASE Local(h) /\ ~Begin(h)
      BY <3>1 DEF Local
    <3>2. CASE Close(h) \/ Exit(h) \/ KillHost(h) \/ RunHandler(h)
      BY <3>2 DEF Close, Exit, KillHost, RunHandler
    <3>3. CASE Spawn(h) \/ Register(h) \/ Dial(h) \/ Poll(h) \/ Probe(h) \/ HangUp(h) \/ Deadline(h)
      BY <3>3 DEF Spawn, Register, Dial, Poll, Probe, HangUp, Deadline, TerminateAndRaise
    <3>4. CASE TerminateCheck(h) \/ SigTerm(h) \/ Wait(h) \/ SigKill(h) \/ Reap(h) \/ CloseLog(h)
      BY <3>4 DEF TerminateCheck, SigTerm, Wait, SigKill, Reap, CloseLog
    <3>5. CASE Interrupt(h)
      BY <3>5 DEF Interrupt, TerminateAndRaise
    <3>6. QED
      BY <1>5, <3>1, <3>2, <3>3, <3>4, <3>5 DEF Run
  <2>4. QED
    BY <1>4, <2>1, <2>3
<1>6. CASE UNCHANGED vars
  BY <1>4, <1>6 DEF vars, hostVars, flags, engineVars
<1>7. QED
  BY <1>1, <1>2, <1>3, <1>5, <1>6 DEF Next

\* One process whose local() is not cut off between atexit.register and the try
\* statement: whoever answered GetInfo at the address, it was the engine that
\* local() spawned.  Two processes can be mixed up, as local_port_race shows.
THEOREM ReadyIsOwn ==
  ASSUME SafeInterrupts, "dial" \notin InterruptAt, OneHost
  PROVE  Spec => ReadyIsOwnEngine
<1> DEFINE Ready ==
      \A h \in Hosts : pc[h] = "probe" /\ held' # held /\ pc'[h] = "idle" => cur[h] \in bound
<1>1. Init => NInv
  BY DEF Init, NInv, WaitsToBind, PortOK, Starting
<1>2. IInv /\ NInv /\ [Next]_vars => NInv'
  BY WaitsStep, PortStep DEF NInv
<1>3. ASSUME NInv, [Next]_vars PROVE [Ready]_vars
  <2>1. ASSUME NEW h \in Hosts, pc[h] = "probe", Answers(cur[h]) PROVE cur[h] \in bound
    BY <1>3, <2>1 DEF NInv, PortOK, Starting, Answers
  <2>2. ASSUME NEW h \in Hosts, Probe(h), NEW g \in Hosts, held' # held PROVE cur[g] \in bound
    BY <2>1, <2>2 DEF Probe, OneHost
  <2>3. ASSUME NEW h \in Hosts,
               \/ Local(h) \/ Close(h) \/ Exit(h) \/ Deadline(h) \/ Interrupt(h) \/ KillHost(h)
               \/ Spawn(h) \/ Register(h) \/ Dial(h) \/ Poll(h) \/ HangUp(h) \/ TerminateCheck(h)
               \/ SigTerm(h) \/ Wait(h) \/ SigKill(h) \/ Reap(h) \/ CloseLog(h) \/ RunHandler(h)
        PROVE  UNCHANGED held
    BY <2>3 DEF Local, Begin, Close, Exit, Deadline, Interrupt, KillHost, Spawn, Register, Dial, Poll, HangUp,
         TerminateCheck, SigTerm, Wait, SigKill, Reap, CloseLog, RunHandler, flags
  <2>4. ASSUME NEW e \in Engines, Bind(e) \/ Die(e) PROVE UNCHANGED held
    BY <2>4 DEF Bind, Die, flags
  <2>5. QED
    BY <1>3, <2>2, <2>3, <2>4 DEF Next, Run
<1>4. QED
  BY Invariance, <1>1, <1>2, <1>3, PTL DEF Spec, ReadyIsOwnEngine
=============================================================================
