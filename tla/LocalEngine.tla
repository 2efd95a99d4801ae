---------------------------- MODULE LocalEngine ----------------------------
(***************************************************************************)
(* conduit.local() (src/src/conduit/_local.py): host processes that spawn, *)
(* wait for and stop `conduit` engines.  An element of Engines is one      *)
(* LocalConduit object and the child process it supervises.  A host runs   *)
(* one thread; at "idle" it is in the caller's code and may open another   *)
(* engine, close one it holds, or exit (which runs the atexit handlers).   *)
(* The engine is external: it binds its ports some time after it was       *)
(* spawned, may exit at any moment and may ignore SIGTERM.                 *)
(***************************************************************************)
EXTENDS Naturals, FiniteSets

CONSTANTS
  Hosts, Engines,
  NoEngine, NoHost, NoAddr,
  Ports,        \* loopback ports the operating system hands out
  InterruptAt,  \* the steps at which KeyboardInterrupt may be raised
  HostsMayDie,  \* whether a host may be killed with kill -9
  KernelMayStall  \* whether a SIGKILLed child may take longer than the wait

Starting == {"spawn", "register", "dial", "poll", "probe"}
Stopping == {"t_check", "t_term", "t_wait", "t_kill", "t_reap", "t_log"}
Steps == Starting \cup Stopping \cup {"hangup"}

ASSUME LocalAssumption ==
  /\ NoEngine \notin Engines /\ NoHost \notin Hosts
  /\ InterruptAt \subseteq Steps
  /\ HostsMayDie \in BOOLEAN /\ KernelMayStall \in BOOLEAN

VARIABLES
  pc, cur,     \* the step host h is at; the object it works on
  result,      \* how the last local() or close() of h ended
  ret,         \* where _terminate returns to: "idle" or "atexit"
  late,        \* hosts whose timeout has run out: local()'s, or a wait()'s
  owner,       \* owner[e]: the host that made e, or NoHost
  held,        \* objects that local() returned to the caller
  handlers,    \* objects with an atexit handler still to run
  stopped,     \* objects with _stopped set
  closed,      \* objects whose Client._closed is set
  chan, log,   \* objects whose gRPC channel, whose log file is open
  addr,        \* addr[e]: the gRPC and the HTTP port of e
  eng,         \* eng[e]: the child process
  bound        \* engines that have bound their ports and answer GetInfo

hostVars == <<pc, cur, result, ret, late>>
flags == <<owner, held, handlers, stopped, closed, addr>>
resources == <<chan, log>>
engineVars == <<eng, bound>>
vars == <<hostVars, flags, resources, engineVars>>

Results == {"none", "client", "closed", "engine_crashed", "engine_unreachable",
            "OSError", "unprovisioned", "interrupt", "TimeoutExpired"}
Addr == [grpc : Ports, http : Ports]
Life == {"none", "running", "draining", "dying", "dead"}

TypeOK ==
  /\ pc \in [Hosts -> Steps \cup {"idle", "atexit", "gone", "killed"}]
  /\ cur \in [Hosts -> Engines \cup {NoEngine}]
  /\ result \in [Hosts -> Results]
  /\ ret \in [Hosts -> {"idle", "atexit"}]
  /\ late \subseteq Hosts
  /\ owner \in [Engines -> Hosts \cup {NoHost}]
  /\ held \subseteq Engines /\ handlers \subseteq Engines
  /\ stopped \subseteq Engines /\ closed \subseteq Engines
  /\ chan \subseteq Engines /\ log \subseteq Engines
  /\ addr \in [Engines -> Addr \cup {NoAddr}]
  /\ eng \in [Engines -> Life]
  /\ bound \subseteq Engines

Init ==
  /\ pc = [h \in Hosts |-> "idle"]
  /\ cur = [h \in Hosts |-> NoEngine]
  /\ result = [h \in Hosts |-> "none"]
  /\ ret = [h \in Hosts |-> "idle"]
  /\ late = {} /\ held = {} /\ handlers = {} /\ stopped = {} /\ closed = {}
  /\ chan = {} /\ log = {} /\ bound = {}
  /\ owner = [e \in Engines |-> NoHost]
  /\ addr = [e \in Engines |-> NoAddr]
  /\ eng = [e \in Engines |-> "none"]

-----------------------------------------------------------------------------
Alive(e) == eng[e] \in {"running", "draining", "dying"}
Untouched(e) == eng[e] \in {"running", "draining"}   \* not sent SIGKILL
Own(h) == {e \in Engines : owner[e] = h}

Goto(h, step) == pc' = [pc EXCEPT ![h] = step]
Report(h, r) == result' = [result EXCEPT ![h] = r]

Taken == UNION {{addr[e].grpc, addr[e].http} : e \in bound}

\* Mutant: a fixed port, as in the engine's own defaults.
FixedPorts == Ports

\* Mutant: the port asked for, not the one the system assigned.
PortZero == {0}

\* _free_port: ports nobody has bound now.  Both are released at once, so
\* nothing keeps another engine, or the second call, from the same port.
FreePorts == Ports \ Taken

\* LocalConduit.__init__ up to the open log file: the binary was given or is
\* provisioned.
Begin(h) ==
  /\ pc[h] = "idle"
  /\ \E e \in Engines, g, w \in FreePorts :
       /\ owner[e] = NoHost
       /\ owner' = [owner EXCEPT ![e] = h]
       /\ addr' = [addr EXCEPT ![e] = [grpc |-> g, http |-> w]]
       /\ cur' = [cur EXCEPT ![h] = e]
       /\ log' = log \cup {e}
  /\ Goto(h, "spawn")
  /\ Report(h, "none")
  /\ late' = late \ {h}
  /\ UNCHANGED <<ret, held, handlers, stopped, closed, chan, engineVars>>

\* local(): the state directory or the log file cannot be made, or
\* ensure_binary raises, before there is anything to clean up; or the
\* constructor goes on.
Local(h) ==
  \/ Begin(h)
  \/ /\ pc[h] = "idle"
     /\ \E r \in {"OSError", "unprovisioned"} : Report(h, r)
     /\ UNCHANGED <<pc, cur, ret, late, flags, resources, engineVars>>

\* subprocess.Popen: the child runs, or the binary cannot be executed.
Spawn(h) ==
  /\ pc[h] = "spawn"
  /\ \/ /\ eng' = [eng EXCEPT ![cur[h]] = "running"]
        /\ Goto(h, "register")
        /\ UNCHANGED result
     \/ Goto(h, "idle") /\ Report(h, "OSError") /\ UNCHANGED eng
  /\ UNCHANGED <<cur, ret, late, flags, resources, bound>>

\* Mutant: no atexit handler.
RegisterNothing(h) ==
  /\ pc[h] = "register"
  /\ Goto(h, "dial")
  /\ UNCHANGED <<cur, result, ret, late, flags, resources, engineVars>>

\* self._stopped = False; atexit.register(self._atexit_kill)
Register(h) ==
  /\ pc[h] = "register"
  /\ handlers' = handlers \cup {cur[h]}
  /\ Goto(h, "dial")
  /\ UNCHANGED <<cur, result, ret, late, owner, held, stopped, closed, addr, resources, engineVars>>

\* The head of _wait_ready: channel, Client(on_close=_terminate), deadline.
Dial(h) ==
  /\ pc[h] = "dial"
  /\ chan' = chan \cup {cur[h]}
  /\ Goto(h, "poll")
  /\ UNCHANGED <<cur, result, ret, late, flags, log, engineVars>>

\* An exception leaves _wait_ready: `except BaseException: self._terminate()`.
TerminateAndRaise(h, r) ==
  /\ Goto(h, "t_check")
  /\ Report(h, r)
  /\ ret' = [ret EXCEPT ![h] = "idle"]

\* Mutant: `while True`, the deadline is computed and never read.
PollForever(h) ==
  /\ pc[h] = "poll"
  /\ \/ eng[cur[h]] = "dead" /\ chan' = chan \ {cur[h]} /\ TerminateAndRaise(h, "engine_crashed")
     \/ eng[cur[h]] # "dead" /\ Goto(h, "probe") /\ UNCHANGED <<chan, result, ret>>
  /\ UNCHANGED <<cur, late, flags, log, engineVars>>

\* One turn of the readiness loop up to the GetInfo call.
Poll(h) ==
  /\ pc[h] = "poll"
  /\ \/ /\ h \in late
        /\ chan' = chan \ {cur[h]}
        /\ TerminateAndRaise(h, "engine_unreachable")
     \/ /\ h \notin late
        /\ eng[cur[h]] = "dead"
        /\ chan' = chan \ {cur[h]}
        /\ TerminateAndRaise(h, "engine_crashed")
     \/ /\ h \notin late
        /\ eng[cur[h]] # "dead"
        /\ Goto(h, "probe")
        /\ UNCHANGED <<chan, result, ret>>
  /\ UNCHANGED <<cur, late, flags, log, engineVars>>

\* Somebody answers GetInfo at the address of e.
Answers(e) == \E x \in bound : eng[x] = "running" /\ addr[x].grpc = addr[e].grpc

\* get_info(timeout=1.0): an answer makes local() return; an error (no
\* listener yet, or a slow one) is followed by a sleep and the next turn.
Probe(h) ==
  /\ pc[h] = "probe"
  /\ \/ /\ Answers(cur[h])
        /\ held' = held \cup {cur[h]}
        /\ Goto(h, "idle")
        /\ Report(h, "client")
     \/ Goto(h, "poll") /\ UNCHANGED <<held, result>>
  /\ UNCHANGED <<cur, ret, late, owner, handlers, stopped, closed, addr, resources, engineVars>>

\* startup_timeout or the timeout of a wait() runs out; that of the second wait
\* only if the kernel is slow.
Deadline(h) ==
  /\ pc[h] \in {"poll", "probe", "t_wait"} \cup (IF KernelMayStall THEN {"t_reap"} ELSE {})
  /\ h \notin late
  /\ late' = late \cup {h}
  /\ UNCHANGED <<pc, cur, result, ret, flags, resources, engineVars>>

-----------------------------------------------------------------------------
\* LocalConduit.close -> Client.close: the flag first, then the channel, then
\* _terminate through on_close.  A second close returns at once.
Close(h) ==
  /\ pc[h] = "idle"
  /\ \E e \in held \cap Own(h) :
       /\ cur' = [cur EXCEPT ![h] = e]
       /\ Report(h, "closed")
       /\ \/ e \in closed /\ UNCHANGED <<pc, closed, ret>>
          \/ /\ e \notin closed
             /\ closed' = closed \cup {e}
             /\ Goto(h, "hangup")
             /\ ret' = [ret EXCEPT ![h] = "idle"]
  /\ UNCHANGED <<late, owner, held, handlers, stopped, addr, resources, engineVars>>

\* Mutant: on_close runs and the channel is forgotten.
HangUpLater(h) ==
  /\ pc[h] = "hangup"
  /\ Goto(h, "t_check")
  /\ UNCHANGED <<cur, result, ret, late, flags, resources, engineVars>>

HangUp(h) ==
  /\ pc[h] = "hangup"
  /\ chan' = chan \ {cur[h]}
  /\ Goto(h, "t_check")
  /\ UNCHANGED <<cur, result, ret, late, flags, log, engineVars>>

\* _terminate: the guard, the flag, and the first poll().
TerminateCheck(h) ==
  /\ pc[h] = "t_check"
  /\ \/ /\ cur[h] \in stopped
        /\ Goto(h, ret[h])
        /\ UNCHANGED stopped
     \/ /\ cur[h] \notin stopped
        /\ stopped' = stopped \cup {cur[h]}
        /\ Goto(h, IF eng[cur[h]] = "dead" THEN "t_log" ELSE "t_term")
  /\ UNCHANGED <<cur, result, ret, late, owner, held, handlers, closed, addr, resources, engineVars>>

\* Mutant: wait() gets what is left of the startup timeout.
SigTermSameClock(h) ==
  /\ pc[h] = "t_term"
  /\ eng' = [eng EXCEPT ![cur[h]] = IF @ = "dead" THEN @ ELSE "draining"]
  /\ Goto(h, "t_wait")
  /\ UNCHANGED <<cur, result, ret, late, flags, resources, bound>>

\* terminate(), and the clock of wait(timeout=10) starts.
SigTerm(h) ==
  /\ pc[h] = "t_term"
  /\ eng' = [eng EXCEPT ![cur[h]] = IF @ = "dead" THEN @ ELSE "draining"]
  /\ Goto(h, "t_wait")
  /\ late' = late \ {h}
  /\ UNCHANGED <<cur, result, ret, flags, resources, bound>>

\* Mutant: wait() without a timeout.
WaitForever(h) ==
  /\ pc[h] = "t_wait"
  /\ eng[cur[h]] = "dead"
  /\ Goto(h, "t_log")
  /\ UNCHANGED <<cur, result, ret, late, flags, resources, engineVars>>

\* wait(timeout=10): the engine drained, or the grace period is over.
Wait(h) ==
  /\ pc[h] = "t_wait"
  /\ \/ eng[cur[h]] = "dead" /\ Goto(h, "t_log")
     \/ eng[cur[h]] # "dead" /\ h \in late /\ Goto(h, "t_kill")
  /\ UNCHANGED <<cur, result, ret, late, flags, resources, engineVars>>

\* kill(), and the clock of the second wait starts.
SigKill(h) ==
  /\ pc[h] = "t_kill"
  /\ eng' = [eng EXCEPT ![cur[h]] = IF @ = "dead" THEN @ ELSE "dying"]
  /\ Goto(h, "t_reap")
  /\ late' = late \ {h}
  /\ UNCHANGED <<cur, result, ret, flags, resources, bound>>

\* The second wait(timeout=10), whose TimeoutExpired nobody catches: it leaves
\* _terminate before the log file is closed.
Reap(h) ==
  /\ pc[h] = "t_reap"
  /\ \/ eng[cur[h]] = "dead" /\ Goto(h, "t_log") /\ UNCHANGED result
     \/ eng[cur[h]] # "dead" /\ h \in late /\ Goto(h, ret[h]) /\ Report(h, "TimeoutExpired")
  /\ UNCHANGED <<cur, ret, late, flags, resources, engineVars>>

CloseLog(h) ==
  /\ pc[h] = "t_log"
  /\ log' = log \ {cur[h]}
  /\ Goto(h, ret[h])
  /\ UNCHANGED <<cur, result, ret, late, flags, chan, engineVars>>

-----------------------------------------------------------------------------
\* The host process exits normally; atexit runs the handlers one by one.
Exit(h) ==
  /\ pc[h] = "idle"
  /\ Goto(h, "atexit")
  /\ Report(h, "none")
  /\ UNCHANGED <<cur, ret, late, flags, resources, engineVars>>

\* Mutant: the handlers are unregistered before they run.
RunNoHandler(h) ==
  /\ pc[h] = "atexit"
  /\ Goto(h, "gone")
  /\ UNCHANGED <<cur, result, ret, late, flags, resources, engineVars>>

\* _atexit_kill of one object.
RunHandler(h) ==
  /\ pc[h] = "atexit"
  /\ \/ \E e \in handlers \cap Own(h) :
          /\ handlers' = handlers \ {e}
          /\ cur' = [cur EXCEPT ![h] = e]
          /\ ret' = [ret EXCEPT ![h] = "atexit"]
          /\ Goto(h, "t_check")
     \/ /\ handlers \cap Own(h) = {}
        /\ Goto(h, "gone")
        /\ UNCHANGED <<handlers, cur, ret>>
  /\ UNCHANGED <<result, late, owner, held, stopped, closed, addr, resources, engineVars>>

\* Ctrl-C.  Inside _wait_ready it is caught, the engine terminated, and raised
\* again; anywhere else it leaves local(), close() or the handler at once.  The
\* step "dial" begins outside the try statement and ends inside it.
Interrupt(h) ==
  /\ pc[h] \in InterruptAt
  /\ \/ pc[h] \in {"dial", "poll", "probe"} /\ TerminateAndRaise(h, "interrupt")
     \/ /\ pc[h] \notin {"poll", "probe"}
        /\ Goto(h, IF pc[h] \in Stopping THEN ret[h] ELSE "idle")
        /\ Report(h, "interrupt")
        /\ UNCHANGED ret
  /\ UNCHANGED <<cur, late, flags, resources, engineVars>>

\* kill -9 of the host: no handler runs, the engine lives on.
KillHost(h) ==
  /\ HostsMayDie
  /\ pc[h] \notin {"gone", "killed"}
  /\ Goto(h, "killed")
  /\ UNCHANGED <<cur, result, ret, late, flags, resources, engineVars>>

\* The engine binds both its ports, or exits because one of them is taken.
Bind(e) ==
  /\ eng[e] = "running" /\ e \notin bound
  /\ IF addr[e].grpc # addr[e].http /\ {addr[e].grpc, addr[e].http} \cap Taken = {}
     THEN bound' = bound \cup {e} /\ UNCHANGED eng
     ELSE eng' = [eng EXCEPT ![e] = "dead"] /\ UNCHANGED bound
  /\ UNCHANGED <<hostVars, flags, resources>>

\* The engine process ends: a crash, the end of its drain, or the SIGKILL.
Die(e) ==
  /\ Alive(e)
  /\ eng' = [eng EXCEPT ![e] = "dead"]
  /\ bound' = bound \ {e}
  /\ UNCHANGED <<hostVars, flags, resources>>

\* What a host does without being asked: everything but Local, Close and Exit.
Run(h) ==
  \/ Spawn(h) \/ Register(h) \/ Dial(h) \/ Poll(h) \/ Probe(h) \/ HangUp(h)
  \/ TerminateCheck(h) \/ SigTerm(h) \/ Wait(h) \/ SigKill(h) \/ Reap(h)
  \/ CloseLog(h) \/ RunHandler(h)

Next ==
  \/ \E h \in Hosts : Local(h) \/ Close(h) \/ Exit(h) \/ Run(h) \/ Deadline(h)
                      \/ Interrupt(h) \/ KillHost(h)
  \/ \E e \in Engines : Bind(e) \/ Die(e)

\* Hosts run, deadlines pass, and the kernel ends a SIGKILLed child.  Nothing
\* makes an engine bind its ports, answer, or obey SIGTERM.
Spec ==
  /\ Init /\ [][Next]_vars
  /\ \A h \in Hosts : WF_vars(Run(h)) /\ WF_vars(Deadline(h))
  /\ \A e \in Engines : WF_vars(eng[e] = "dying" /\ Die(e))

-----------------------------------------------------------------------------
\* Every engine not yet sent SIGKILL has somebody who will still stop it: the host thread that
\* is starting or stopping it, or an atexit handler that has not run and whose
\* _terminate is not yet a no-op.  Only kill -9 of the host takes that away.
NoAbandonedEngine ==
  \A e \in Engines : Untouched(e) => \E h \in Hosts :
    /\ owner[e] = h
    /\ \/ pc[h] = "killed"
       \/ cur[h] = e /\ pc[h] \in Starting \cup Stopping
       \/ e \in handlers \ stopped

\* A normal host exit leaves none of its engines running: each is dead or has
\* been sent SIGKILL.
HostExitLeavesNothing ==
  \A h \in Hosts : pc[h] = "gone" => \A e \in Own(h) : ~Untouched(e)

\* When close() returned, or local() raised one of its own errors, the engine
\* is dead and its channel and log file are closed.
ReleasedMeansReleased ==
  \A h \in Hosts :
    pc[h] = "idle" /\ result[h] \in {"closed", "engine_crashed", "engine_unreachable"} =>
      eng[cur[h]] = "dead" /\ cur[h] \notin chan \cup log

\* An engine that is asked to drain gets a grace period of its own, whatever the
\* host has waited before; and SIGKILL only ever hits an engine that was asked to
\* drain and did not do so until the period was over.
GraceBeforeKill ==
  [][\A e \in Engines :
       /\ eng'[e] = "draining" /\ eng[e] # "draining" => owner[e] \notin late'
       /\ eng'[e] = "dying" /\ eng[e] # "dying" => eng[e] = "draining" /\ owner[e] \in late]_vars

\* The client that local() returns talks to the engine local() spawned.
ReadyIsOwnEngine ==
  [][\A h \in Hosts : pc[h] = "probe" /\ held' # held /\ pc'[h] = "idle" => cur[h] \in bound]_vars

\* local() returns or raises even if the engine never answers.
StartupEnds == \A h \in Hosts : pc[h] = "dial" ~> pc[h] \in {"idle", "killed"}

\* A stop that has begun ends with a dead engine, even one that never drains.
StopCompletes ==
  \A h \in Hosts, e \in Engines :
    (pc[h] = "t_term" /\ cur[h] = e) ~> (eng[e] = "dead" \/ pc[h] = "killed")
=============================================================================
