----------------------------- MODULE RunHandle -----------------------------
(***************************************************************************)
(* Run.wait_running (src/src/conduit/run.py): callers that poll the status *)
(* of one pipeline while the engine and other actors change it, and while  *)
(* answers are delayed and connections lost.  An element of Waiters is one *)
(* call of wait_running.                                                   *)
(*                                                                         *)
(* now counts ticks of time.monotonic.  No tick passes a moment at which a *)
(* caller is due (its sleep is over, its RPC's timeout has come), so what  *)
(* is said of how long a call takes is for a host that is never late.      *)
(***************************************************************************)
EXTENDS Naturals

CONSTANTS
  Waiters,
  Timeout,       \* Timeout[w]: the timeout= of call w
  PollInterval,  \* poll_interval=
  RpcTimeout,    \* the default timeout= of status(), which wait_running keeps
  Statuses,      \* the statuses the engine gives a pipeline
  LatestStart    \* bound: no call begins after this moment

\* What GetPipeline says of a pipeline: "unnamed" is a status of a later engine
\* that this client's enum has no name for, "gone" an answer of NOT_FOUND.
ASSUME HandleAssumption ==
  /\ Timeout \in [Waiters -> Nat]
  /\ PollInterval \in Nat \ {0}
  /\ RpcTimeout \in Nat \ {0}
  /\ "none" \notin Statuses
  /\ LatestStart \in Nat

VARIABLES
  now,
  pipeline,       \* the pipeline's status at the engine
  pc,             \* the step call w is at
  deadline, due,  \* when w gives up; when its RPC times out or its sleep ends
  reply,          \* the answer on its way to w, or "none"
  last,           \* what w observed last, or "none"
  result,         \* how w ended
  seen            \* history: the statuses the pipeline had since w began

vars == <<now, pipeline, pc, deadline, due, reply, last, result, seen>>
local == <<deadline, due, last, result>>

Results == {"none", "running", "client.pipeline_degraded", "client.wait_timeout",
            "common.not_found", "transport", "ValueError"}
Active(w) == pc[w] \in {"check", "call", "sleep"}

TypeOK ==
  /\ now \in Nat
  /\ pipeline \in Statuses
  /\ pc \in [Waiters -> {"idle", "check", "call", "sleep", "ended"}]
  /\ deadline \in [Waiters -> Nat] /\ due \in [Waiters -> Nat]
  /\ reply \in [Waiters -> Statuses \cup {"none"}]
  /\ last \in [Waiters -> Statuses \cup {"none"}]
  /\ result \in [Waiters -> Results]
  /\ seen \in [Waiters -> SUBSET Statuses]

Init ==
  /\ now = 0
  /\ pipeline \in Statuses
  /\ pc = [w \in Waiters |-> "idle"]
  /\ deadline = [w \in Waiters |-> 0]
  /\ due = [w \in Waiters |-> 0]
  /\ reply = [w \in Waiters |-> "none"]
  /\ last = [w \in Waiters |-> "none"]
  /\ result = [w \in Waiters |-> "none"]
  /\ seen = [w \in Waiters |-> {}]

-----------------------------------------------------------------------------
Goto(w, step) == pc' = [pc EXCEPT ![w] = step]
End(w, r) == Goto(w, "ended") /\ result' = [result EXCEPT ![w] = r]

\* Mutant: the loop sleeps before it looks.
BeginAsleep(w) ==
  /\ pc[w] = "idle" /\ now <= LatestStart
  /\ deadline' = [deadline EXCEPT ![w] = now + Timeout[w]]
  /\ due' = [due EXCEPT ![w] = now + PollInterval]
  /\ seen' = [seen EXCEPT ![w] = {pipeline}]
  /\ Goto(w, "sleep")
  /\ UNCHANGED <<now, pipeline, reply, last, result>>

\* wait_running is called.
Begin(w) ==
  /\ pc[w] = "idle" /\ now <= LatestStart
  /\ deadline' = [deadline EXCEPT ![w] = now + Timeout[w]]
  /\ seen' = [seen EXCEPT ![w] = {pipeline}]
  /\ Goto(w, "check")
  /\ UNCHANGED <<now, pipeline, due, reply, last, result>>

\* Mutant: the handle remembers what any earlier call observed.
CheckRemembered(w) ==
  /\ pc[w] = "check"
  /\ IF \E x \in Waiters : last[x] = "running" THEN End(w, "running")
     ELSE Goto(w, "call") /\ UNCHANGED result
  /\ due' = [due EXCEPT ![w] = now + RpcTimeout]
  /\ UNCHANGED <<now, pipeline, deadline, reply, last, seen>>

\* The loop's condition; a fresh GetPipeline, or the end of the wait.
Check(w) ==
  /\ pc[w] = "check"
  /\ \/ /\ now < deadline[w]
        /\ Goto(w, "call")
        /\ due' = [due EXCEPT ![w] = now + RpcTimeout]
        /\ UNCHANGED result
     \/ /\ now >= deadline[w]
        /\ End(w, "client.wait_timeout")
        /\ UNCHANGED due
  /\ UNCHANGED <<now, pipeline, deadline, reply, last, seen>>

\* The engine answers with the status of this moment.
Answer(w) ==
  /\ pc[w] = "call" /\ reply[w] = "none"
  /\ reply' = [reply EXCEPT ![w] = pipeline]
  /\ UNCHANGED <<now, pipeline, pc, local, seen>>

\* Mutant: any status but "recovering" ends the wait, and is its result.
ConcludeRaw(w, status) ==
  IF status = "recovering"
  THEN Goto(w, "sleep") /\ due' = [due EXCEPT ![w] = now + PollInterval] /\ UNCHANGED result
  ELSE End(w, status) /\ UNCHANGED due

\* The shorthands of RunStatus.
IsRunning(status) == status = "running"
IsDegraded(status) == status = "degraded"

\* What the loop does with one status; "stopped", "recovering" and
\* "unspecified" are waited out.
Conclude(w, status) ==
  CASE IsRunning(status) -> End(w, "running") /\ UNCHANGED due
    [] IsDegraded(status) -> End(w, "client.pipeline_degraded") /\ UNCHANGED due
    [] status = "gone" -> End(w, "common.not_found") /\ UNCHANGED due
    [] status = "unnamed" -> End(w, "ValueError") /\ UNCHANGED due
    [] OTHER -> Goto(w, "sleep") /\ due' = [due EXCEPT ![w] = now + PollInterval] /\ UNCHANGED result

\* The answer arrives.
Receive(w) ==
  /\ pc[w] = "call" /\ reply[w] # "none"
  /\ Conclude(w, reply[w])
  /\ last' = [last EXCEPT ![w] = reply[w]]
  /\ reply' = [reply EXCEPT ![w] = "none"]
  /\ UNCHANGED <<now, pipeline, deadline, seen>>

\* Mutant: a lost connection is tried again inside status().
FailAndRetry(w) ==
  /\ pc[w] = "call"
  /\ reply' = [reply EXCEPT ![w] = "none"]
  /\ due' = [due EXCEPT ![w] = now + RpcTimeout]
  /\ UNCHANGED <<now, pipeline, pc, deadline, last, result, seen>>

\* Mutant: no timeout is passed to the stub, so only an answer ends the RPC.
FailOnAnswer(w) ==
  /\ pc[w] = "call" /\ reply[w] # "none"
  /\ End(w, "transport")
  /\ reply' = [reply EXCEPT ![w] = "none"]
  /\ UNCHANGED <<now, pipeline, deadline, due, last, seen>>

\* The RPC fails: the connection is lost, or its timeout comes first.
\* status() raises, and nothing in wait_running catches it.
Fail(w) ==
  /\ pc[w] = "call"
  /\ End(w, "transport")
  /\ reply' = [reply EXCEPT ![w] = "none"]
  /\ UNCHANGED <<now, pipeline, deadline, due, last, seen>>

\* time.sleep(poll_interval) is over.
Wake(w) ==
  /\ pc[w] = "sleep" /\ now >= due[w]
  /\ Goto(w, "check")
  /\ UNCHANGED <<now, pipeline, reply, local, seen>>

\* The engine, or another client (stop(), a deletion), changes the status.
Change(s) ==
  /\ pipeline \notin {s, "gone"}
  /\ pipeline' = s
  /\ seen' = [w \in Waiters |-> IF Active(w) THEN seen[w] \cup {s} ELSE seen[w]]
  /\ UNCHANGED <<now, pc, local, reply>>

\* Time passes while somebody waits, or may still begin to.
Tick ==
  /\ now < LatestStart \/ \E w \in Waiters : Active(w)
  /\ \A w \in Waiters : Active(w) => pc[w] # "check" /\ now < due[w]
  /\ now' = now + 1
  /\ UNCHANGED <<pipeline, pc, local, reply, seen>>

Wait(w) == Check(w) \/ Receive(w) \/ Fail(w) \/ Wake(w)

Next ==
  \/ \E w \in Waiters : Begin(w) \/ Wait(w) \/ Answer(w)
  \/ \E s \in Statuses : Change(s)
  \/ Tick

\* A call that is due goes on, and time passes.  The engine owes no answer.
Spec ==
  /\ Init /\ [][Next]_vars /\ WF_vars(Tick)
  /\ \A w \in Waiters : WF_vars(Check(w)) /\ WF_vars(Wake(w)) /\ WF_vars(now >= due[w] /\ (Receive(w) \/ Fail(w)))

-----------------------------------------------------------------------------
\* What a call reports of the pipeline was true at some moment of that call,
\* however late the answer: no status from before it, and none of another call.
ReportIsFresh ==
  \A w \in Waiters :
    /\ result[w] = "running" => "running" \in seen[w]
    /\ result[w] = "client.pipeline_degraded" => "degraded" \in seen[w]
    /\ result[w] = "common.not_found" => "gone" \in seen[w]

\* A call with any timeout at all does not time out on a pipeline that was
\* running, or was degraded, from its beginning to its end.
TimeoutIsHonest ==
  \A w \in Waiters : result[w] = "client.wait_timeout" /\ Timeout[w] > 0 =>
    seen[w] \notin {{"running"}, {"degraded"}}

\* A call overruns its timeout by one RPC and one sleep at most.
Overrun == RpcTimeout + PollInterval
BoundedWait == \A w \in Waiters : Active(w) => now < deadline[w] + Overrun

\* Every call ends, though the engine may never answer and the pipeline may
\* never run.
WaitEnds == \A w \in Waiters : Active(w) ~> pc[w] = "ended"
=============================================================================
