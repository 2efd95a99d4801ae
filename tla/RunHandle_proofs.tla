-------------------------- MODULE RunHandle_proofs --------------------------
(* Theorems about RunHandle, for any callers, timeouts and statuses. *)
EXTENDS RunHandle, TLAPS

\* A step that has to be taken by a moment has not missed it.
TimeOK(w) ==
  /\ pc[w] = "check" => now < deadline[w] + RpcTimeout + PollInterval
  /\ pc[w] = "call" => now <= due[w] /\ due[w] < deadline[w] + RpcTimeout
  /\ pc[w] = "sleep" => now <= due[w] /\ due[w] < deadline[w] + RpcTimeout + PollInterval

\* What is on its way to a caller, and what it ended with, was seen during its
\* call.
FreshOK(w) ==
  /\ Active(w) => pipeline \in seen[w]
  /\ pc[w] # "ended" => result[w] = "none"
  /\ reply[w] # "none" => pc[w] = "call" /\ reply[w] \in seen[w]
  /\ result[w] = "running" => "running" \in seen[w]
  /\ result[w] = "client.pipeline_degraded" => "degraded" \in seen[w]
  /\ result[w] = "common.not_found" => "gone" \in seen[w]

\* On a pipeline that is steadily running or degraded the first look decides.
Steady(w) == seen[w] \in {{"running"}, {"degraded"}}
SteadyOK(w) ==
  Steady(w) =>
    /\ pc[w] = "check" => now + Timeout[w] = deadline[w]
    /\ pc[w] # "sleep"
    /\ result[w] = "client.wait_timeout" => Timeout[w] = 0

IInv == TypeOK /\ \A w \in Waiters : TimeOK(w) /\ FreshOK(w) /\ SteadyOK(w)

\* The invariant holds before any call.
LEMMA InitInv == Init => IInv
BY HandleAssumption DEF Init, IInv, TypeOK, TimeOK, FreshOK, SteadyOK, Steady, Active, Results

\* No step of a caller, of the engine or of time leaves the types.
LEMMA TypeStep == IInv /\ [Next]_vars => TypeOK'
<1> SUFFICES ASSUME IInv, [Next]_vars PROVE TypeOK'
  OBVIOUS
<1>0. TypeOK
  BY DEF IInv
<1> USE HandleAssumption DEF TypeOK, Results, local
<1>1. ASSUME NEW w \in Waiters, Begin(w) PROVE TypeOK'
  BY <1>0, <1>1 DEF Begin, End, Goto
<1>2. ASSUME NEW w \in Waiters, Check(w) PROVE TypeOK'
  BY <1>0, <1>2 DEF Check, End, Goto
<1>3. ASSUME NEW w \in Waiters, Receive(w) PROVE TypeOK'
  BY <1>0, <1>3 DEF Receive, End, Goto, Conclude, IsRunning, IsDegraded
<1>4. ASSUME NEW w \in Waiters, Fail(w) PROVE TypeOK'
  BY <1>0, <1>4 DEF Fail, End, Goto
<1>5. ASSUME NEW w \in Waiters, Wake(w) PROVE TypeOK'
  BY <1>0, <1>5 DEF Wake, End, Goto
<1>6. ASSUME NEW w \in Waiters, Answer(w) PROVE TypeOK'
  BY <1>0, <1>6 DEF Answer, End, Goto
<1>7. ASSUME NEW s \in Statuses, Change(s) PROVE TypeOK'
  BY <1>0, <1>7 DEF Change
<1>8. ASSUME Tick PROVE TypeOK'
  BY <1>0, <1>8 DEF Tick
<1>9. CASE UNCHANGED vars
  BY <1>0, <1>9 DEF vars
<1>10. QED
  BY <1>1, <1>2, <1>3, <1>4, <1>5, <1>6, <1>7, <1>8, <1>9 DEF Next, Wait

\* Every step keeps TimeOK: time stops at whatever is due, and a step that is
\* taken sets the next moment within the bound.
LEMMA TimeStep ==
  ASSUME IInv, [Next]_vars, NEW x \in Waiters
  PROVE  TimeOK(x)'
<1>0. TypeOK /\ TimeOK(x)
  BY DEF IInv
<1> USE HandleAssumption DEF TypeOK, TimeOK, local
<1>1. ASSUME NEW w \in Waiters, Begin(w) PROVE TimeOK(x)'
  BY <1>0, <1>1 DEF Begin, End, Goto, Active
<1>2. ASSUME NEW w \in Waiters, Check(w) PROVE TimeOK(x)'
  BY <1>0, <1>2 DEF Check, End, Goto, Active
<1>3. ASSUME NEW w \in Waiters, Receive(w) PROVE TimeOK(x)'
  BY <1>0, <1>3 DEF Receive, End, Goto, Conclude, IsRunning, IsDegraded, Active
<1>4. ASSUME NEW w \in Waiters, Fail(w) PROVE TimeOK(x)'
  BY <1>0, <1>4 DEF Fail, End, Goto, Active
<1>5. ASSUME NEW w \in Waiters, Wake(w) PROVE TimeOK(x)'
  BY <1>0, <1>5 DEF Wake, End, Goto, Active
<1>6. ASSUME NEW w \in Waiters, Answer(w) PROVE TimeOK(x)'
  BY <1>0, <1>6 DEF Answer, End, Goto, Active
<1>7. ASSUME NEW s \in Statuses, Change(s) PROVE TimeOK(x)'
  BY <1>0, <1>7 DEF Change, Active
<1>8. ASSUME Tick PROVE TimeOK(x)'
  BY <1>0, <1>8 DEF Tick, Active
<1>9. CASE UNCHANGED vars
  BY <1>0, <1>9 DEF vars, Active
<1>10. QED
  BY <1>1, <1>2, <1>3, <1>4, <1>5, <1>6, <1>7, <1>8, <1>9 DEF Next, Wait

\* Every step keeps FreshOK: an answer carries the status of its moment, and it
\* is dropped with the RPC it answers.
LEMMA FreshStep ==
  ASSUME IInv, [Next]_vars, NEW x \in Waiters
  PROVE  FreshOK(x)'
<1>0. TypeOK /\ FreshOK(x)
  BY DEF IInv
<1> USE HandleAssumption DEF TypeOK, FreshOK, Active, local
<1>1. ASSUME NEW w \in Waiters, Begin(w) PROVE FreshOK(x)'
  BY <1>0, <1>1 DEF Begin, End, Goto
<1>2. ASSUME NEW w \in Waiters, Check(w) PROVE FreshOK(x)'
  BY <1>0, <1>2 DEF Check, End, Goto
<1>3. ASSUME NEW w \in Waiters, Receive(w) PROVE FreshOK(x)'
  BY <1>0, <1>3 DEF Receive, End, Goto, Conclude, IsRunning, IsDegraded
<1>4. ASSUME NEW w \in Waiters, Fail(w) PROVE FreshOK(x)'
  BY <1>0, <1>4 DEF Fail, End, Goto
<1>5. ASSUME NEW w \in Waiters, Wake(w) PROVE FreshOK(x)'
  BY <1>0, <1>5 DEF Wake, End, Goto
<1>6. ASSUME NEW w \in Waiters, Answer(w) PROVE FreshOK(x)'
  BY <1>0, <1>6 DEF Answer, End, Goto
<1>7. ASSUME NEW s \in Statuses, Change(s) PROVE FreshOK(x)'
  BY <1>0, <1>7 DEF Change
<1>8. ASSUME Tick PROVE FreshOK(x)'
  BY <1>0, <1>8 DEF Tick
<1>9. CASE UNCHANGED vars
  BY <1>0, <1>9 DEF vars
<1>10. QED
  BY <1>1, <1>2, <1>3, <1>4, <1>5, <1>6, <1>7, <1>8, <1>9 DEF Next, Wait

\* Every step keeps SteadyOK: a caller only falls asleep after it observed a
\* status that is neither running nor degraded.
LEMMA SteadyStep ==
  ASSUME IInv, [Next]_vars, NEW x \in Waiters
  PROVE  SteadyOK(x)'
<1>0. TypeOK /\ FreshOK(x) /\ SteadyOK(x)
  BY DEF IInv
<1> USE HandleAssumption DEF TypeOK, FreshOK, SteadyOK, Steady, Active, local
<1>1. ASSUME NEW w \in Waiters, Begin(w) PROVE SteadyOK(x)'
  BY <1>0, <1>1 DEF Begin, End, Goto
<1>2. ASSUME NEW w \in Waiters, Check(w) PROVE SteadyOK(x)'
  BY <1>0, <1>2 DEF Check, End, Goto
<1>3. ASSUME NEW w \in Waiters, Receive(w) PROVE SteadyOK(x)'
  BY <1>0, <1>3 DEF Receive, End, Goto, Conclude, IsRunning, IsDegraded
<1>4. ASSUME NEW w \in Waiters, Fail(w) PROVE SteadyOK(x)'
  BY <1>0, <1>4 DEF Fail, End, Goto
<1>5. ASSUME NEW w \in Waiters, Wake(w) PROVE SteadyOK(x)'
  BY <1>0, <1>5 DEF Wake, End, Goto
<1>6. ASSUME NEW w \in Waiters, Answer(w) PROVE SteadyOK(x)'
  BY <1>0, <1>6 DEF Answer, End, Goto
<1>7. ASSUME NEW s \in Statuses, Change(s) PROVE SteadyOK(x)'
  BY <1>0, <1>7 DEF Change
<1>8. ASSUME Tick PROVE SteadyOK(x)'
  BY <1>0, <1>8 DEF Tick
<1>9. CASE UNCHANGED vars
  BY <1>0, <1>9 DEF vars
<1>10. QED
  BY <1>1, <1>2, <1>3, <1>4, <1>5, <1>6, <1>7, <1>8, <1>9 DEF Next, Wait

\* IInv is inductive: it holds in every state of every behaviour.
LEMMA Invariance == Spec => []IInv
<1>1. IInv /\ [Next]_vars => IInv'
  BY TypeStep, TimeStep, FreshStep, SteadyStep DEF IInv
<1>2. QED
  BY InitInv, <1>1, PTL DEF Spec

\* Type correctness of wait_running.
THEOREM TypeCorrect == Spec => []TypeOK
<1>1. IInv => TypeOK
  BY DEF IInv
<1>2. QED
  BY Invariance, <1>1, PTL

\* Whatever wait_running reports of the pipeline was true during the call.
THEOREM Fresh == Spec => []ReportIsFresh
<1>1. IInv => ReportIsFresh
  BY DEF IInv, FreshOK, ReportIsFresh
<1>2. QED
  BY Invariance, <1>1, PTL

\* No call times out on a pipeline that was running, or degraded, throughout.
THEOREM Honest == Spec => []TimeoutIsHonest
<1>1. IInv => TimeoutIsHonest
  BY HandleAssumption DEF IInv, TypeOK, SteadyOK, Steady, TimeoutIsHonest
<1>2. QED
  BY Invariance, <1>1, PTL

\* For every timeout, poll interval and RPC timeout: a call overruns by less
\* than one RPC and one sleep.
THEOREM Bounded == Spec => []BoundedWait
<1>1. IInv => BoundedWait
  BY HandleAssumption DEF IInv, TypeOK, TimeOK, BoundedWait, Overrun, Active
<1>2. QED
  BY Invariance, <1>1, PTL
=============================================================================
