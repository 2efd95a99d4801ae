-------------------------- MODULE ClientRun_proofs --------------------------
(* Theorems about ClientRun, for any runs, plans and pipeline ids. *)
EXTENDS ClientRun, TLAPS

\* The engine has carried out the first n requests of r, on one pipeline.
Has(r, n) ==
  /\ n = 0 => CreatedBy(r) = {}
  /\ n # 0 => CreatedBy(r) # {}
  /\ \A id \in CreatedBy(r) : Len(pipes[id]) = n

\* A pipeline's log is the beginning of its creator's plan, and a run creates
\* one pipeline only.
LogsOK ==
  /\ AppliedInOrder
  /\ \A id, jd \in Ids :
       pipes[id] # <<>> /\ pipes[jd] # <<>> /\ Creator(id) = Creator(jd) => id = jd

\* How far run r is, and how far the engine is with it.
SubmitOK(r) ==
  /\ pc[r] \in {"send", "wait"} => plan[r] \in Plans /\ next[r] \in 1..Len(plan[r])
  /\ pc[r] = "idle" => next[r] = 1 /\ error[r] = "none" /\ CreatedBy(r) = {}
  /\ pc[r] \in {"idle", "send", "wait", "raised"} => (next[r] = 1 <=> pid[r] = NoId)
  /\ next[r] > 1 => pid[r] # NoId
  /\ pid[r] # NoId => pid[r] \in CreatedBy(r)
  /\ pc[r] = "send" => Has(r, next[r] - 1)
  /\ pc[r] = "wait" /\ reply[r].kind # "ok" => Has(r, next[r] - 1)
  /\ pc[r] = "wait" /\ reply[r].kind = "ok" => Has(r, next[r]) /\ reply[r].id \in CreatedBy(r)
  /\ pc[r] = "raised" => Has(r, next[r] - 1) \/ Has(r, next[r])
  /\ error[r] = "ConduitError" => pc[r] = "raised" /\ named[r] = pid[r]

HandleOK(r) ==
  HoldsHandle(r) => named[r] \in CreatedBy(r) /\ Len(pipes[named[r]]) = Len(plan[r])

RunOK(r) == (InRun(r) => SubmitOK(r)) /\ HandleOK(r)

\* What is on the wire was sent by the call that still waits for it, or has
\* given it up; it has not taken effect and will find its predecessor done.
WireOK(m) ==
  /\ m.by = Main => m.req = GetInfo
  /\ m.by # Main => pc[m.by] \in {"wait", "raised"} /\ reply[m.by] = NoAnswer
  /\ m.by # Main /\ InRun(m.by) =>
       /\ plan[m.by] \in Plans /\ next[m.by] \in 1..Len(plan[m.by])
       /\ m.req = plan[m.by][next[m.by]]
       /\ m.id = pid[m.by]
       /\ next[m.by] = 1 <=> pid[m.by] = NoId
       /\ Has(m.by, next[m.by] - 1)
  /\ m.by # Main /\ ~InRun(m.by) =>
       m.id = named[m.by] /\ m.req = StopPipeline(TRUE \in asked[m.by])

\* A stop() is answered only when the engine has taken it, and only it waits for
\* an answer.
StopOK(r) ==
  /\ asked[r] \in {{}, {TRUE}, {FALSE}} /\ (pc[r] = "idle" => asked[r] = {})
  /\ asked[r] # {} /\ (pc[r] = "returned" \/ (pc[r] = "wait" /\ reply[r].kind = "ok")) =>
       asked[r] \subseteq stops[named[r]]
  /\ pc[r] \in {"idle", "send", "returned"} => reply[r] = NoAnswer

\* A pipeline was stopped by the handle of its run only.
StopsOK ==
  \A id \in Ids : stops[id] # {} =>
    \E r \in Runs : id \in CreatedBy(r) /\ HoldsHandle(r) /\ stops[id] \subseteq asked[r]

IInv ==
  /\ TypeOK
  /\ LogsOK
  /\ \A r \in Runs : RunOK(r) /\ StopOK(r)
  /\ \A m \in wire : WireOK(m)
  /\ StopsOK

\* The invariant holds before anything is called.
LEMMA InitInv == Init => IInv
<1> SUFFICES ASSUME Init PROVE IInv
  OBVIOUS
<1> USE RunAssumption DEF Init
<1>1. TypeOK
  <2>1. /\ plan \in [Runs -> AnyPlan] /\ next \in [Runs -> Nat \ {0}]
        /\ reply \in [Callers -> Answer] /\ wire \subseteq Message
    BY DEF AnyPlan, Answer
  <2>2. pipes \in [Ids -> Seq(Effect)]
    OBVIOUS
  <2>3. QED
    BY <2>1, <2>2 DEF TypeOK
<1>2. \A r \in Runs : CreatedBy(r) = {}
  BY DEF CreatedBy, Creator
<1>3. LogsOK
  BY DEF LogsOK, AppliedInOrder, Creator
<1>4. ASSUME NEW r \in Runs PROVE RunOK(r) /\ StopOK(r)
  BY <1>2 DEF RunOK, SubmitOK, HandleOK, HoldsHandle, InRun, StopOK, Callers, NoAnswer
<1>5. QED
  BY <1>1, <1>3, <1>4 DEF IInv, StopsOK

-----------------------------------------------------------------------------
\* What a request's kind says about the call that sent it.
LEMMA WireCall ==
  ASSUME IInv, NEW m \in wire
  PROVE  /\ m.by \in Callers /\ m.id \in Ids \cup {NoId} /\ m.req \in AnyRequest
         /\ m.by # Main => m.by \in Runs
         /\ m.req \in Request => m.by \in Runs /\ InRun(m.by)
         /\ \A f \in BOOLEAN : m.req = StopPipeline(f) /\ m.by # Main =>
              m.by \in Runs /\ ~InRun(m.by) /\ asked[m.by] = {f} /\ m.id = named[m.by]
<1>1. m \in Message /\ WireOK(m)
  BY DEF IInv, TypeOK
<1>2. m.by \in Callers /\ m.id \in Ids \cup {NoId} /\ m.req \in AnyRequest
  BY <1>1 DEF Message
<1>3. GetInfo \notin Request /\ \A f \in BOOLEAN : StopPipeline(f) \notin Request
  BY RunAssumption DEF GetInfo, StopPipeline
<1>4. m.req \in Request => m.by \in Runs /\ InRun(m.by)
  <2> SUFFICES ASSUME m.req \in Request PROVE m.by \in Runs /\ InRun(m.by)
    OBVIOUS
  <2>1. m.by # Main
    BY <1>1, <1>3 DEF WireOK
  <2>2. (TRUE \in asked[m.by]) \in BOOLEAN
    OBVIOUS
  <2>3. QED
    BY <1>1, <1>2, <1>3, <2>1, <2>2 DEF WireOK, Callers
<1>5. ASSUME NEW f \in BOOLEAN, m.req = StopPipeline(f), m.by # Main
      PROVE  m.by \in Runs /\ ~InRun(m.by) /\ asked[m.by] = {f} /\ m.id = named[m.by]
  <2>1. m.by \in Runs
    BY <1>2, <1>5 DEF Callers
  <2>2. ~InRun(m.by)
    <3> SUFFICES ASSUME InRun(m.by) PROVE FALSE
      OBVIOUS
    <3>1. m.req = plan[m.by][next[m.by]] /\ plan[m.by] \in Plans /\ next[m.by] \in 1..Len(plan[m.by])
      BY <1>1, <1>5 DEF WireOK
    <3>2. m.req \in Request
      BY <3>1, RunAssumption
    <3>3. QED
      BY <1>3, <1>5, <3>2
  <2>3. m.id = named[m.by] /\ StopPipeline(f) = StopPipeline(TRUE \in asked[m.by])
    BY <1>1, <1>5, <2>2 DEF WireOK
  <2>4. f = (TRUE \in asked[m.by])
    BY <2>3 DEF StopPipeline
  <2>5. asked[m.by] \in {{TRUE}, {FALSE}}
    BY <2>1, <2>2 DEF IInv, StopOK, InRun
  <2>6. QED
    BY <2>1, <2>2, <2>3, <2>4, <2>5
<1>6. QED
  BY <1>2, <1>4, <1>5 DEF Callers

\* No step of a caller, of the engine or of the network leaves the types.
LEMMA TypeStep == IInv /\ [Next]_vars => TypeOK'
<1> SUFFICES ASSUME IInv, [Next]_vars PROVE TypeOK'
  OBVIOUS
<1>0. TypeOK
  BY DEF IInv
<1>a. \A c \in Callers : c # Main => c \in Runs
  BY DEF Callers
<1>b. Runs \subseteq Callers /\ Main \in Callers /\ NoAnswer \in Answer /\ NoId \notin Ids
  BY RunAssumption DEF Callers, Answer
<1> USE DEF TypeOK, Goto, callVars, engineVars
<1>1. ASSUME NEW b \in BOOLEAN, Connect(b) PROVE TypeOK'
  BY <1>0, <1>1, <1>b DEF Connect
<1>2. ASSUME NEW r \in Runs, NEW p \in Plans, Begin(r, p) PROVE TypeOK'
  BY <1>0, <1>2, <1>b DEF Begin, AnyPlan
<1>3. ASSUME NEW r \in Runs, Refuse(r) PROVE TypeOK'
  BY <1>0, <1>3, <1>b DEF Refuse
<1>4. ASSUME NEW r \in Runs, NEW f \in BOOLEAN, Stop(r, f) PROVE TypeOK'
  BY <1>0, <1>4, <1>b DEF Stop
<1>5. ASSUME NEW c \in Callers, Send(c) PROVE TypeOK'
  <2>1. CASE open
    <3>1. Target(c) \in Ids \cup {NoId}
      BY <1>0, <1>a DEF Target
    <3>2. Current(c) \in AnyRequest
      <4>1. (TRUE \in asked[c]) \in BOOLEAN
        OBVIOUS
      <4>2. CASE c # Main /\ InRun(c)
        <5>1. plan[c] \in Plans /\ next[c] \in 1..Len(plan[c])
          BY <1>5, <1>a, <4>2 DEF Send, IInv, RunOK, SubmitOK
        <5>2. plan[c][next[c]] \in Request
          BY <5>1, RunAssumption
        <5>3. QED
          BY <4>2, <5>2 DEF Current, AnyRequest
      <4>3. QED
        BY <4>1, <4>2 DEF Current, AnyRequest
    <3>3. [by |-> c, id |-> Target(c), req |-> Current(c)] \in Message
      BY <3>1, <3>2 DEF Message
    <3>4. QED
      BY <1>0, <1>5, <2>1, <3>3 DEF Send
  <2>2. CASE ~open
    BY <1>0, <1>5, <2>2 DEF Send
  <2>3. QED
    BY <2>1, <2>2
<1>6. ASSUME NEW c \in Callers, Receive(c) PROVE TypeOK'
  <2>1. reply' \in [Callers -> Answer]
    BY <1>0, <1>6, <1>b DEF Receive
  <2>2. CASE InRun(c) /\ reply[c].kind = "ok"
    <3>1. reply[c].id \in Ids \cup {NoId} /\ c \in Runs
      BY <1>0, <2>2 DEF Answer, InRun, NoAnswer
    <3>2. Advance(c) /\ error' = error
      BY <1>6, <2>2 DEF Receive
    <3>3. pid' \in [Runs -> Ids \cup {NoId}]
      BY <1>0, <3>1, <3>2 DEF Advance
    <3>4. next' \in [Runs -> Nat \ {0}] /\ named' \in [Runs -> Ids \cup {NoId}]
          /\ pc' \in [Callers -> {"idle", "send", "wait", "returned", "raised"}]
      <4>1. CASE LastOfPlan(c)
        BY <1>0, <3>1, <3>2, <3>3, <4>1 DEF Advance
      <4>2. CASE ~LastOfPlan(c)
        <5>1. next[c] + 1 \in Nat \ {0}
          BY <1>0, <3>1
        <5>2. QED
          BY <1>0, <3>1, <3>2, <4>2, <5>1, ZenonT(30) DEF Advance
      <4>3. QED
        BY <4>1, <4>2
    <3>5. QED
      BY <1>0, <1>6, <2>1, <3>2, <3>3, <3>4 DEF Receive
  <2>3. CASE ~InRun(c) /\ reply[c].kind = "ok"
    BY <1>0, <1>6, <2>1, <2>3 DEF Receive
  <2>4. CASE reply[c].kind = "rejected"
    BY <1>0, <1>6, <2>1, <2>4 DEF Receive, RaiseConduitError, RaiseDecodeError, NamedOnError
  <2>5. QED
    BY <1>6, <2>2, <2>3, <2>4 DEF Receive
<1>7. ASSUME NEW c \in Callers, GiveUp(c) PROVE TypeOK'
  BY <1>0, <1>7, <1>b DEF GiveUp, RaiseConduitError, NamedOnError
<1>8. ASSUME Close PROVE TypeOK'
  BY <1>0, <1>8 DEF Close
<1>9. ASSUME NEW m \in wire, Carry(m) PROVE TypeOK'
  <2>1. /\ m.by \in Callers /\ m.id \in Ids \cup {NoId}
        /\ m.req \in Request => m.by \in Runs
    BY WireCall
  <2>2. reply' \in [Callers -> Answer]
    <3>1. PICK id \in Ids \cup {NoId} : Reply(m, "ok", id)
      BY <1>9, <2>1 DEF Carry
    <3>2. [kind |-> "ok", id |-> id] \in Answer
      BY DEF Answer
    <3>3. QED
      BY <1>0, <2>1, <3>1, <3>2 DEF Reply
  <2>3. /\ wire' \subseteq Message
        /\ UNCHANGED <<pc, plan, next, asked, pid, error, named, open>>
    BY <1>0, <1>9 DEF Carry
  <2>4. stops' \in [Ids -> SUBSET BOOLEAN]
    <3>1. \/ stops' = stops
          \/ \E f \in BOOLEAN : stops' = [stops EXCEPT ![m.id] = @ \cup {f}]
      BY <1>9 DEF Carry
    <3>2. ASSUME NEW f \in BOOLEAN, stops' = [stops EXCEPT ![m.id] = @ \cup {f}]
          PROVE  stops' \in [Ids -> SUBSET BOOLEAN]
      <4>1. m.id \in Ids => stops[m.id] \cup {f} \subseteq BOOLEAN
        BY <1>0
      <4>2. QED
        BY <1>0, <3>2, <4>1
    <3>3. QED
      BY <1>0, <3>1, <3>2
  <2>5. pipes' \in [Ids -> Seq(Effect)]
    <3>1. CASE pipes' = pipes
      BY <1>0, <3>1
    <3>2. ASSUME NEW id \in Ids, m.req \in Request,
                 pipes' = [pipes EXCEPT ![id] = Append(@, [by |-> m.by, req |-> m.req])]
          PROVE  pipes' \in [Ids -> Seq(Effect)]
      <4>1. [by |-> m.by, req |-> m.req] \in Effect
        BY <2>1, <3>2 DEF Effect
      <4>2. Append(pipes[id], [by |-> m.by, req |-> m.req]) \in Seq(Effect)
        BY <1>0, <4>1
      <4>3. QED
        BY <1>0, <3>2, <4>2
    <3>3. QED
      BY <1>9, <3>1, <3>2 DEF Carry
  <2>6. QED
    BY <1>0, <2>2, <2>3, <2>4, <2>5
<1>10. ASSUME NEW m \in wire, Reject(m) PROVE TypeOK'
  <2>1. [kind |-> "rejected", id |-> NoId] \in Answer
    BY DEF Answer
  <2>2. QED
    BY <1>0, <1>10, <2>1 DEF Reject, Reply
<1>11. ASSUME NEW m \in wire, Lose(m) PROVE TypeOK'
  BY <1>0, <1>11 DEF Lose
<1>12. CASE UNCHANGED vars
  BY <1>0, <1>12 DEF vars
<1>13. QED
  BY <1>1, <1>2, <1>3, <1>4, <1>5, <1>6, <1>7, <1>8, <1>9, <1>10, <1>11, <1>12, RunAssumption
  DEF Next, Proceed, Work

\* A step that leaves the engine's logs alone leaves what is said of them.
LEMMA LogFrame ==
  ASSUME UNCHANGED pipes
  PROVE  \A r \in Runs : CreatedBy(r)' = CreatedBy(r) /\ \A n \in Nat : Has(r, n)' = Has(r, n)
BY DEF CreatedBy, Creator, Has

\* The engine carries out m, a request of run(), on pipeline id.
Enacts(m, id) ==
  /\ m.req \in Request
  /\ IF Creates(m.req) THEN pipes[id] = <<>> ELSE id = m.id
  /\ pipes' = [pipes EXCEPT ![id] = Append(@, [by |-> m.by, req |-> m.req])]

\* That was the next request of r's plan, on the one pipeline of r.
Enacted(r, id) ==
  /\ r \in Runs /\ InRun(r) /\ plan[r] \in Plans /\ next[r] \in 1..Len(plan[r])
  /\ Len(pipes[id]) = next[r] - 1
  /\ Len(pipes'[id]) = next[r] /\ DOMAIN pipes'[id] = 1..next[r]
  /\ \A k \in 1..(next[r] - 1) : pipes'[id][k] = pipes[id][k]
  /\ pipes'[id][next[r]] = [by |-> r, req |-> plan[r][next[r]]]
  /\ pipes'[id] # <<>> /\ Creator(id)' = r
  /\ \A jd \in Ids \ {id} : pipes'[jd] = pipes[jd]
  /\ CreatedBy(r) \subseteq {id} /\ CreatedBy(r)' = {id}
  /\ \A k \in Nat : k = next[r] => Has(r, k)'
  /\ \A x \in Runs \ {r} : /\ CreatedBy(x)' = CreatedBy(x)
                         /\ id \notin CreatedBy(x)
                         /\ \A k \in Nat : Has(x, k)' = Has(x, k)

LEMMA CarryEffect ==
  ASSUME IInv, NEW m \in wire, NEW id \in Ids, Enacts(m, id)
  PROVE  Enacted(m.by, id)
<1> SUFFICES ASSUME NEW r, r = m.by PROVE Enacted(r, id)
  OBVIOUS
<1> USE DEF Enacts
<1> DEFINE n == next[r]
           e == [by |-> r, req |-> plan[r][n]]
<1>1. r \in Runs /\ InRun(r) /\ r # Main
  BY WireCall, RunAssumption
<1>2. /\ plan[r] \in Plans /\ n \in 1..Len(plan[r])
      /\ m.req = plan[r][n] /\ m.id = pid[r] /\ (n = 1 <=> pid[r] = NoId)
      /\ Has(r, n - 1)
  BY <1>1 DEF IInv, WireOK
<1>3. Creates(m.req) <=> n = 1
  BY <1>2, RunAssumption
<1>4. TypeOK /\ LogsOK /\ SubmitOK(r)
  BY <1>1 DEF IInv, RunOK
<1>5. pipes[id] \in Seq(Effect) /\ pipes' = [pipes EXCEPT ![id] = Append(pipes[id], e)] /\ pipes \in [Ids -> Seq(Effect)]
  BY <1>2, <1>4 DEF TypeOK
<1>6. /\ Len(pipes[id]) = n - 1
      /\ \A jd \in CreatedBy(r) : jd = id
      /\ n # 1 => Creator(id) = r
      /\ \A x \in Runs \ {r} : id \notin CreatedBy(x)
  <2>1. CASE n = 1
    <3>1. pipes[id] = <<>> /\ CreatedBy(r) = {}
      BY <1>2, <1>3, <2>1 DEF Has
    <3>2. QED
      BY <2>1, <3>1 DEF CreatedBy, Creator
  <2>2. CASE n # 1
    <3>1. id = pid[r] /\ id \in CreatedBy(r)
      BY <1>2, <1>3, <1>4, <2>2 DEF SubmitOK
    <3>2. Len(pipes[id]) = n - 1
      BY <1>2, <3>1 DEF Has
    <3>3. \A jd \in CreatedBy(r) : jd = id
      BY <1>4, <3>1 DEF LogsOK, CreatedBy, Creator
    <3>4. QED
      BY <3>1, <3>2, <3>3 DEF CreatedBy, Creator
  <2>3. QED
    BY <2>1, <2>2
<1>7. Append(pipes[id], e) # <<>> /\ Append(pipes[id], e)[1].by = r /\ Len(Append(pipes[id], e)) = n
  <2>1. e \in Effect
    BY <1>1, <1>2, RunAssumption DEF Effect
  <2>2. Len(Append(pipes[id], e)) = n /\ Append(pipes[id], e)[n] = e
    BY <1>2, <1>5, <1>6, <2>1
  <2>3. n # 1 => Append(pipes[id], e)[1] = pipes[id][1]
    BY <1>2, <1>5, <1>6, <2>1
  <2>4. QED
    BY <1>2, <1>6, <2>2, <2>3 DEF Creator
<1>8. pipes'[id] = Append(pipes[id], e) /\ \A jd \in Ids \ {id} : pipes'[jd] = pipes[jd]
  BY <1>5
<1>9. CreatedBy(r)' = {id}
  BY <1>6, <1>7, <1>8 DEF CreatedBy, Creator
<1>10. ASSUME NEW k \in Nat, k = next[r] PROVE Has(r, k)'
  <2>1. k # 0 /\ Len(pipes'[id]) = k /\ CreatedBy(r)' = {id}
    BY <1>2, <1>7, <1>8, <1>9, <1>10
  <2>2. QED
    BY <2>1 DEF Has
<1>11. ASSUME NEW x \in Runs \ {r} PROVE CreatedBy(x)' = CreatedBy(x)
  BY <1>6, <1>7, <1>8 DEF CreatedBy, Creator
<1>12. ASSUME NEW x \in Runs \ {r}, NEW k \in Nat PROVE Has(x, k)' = Has(x, k)
  <2>1. \A jd \in CreatedBy(x) : pipes'[jd] = pipes[jd]
    BY <1>6, <1>8 DEF CreatedBy, Creator
  <2>2. QED
    BY <1>11, <2>1 DEF Has
<1>13. /\ Len(pipes'[id]) = next[r] /\ DOMAIN pipes'[id] = 1..next[r]
       /\ \A k \in 1..(next[r] - 1) : pipes'[id][k] = pipes[id][k]
       /\ pipes'[id][next[r]] = [by |-> r, req |-> plan[r][next[r]]]
       /\ pipes'[id] # <<>> /\ Creator(id)' = r
  <2>1. e \in Effect
    BY <1>1, <1>2, RunAssumption DEF Effect
  <2>2. /\ DOMAIN Append(pipes[id], e) = 1..n
        /\ \A k \in 1..(n - 1) : Append(pipes[id], e)[k] = pipes[id][k]
        /\ Append(pipes[id], e)[n] = e
    BY <1>2, <1>5, <1>6, <2>1
  <2>3. QED
    BY <1>7, <1>8, <2>2 DEF Creator
<1>14. QED
  BY <1>1, <1>2, <1>6, <1>8, <1>9, <1>10, <1>11, <1>12, <1>13 DEF Enacted

\* Every step keeps the logs the beginnings of their plans.
LEMMA LogsStep == IInv /\ [Next]_vars => LogsOK'
<1> SUFFICES ASSUME IInv, [Next]_vars PROVE LogsOK'
  OBVIOUS
<1>0. TypeOK /\ LogsOK
  BY DEF IInv
<1>1. ASSUME NEW id \in Ids, NEW k \in DOMAIN pipes[id]
      PROVE  pipes[id] # <<>> /\ Creator(id) \in Runs
  <2>1. pipes[id] \in Seq(Effect)
    BY <1>0 DEF TypeOK
  <2>2. 1 \in DOMAIN pipes[id] /\ pipes[id][1] \in Effect
    BY <1>1, <2>1
  <2>3. QED
    BY <2>1, <2>2 DEF Effect, Creator
<1>2. CASE UNCHANGED <<pipes, plan>>
  BY <1>0, <1>2 DEF LogsOK, AppliedInOrder, Creator
<1>3. ASSUME NEW r \in Runs, NEW p \in Plans, Begin(r, p) PROVE LogsOK'
  <2>1. pipes' = pipes /\ plan' = [plan EXCEPT ![r] = p] /\ plan \in [Runs -> AnyPlan]
    BY <1>0, <1>3 DEF Begin, engineVars, TypeOK
  <2>2. CreatedBy(r) = {}
    BY <1>3 DEF Begin, IInv, RunOK, SubmitOK, HandleOK, HoldsHandle, StopOK, InRun
  <2>3. ASSUME NEW id \in Ids, NEW k \in DOMAIN pipes[id]
        PROVE  plan'[Creator(id)] = plan[Creator(id)]
    BY <1>1, <2>1, <2>2, <2>3 DEF CreatedBy
  <2>4. QED
    BY <1>0, <2>1, <2>3 DEF LogsOK, AppliedInOrder, Creator
<1>4. ASSUME NEW m \in wire, NEW id \in Ids, Enacts(m, id), plan' = plan
      PROVE  LogsOK'
  <2>a. PICK r : r = m.by
    OBVIOUS
  <2>b. PICK n : n = next[r]
    OBVIOUS
  <2>1. /\ r \in Runs /\ plan[r] \in Plans /\ n \in 1..Len(plan[r])
        /\ Len(pipes[id]) = n - 1
        /\ DOMAIN pipes'[id] = 1..n
        /\ \A k \in 1..(n - 1) : pipes'[id][k] = pipes[id][k]
        /\ pipes'[id][n] = [by |-> r, req |-> plan[r][n]]
        /\ pipes'[id] # <<>> /\ Creator(id)' = r
        /\ \A jd \in Ids \ {id} : pipes'[jd] = pipes[jd]
        /\ CreatedBy(r)' = {id}
    <3>1. Enacted(r, id)
      BY <1>4, <2>a, CarryEffect
    <3>2. QED
      BY <2>b, <3>1 DEF Enacted
  <2>2. pipes[id] \in Seq(Effect) /\ plan[r] \in Seq(Request)
    BY <1>0, <2>1, RunAssumption DEF TypeOK
  <2>c. plan' = plan
    BY <1>4
  <2>3. ASSUME NEW k \in DOMAIN pipes'[id]
        PROVE  k \in DOMAIN plan[r] /\ pipes'[id][k] = [by |-> r, req |-> plan[r][k]]
    <3>1. DOMAIN plan[r] = 1..Len(plan[r]) /\ k \in 1..n
      BY <2>1, <2>2, <2>3, RunAssumption
    <3>2. CASE k = n
      BY <2>1, <2>2, <3>1, <3>2
    <3>3. CASE k # n
      <4>1. k \in DOMAIN pipes[id] /\ pipes'[id][k] = pipes[id][k] /\ pipes'[id][1] = pipes[id][1]
        BY <2>1, <2>2, <3>1, <3>3
      <4>2. Creator(id) = r
        BY <2>1, <4>1 DEF Creator
      <4>3. QED
        BY <1>0, <4>1, <4>2 DEF LogsOK, AppliedInOrder
    <3>4. QED
      BY <3>2, <3>3
  <2>4. AppliedInOrder'
    <3>1. ASSUME NEW jd \in Ids \ {id}, NEW k \in DOMAIN pipes'[jd]
          PROVE  /\ Creator(jd)' = Creator(jd)
                 /\ k \in DOMAIN plan[Creator(jd)]
                 /\ pipes'[jd][k] = [by |-> Creator(jd), req |-> plan[Creator(jd)][k]]
      BY <1>0, <2>1, <3>1 DEF LogsOK, AppliedInOrder, Creator
    <3>2. QED
      <4> SUFFICES ASSUME NEW jd \in Ids, NEW k \in DOMAIN pipes'[jd]
                   PROVE  /\ k \in DOMAIN plan'[Creator(jd)']
                          /\ pipes'[jd][k] = [by |-> Creator(jd)', req |-> plan'[Creator(jd)'][k]]
        BY DEF AppliedInOrder
      <4>1. CASE jd = id
        BY <2>1, <2>c, <2>3, <4>1
      <4>2. CASE jd # id
        BY <2>c, <3>1, <4>2
      <4>3. QED
        BY <4>1, <4>2
  <2>5. ASSUME NEW jd \in Ids, NEW kd \in Ids, pipes'[jd] # <<>>, pipes'[kd] # <<>>,
               Creator(jd)' = Creator(kd)'
        PROVE  jd = kd
    <3>1. CASE jd # id /\ kd # id
      BY <1>0, <2>1, <2>5, <3>1 DEF LogsOK, Creator
    <3>2. CASE jd = id \/ kd = id
      BY <2>1, <2>5, <3>2 DEF CreatedBy, Creator
    <3>3. QED
      BY <3>1, <3>2
  <2>6. QED
    BY <2>4, <2>5 DEF LogsOK
<1>5. ASSUME NEW m \in wire, Carry(m) PROVE LogsOK'
  BY <1>2, <1>4, <1>5 DEF Carry, Enacts, callVars, engineVars
<1>6. CASE UNCHANGED vars
  BY <1>2, <1>6 DEF vars, callVars, engineVars
<1>7. QED
  BY <1>2, <1>3, <1>5, <1>6 DEF Next, Proceed, Work, Connect, Refuse, Stop, Send, Receive, GiveUp,
     Close, Reject, Lose, callVars, engineVars
\* What a call keeps to itself.
Same(x) ==
  /\ pc'[x] = pc[x] /\ plan'[x] = plan[x] /\ next'[x] = next[x] /\ asked'[x] = asked[x]
  /\ pid'[x] = pid[x] /\ error'[x] = error[x] /\ named'[x] = named[x]

\* A run that a step does not touch stays as it is.
LEMMA RunFrame ==
  ASSUME NEW x \in Runs, RunOK(x), StopOK(x), Same(x), reply'[x] = reply[x],
         pipes' = pipes, stops' = stops
  PROVE  RunOK(x)' /\ StopOK(x)'
<1> USE DEF Same
<1>1. SubmitOK(x)' = SubmitOK(x)
  BY DEF SubmitOK, Has, CreatedBy, Creator, NoAnswer
<1>2. HandleOK(x)' = HandleOK(x)
  BY DEF HandleOK, HoldsHandle, InRun, CreatedBy, Creator
<1>3. StopOK(x)' = StopOK(x)
  BY DEF StopOK, NoAnswer
<1>4. QED
  BY <1>1, <1>2, <1>3 DEF RunOK, InRun

\* run() and stop() as they begin.
LEMMA RunCalled ==
  ASSUME IInv, NEW r \in Runs, NEW x \in Runs,
         (\E p \in Plans : Begin(r, p)) \/ Refuse(r) \/ (\E f \in BOOLEAN : Stop(r, f))
  PROVE  RunOK(x)' /\ StopOK(x)'
<1>0. TypeOK /\ RunOK(x) /\ StopOK(x) /\ r \in Callers /\ x \in Callers
  BY DEF IInv, Callers
<1> USE DEF Goto, engineVars
<1>1. CASE x # r
  <2>1. Same(x) /\ reply'[x] = reply[x] /\ pipes' = pipes /\ stops' = stops
    BY <1>0, <1>1 DEF TypeOK, Same, Begin, Refuse, Stop
  <2>2. QED
    BY <1>0, <2>1, RunFrame
<1>2. ASSUME NEW p \in Plans, Begin(x, p) PROVE RunOK(x)' /\ StopOK(x)'
  <2>1. /\ pc[x] = "idle" /\ pc'[x] = "send" /\ plan'[x] = p /\ next'[x] = next[x]
        /\ asked' = asked /\ pid' = pid /\ error' = error /\ named' = named
        /\ reply' = reply /\ pipes' = pipes /\ stops' = stops
    BY <1>0, <1>2 DEF TypeOK, Begin
  <2>2. asked[x] = {} /\ InRun(x) /\ SubmitOK(x) /\ reply[x] = NoAnswer
    BY <1>0, <2>1 DEF RunOK, StopOK, InRun
  <2>3. next[x] = 1 /\ error[x] = "none" /\ CreatedBy(x) = {} /\ pid[x] = NoId
    BY <2>1, <2>2 DEF SubmitOK
  <2>4. 1 \in 1..Len(p)
    BY RunAssumption
  <2>5. Has(x, 0)'
    BY <2>1, <2>3 DEF Has, CreatedBy, Creator
  <2>6. SubmitOK(x)'
    BY <2>1, <2>2, <2>3, <2>4, <2>5 DEF SubmitOK, CreatedBy, Creator, NoAnswer
  <2>7. QED
    BY <2>1, <2>2, <2>6 DEF RunOK, HandleOK, HoldsHandle, InRun, StopOK, NoAnswer
<1>3. CASE Refuse(x)
  <2>1. /\ pc[x] = "idle" /\ pc'[x] = "raised" /\ plan' = plan /\ next' = next
        /\ asked' = asked /\ pid' = pid /\ error'[x] = "unbuildable" /\ named' = named
        /\ reply' = reply /\ pipes' = pipes /\ stops' = stops
    BY <1>0, <1>3 DEF TypeOK, Refuse
  <2>2. asked[x] = {} /\ InRun(x) /\ SubmitOK(x)
    BY <1>0, <2>1 DEF RunOK, StopOK, InRun
  <2>3. next[x] = 1 /\ CreatedBy(x) = {} /\ pid[x] = NoId
    BY <2>1, <2>2 DEF SubmitOK
  <2>4. Has(x, 0)'
    BY <2>1, <2>3 DEF Has, CreatedBy, Creator
  <2>5. SubmitOK(x)'
    BY <2>1, <2>3, <2>4 DEF SubmitOK, CreatedBy, Creator
  <2>6. QED
    BY <2>1, <2>2, <2>5 DEF RunOK, HandleOK, HoldsHandle, InRun, StopOK
<1>4. ASSUME NEW f \in BOOLEAN, Stop(x, f) PROVE RunOK(x)' /\ StopOK(x)'
  <2>1. /\ pc[x] = "returned" /\ pc'[x] = "send" /\ asked'[x] = {f} /\ plan' = plan
        /\ named' = named /\ reply' = reply /\ pipes' = pipes
    BY <1>0, <1>4 DEF TypeOK, Stop
  <2>2. HandleOK(x)'
    BY <1>0, <2>1 DEF RunOK, HandleOK, HoldsHandle, CreatedBy, Creator
  <2>3. QED
    BY <1>0, <2>1, <2>2 DEF RunOK, InRun, StopOK, NoAnswer
<1>5. QED
  BY <1>1, <1>2, <1>3, <1>4

\* A request is sent, or the closed channel refuses it.
LEMMA RunSend ==
  ASSUME IInv, NEW c \in Callers, Send(c), NEW x \in Runs
  PROVE  RunOK(x)' /\ StopOK(x)'
<1>0. TypeOK /\ RunOK(x) /\ StopOK(x) /\ x \in Callers
  BY DEF IInv, Callers
<1> USE DEF Goto, engineVars
<1>1. CASE x # c
  <2>1. Same(x) /\ reply'[x] = reply[x] /\ pipes' = pipes /\ stops' = stops
    BY <1>0, <1>1 DEF TypeOK, Same, Send
  <2>2. QED
    BY <1>0, <2>1, RunFrame
<1>2. CASE x = c
  <2>1. /\ pc[x] = "send" /\ plan' = plan /\ next' = next /\ asked' = asked /\ pid' = pid
        /\ named' = named /\ reply' = reply /\ pipes' = pipes /\ stops' = stops
        /\ \/ pc'[x] = "wait" /\ error' = error
           \/ pc'[x] = "raised" /\ error'[x] = "ValueError"
    BY <1>0, <1>2 DEF TypeOK, Send
  <2>2. reply[x] = NoAnswer /\ reply[x].kind = "none"
    BY <1>0, <2>1 DEF StopOK, NoAnswer
  <2>3. ASSUME InRun(x) PROVE SubmitOK(x)'
    <3>1. SubmitOK(x) /\ (Has(x, next[x] - 1))' = Has(x, next[x] - 1) /\ CreatedBy(x)' = CreatedBy(x)
      BY <1>0, <2>1, <2>3 DEF RunOK, Has, CreatedBy, Creator
    <3>2. QED
      BY <2>1, <2>2, <3>1 DEF SubmitOK
  <2>4. HandleOK(x)'
    BY <1>0, <2>1 DEF RunOK, HandleOK, HoldsHandle, InRun, CreatedBy, Creator
  <2>5. QED
    BY <1>0, <2>1, <2>2, <2>3, <2>4 DEF RunOK, StopOK, InRun, NoAnswer
<1>3. QED
  BY <1>1, <1>2

\* An answer arrives.
LEMMA RunReceive ==
  ASSUME IInv, NEW c \in Callers, Receive(c), NEW x \in Runs
  PROVE  RunOK(x)' /\ StopOK(x)'
<1>0. TypeOK /\ RunOK(x) /\ StopOK(x) /\ x \in Callers
  BY DEF IInv, Callers
<1>a. /\ pipes' = pipes /\ stops' = stops /\ plan' = plan /\ asked' = asked
      /\ CreatedBy(x)' = CreatedBy(x) /\ (InRun(x)' <=> InRun(x))
      /\ \A n \in Nat : Has(x, n)' <=> Has(x, n)
  BY DEF Receive, engineVars, CreatedBy, Creator, Has, InRun
<1> USE DEF Goto
<1>1. CASE x # c
  <2>1. Same(x) /\ reply'[x] = reply[x]
    BY <1>0, <1>1 DEF TypeOK, Same, Receive, RaiseConduitError, RaiseDecodeError, Advance, engineVars
  <2>2. QED
    BY <1>0, <1>a, <2>1, RunFrame
<1>2. ASSUME x = c, InRun(x), reply[x].kind = "ok", ~LastOfPlan(x)
      PROVE  RunOK(x)' /\ StopOK(x)'
  <2>1. /\ pc[x] = "wait" /\ pc'[x] = "send" /\ next'[x] = next[x] + 1 /\ error' = error
        /\ pid'[x] = IF next[x] = 1 THEN reply[x].id ELSE pid[x]
        /\ reply'[x] = NoAnswer
    BY <1>0, <1>2 DEF TypeOK, Receive, Advance
  <2>2. /\ SubmitOK(x) /\ plan[x] \in Plans /\ next[x] \in 1..Len(plan[x])
        /\ Has(x, next[x]) /\ reply[x].id \in CreatedBy(x) /\ error[x] # "ConduitError"
    BY <1>0, <1>2, <2>1 DEF RunOK, SubmitOK
  <2>3. Len(plan[x]) \in Nat
    BY <2>2, RunAssumption
  <2>4. next[x] + 1 \in 1..Len(plan[x]) /\ next[x] + 1 # 1 /\ (next[x] + 1) - 1 = next[x]
    BY <1>2, <2>2, <2>3 DEF LastOfPlan
  <2>5. pid'[x] \in CreatedBy(x) /\ pid'[x] # NoId
    BY <2>1, <2>2, RunAssumption DEF SubmitOK, CreatedBy
  <2>6. (Has(x, next[x] - 1))'
    <3>1. next'[x] - 1 = next[x] /\ next[x] \in Nat
      BY <2>1, <2>2
    <3>2. QED
      BY <1>a, <2>2, <3>1 DEF Has
  <2>7. SubmitOK(x)'
    BY <1>a, <2>1, <2>2, <2>4, <2>5, <2>6 DEF SubmitOK
  <2>8. QED
    BY <1>0, <1>2, <1>a, <2>1, <2>7 DEF RunOK, HandleOK, HoldsHandle, InRun, StopOK, NoAnswer
<1>3. ASSUME x = c, InRun(x), reply[x].kind = "ok", LastOfPlan(x)
      PROVE  RunOK(x)' /\ StopOK(x)'
  <2>1. /\ pc[x] = "wait" /\ pc'[x] = "returned" /\ next' = next /\ error' = error
        /\ pid'[x] = IF next[x] = 1 THEN reply[x].id ELSE pid[x]
        /\ named'[x] = pid'[x] /\ reply'[x] = NoAnswer
    BY <1>0, <1>3 DEF TypeOK, Receive, Advance
  <2>2. /\ SubmitOK(x) /\ next[x] \in Nat
        /\ Has(x, next[x]) /\ reply[x].id \in CreatedBy(x) /\ error[x] # "ConduitError"
    BY <1>0, <1>3, <2>1 DEF RunOK, SubmitOK, TypeOK
  <2>3. pid'[x] \in CreatedBy(x) /\ pid'[x] # NoId
    BY <2>1, <2>2, RunAssumption DEF SubmitOK, CreatedBy
  <2>4. Len(pipes[pid'[x]]) = Len(plan[x])
    BY <1>3, <2>2, <2>3 DEF Has, LastOfPlan
  <2>5. SubmitOK(x)'
    BY <1>a, <2>1, <2>2, <2>3 DEF SubmitOK
  <2>6. HandleOK(x)'
    BY <1>a, <2>1, <2>3, <2>4 DEF HandleOK
  <2>7. QED
    BY <1>0, <1>3, <1>a, <2>1, <2>5, <2>6 DEF RunOK, InRun, StopOK, NoAnswer
<1>4. ASSUME x = c, ~InRun(x), reply[x].kind = "ok"
      PROVE  RunOK(x)' /\ StopOK(x)'
  <2>1. /\ pc[x] = "wait" /\ pc'[x] = "returned" /\ named' = named /\ reply'[x] = NoAnswer
    BY <1>0, <1>4 DEF TypeOK, Receive
  <2>2. HandleOK(x)' /\ asked[x] \subseteq stops[named[x]]
    BY <1>0, <1>4, <1>a, <2>1 DEF RunOK, HandleOK, HoldsHandle, StopOK, InRun
  <2>3. QED
    BY <1>0, <1>4, <1>a, <2>1, <2>2 DEF RunOK, StopOK, NoAnswer
<1>5. ASSUME x = c, reply[x].kind = "rejected" PROVE RunOK(x)' /\ StopOK(x)'
  <2>1. /\ pc[x] = "wait" /\ pc'[x] = "raised" /\ next' = next /\ pid' = pid
        /\ InRun(x) /\ error'[x] = "ConduitError" => named'[x] = pid[x]
        /\ ~InRun(x) => named'[x] = named[x]
    BY <1>0, <1>5 DEF TypeOK, Receive, RaiseConduitError, RaiseDecodeError, NamedOnError
  <2>2. ASSUME InRun(x) PROVE SubmitOK(x)'
    <3>1. SubmitOK(x) /\ Has(x, next[x] - 1)
      BY <1>0, <1>5, <2>1, <2>2 DEF RunOK, SubmitOK
    <3>2. (Has(x, next[x] - 1))'
      BY <1>a, <2>1, <3>1 DEF Has
    <3>3. QED
      BY <1>a, <2>1, <2>2, <3>1, <3>2 DEF SubmitOK
  <2>3. HandleOK(x)'
    BY <1>0, <1>a, <2>1 DEF RunOK, HandleOK, HoldsHandle
  <2>4. QED
    BY <1>0, <1>a, <2>1, <2>2, <2>3 DEF RunOK, StopOK
<1>6. QED
  BY <1>1, <1>2, <1>3, <1>4, <1>5 DEF Receive

\* A call gives up; what it sent may have taken effect or not.
LEMMA RunGiveUp ==
  ASSUME IInv, NEW c \in Callers, GiveUp(c), NEW x \in Runs
  PROVE  RunOK(x)' /\ StopOK(x)'
<1>0. TypeOK /\ RunOK(x) /\ StopOK(x) /\ x \in Callers
  BY DEF IInv, Callers
<1>a. /\ pipes' = pipes /\ stops' = stops /\ plan' = plan /\ asked' = asked
      /\ next' = next /\ pid' = pid
      /\ CreatedBy(x)' = CreatedBy(x) /\ (InRun(x)' <=> InRun(x))
      /\ (Has(x, next[x] - 1))' = Has(x, next[x] - 1) /\ (Has(x, next[x]))' = Has(x, next[x])
  BY DEF GiveUp, engineVars, CreatedBy, Creator, Has, InRun
<1> USE DEF Goto
<1>1. CASE x # c
  <2>1. Same(x) /\ reply'[x] = reply[x]
    BY <1>0, <1>1, <1>a DEF TypeOK, Same, GiveUp, RaiseConduitError
  <2>2. QED
    BY <1>0, <1>a, <2>1, RunFrame
<1>2. CASE x = c
  <2>1. /\ pc[x] = "wait" /\ pc'[x] = "raised"
        /\ InRun(x) => named'[x] = pid[x]
        /\ ~InRun(x) => named'[x] = named[x]
    BY <1>0, <1>2 DEF TypeOK, GiveUp, RaiseConduitError, NamedOnError
  <2>2. ASSUME InRun(x) PROVE SubmitOK(x)'
    <3>1. SubmitOK(x) /\ (Has(x, next[x] - 1) \/ Has(x, next[x]))
      BY <1>0, <2>1, <2>2 DEF RunOK, SubmitOK
    <3>2. QED
      BY <1>a, <2>1, <2>2, <3>1 DEF SubmitOK
  <2>3. HandleOK(x)'
    BY <1>0, <1>a, <2>1 DEF RunOK, HandleOK, HoldsHandle
  <2>4. QED
    BY <1>0, <1>a, <2>1, <2>2, <2>3 DEF RunOK, StopOK
<1>3. QED
  BY <1>1, <1>2

\* What an answer on its way changes.
LEMMA ReplyEffect ==
  ASSUME TypeOK, NEW m, m.by \in Callers, NEW kind, NEW id, Reply(m, kind, id)
  PROVE  /\ \A x \in Callers : x # m.by => reply'[x] = reply[x]
         /\ pc[m.by] # "wait" => reply'[m.by] = reply[m.by]
         /\ pc[m.by] = "wait" => reply'[m.by].kind = kind /\ reply'[m.by].id = id
BY DEF Reply, TypeOK

\* The engine carries out a request.
LEMMA RunCarry ==
  ASSUME IInv, NEW m \in wire, Carry(m), NEW x \in Runs
  PROVE  RunOK(x)' /\ StopOK(x)'
<1>0. TypeOK /\ RunOK(x) /\ StopOK(x) /\ x \in Callers /\ x # Main /\ WireOK(m)
  BY RunAssumption DEF IInv, Callers
<1>a. /\ Same(x) /\ (InRun(x)' <=> InRun(x)) /\ (HoldsHandle(x)' <=> HoldsHandle(x))
      /\ plan' = plan /\ next' = next /\ m.by \in Callers
  BY WireCall DEF Carry, callVars, Same, InRun, HoldsHandle
<1>b. /\ m.by # x => reply'[x] = reply[x]
      /\ m.by = x => pc[x] \in {"wait", "raised"} /\ reply[x] = NoAnswer
      /\ m.by = x /\ pc[x] # "wait" => reply'[x] = reply[x]
  <2>1. PICK id \in Ids \cup {NoId} : Reply(m, "ok", id)
    BY WireCall DEF Carry
  <2>2. QED
    BY <1>0, <1>a, <2>1, ReplyEffect DEF WireOK
<1>1. CASE m.by = Main /\ UNCHANGED engineVars
  BY <1>0, <1>1, <1>a, <1>b, RunFrame DEF engineVars
<1>2. ASSUME NEW f \in BOOLEAN, m.by # Main, m.req = StopPipeline(f),
             stops' = [stops EXCEPT ![m.id] = @ \cup {f}],
             Reply(m, "ok", m.id), pipes' = pipes
      PROVE  RunOK(x)' /\ StopOK(x)'
  <2>1. /\ m.by \in Runs /\ ~InRun(m.by) /\ asked[m.by] = {f} /\ m.id = named[m.by]
    BY <1>2, WireCall
  <2>2. /\ \A id \in Ids : stops[id] \subseteq stops'[id]
        /\ m.id \in Ids => f \in stops'[m.id]
    BY <1>0, <1>2 DEF TypeOK
  <2>3. HandleOK(x) /\ HandleOK(x)' /\ HandleOK(m.by)
    BY <1>0, <1>2, <1>a, <2>1 DEF IInv, RunOK, HandleOK, CreatedBy, Creator, Same
  <2>4. m.id \in Ids
    BY <2>1, <2>3 DEF HandleOK, HoldsHandle, CreatedBy
  <2>5. ~InRun(x) => named[x] \in Ids
    BY <2>3 DEF HandleOK, HoldsHandle, CreatedBy
  <2>6. InRun(x) => SubmitOK(x)'
    <3> SUFFICES ASSUME InRun(x) PROVE SubmitOK(x)'
      OBVIOUS
    <3>1. m.by # x /\ SubmitOK(x)
      BY <1>0, <2>1 DEF RunOK
    <3>2. QED
      BY <1>2, <1>a, <1>b, <3>1 DEF SubmitOK, Same, Has, CreatedBy, Creator, NoAnswer
  <2>7. StopOK(x)'
    <3>1. CASE m.by = x
      BY <1>0, <1>a, <1>b, <2>1, <2>2, <2>4, <3>1, ZenonT(30) DEF StopOK, Same, InRun, NoAnswer
    <3>2. CASE m.by # x
      BY <1>0, <1>a, <1>b, <2>2, <2>5, <3>2 DEF StopOK, Same, InRun, NoAnswer
    <3>3. QED
      BY <3>1, <3>2
  <2>8. QED
    BY <1>a, <2>3, <2>6, <2>7 DEF RunOK
<1>3. ASSUME NEW id \in Ids, Enacts(m, id), Reply(m, "ok", id), stops' = stops
      PROVE  RunOK(x)' /\ StopOK(x)'
  <2>1. Enacted(m.by, id)
    BY <1>3, CarryEffect
  <2>2. CASE m.by = x
    <3>1. /\ InRun(x) /\ plan[x] \in Plans /\ next[x] \in 1..Len(plan[x])
          /\ CreatedBy(x) \subseteq {id} /\ CreatedBy(x)' = {id}
          /\ \A k \in Nat : k = next[x] => Has(x, k)'
      BY <2>1, <2>2 DEF Enacted
    <3>2. next[x] \in Nat
      BY <3>1
    <3>3. (Has(x, next[x]))'
      BY <1>a, <3>1, <3>2 DEF Has
    <3>4. pc[x] = "wait" => reply'[x].kind = "ok" /\ reply'[x].id = id
      BY <1>0, <1>3, <2>2, ReplyEffect
    <3>5. SubmitOK(x) /\ pc[x] \in {"wait", "raised"}
      BY <1>0, <1>b, <2>2, <3>1 DEF RunOK
    <3>6. SubmitOK(x)'
      BY <1>a, <3>1, <3>3, <3>4, <3>5 DEF SubmitOK, Same
    <3>7. QED
      BY <1>0, <1>a, <1>b, <2>2, <3>1, <3>5, <3>6 DEF RunOK, HandleOK, HoldsHandle, InRun, StopOK, Same
  <2>3. CASE m.by # x
    <3>1. /\ CreatedBy(x)' = CreatedBy(x) /\ id \notin CreatedBy(x)
          /\ \A k \in Nat : Has(x, k)' = Has(x, k)
          /\ \A jd \in Ids \ {id} : pipes'[jd] = pipes[jd]
      BY <2>1, <2>3 DEF Enacted
    <3>2. next[x] \in Nat /\ next[x] - 1 \in Nat
      BY <1>0 DEF TypeOK
    <3>3. (Has(x, next[x]))' = Has(x, next[x]) /\ (Has(x, next[x] - 1))' = Has(x, next[x] - 1)
      BY <1>a, <3>1, <3>2 DEF Has
    <3>4. SubmitOK(x)' = SubmitOK(x)
      BY <1>a, <1>b, <2>3, <3>1, <3>3 DEF SubmitOK, Same, NoAnswer
    <3>5. HandleOK(x)'
      BY <1>0, <1>a, <3>1 DEF RunOK, HandleOK, Same, CreatedBy
    <3>6. StopOK(x)'
      BY <1>0, <1>3, <1>a, <1>b, <2>3 DEF StopOK, Same, NoAnswer
    <3>7. QED
      BY <1>0, <1>a, <3>4, <3>5, <3>6 DEF RunOK
  <2>4. QED
    BY <2>2, <2>3
<1>4. QED
  <2>1. m.by # Main \/ (m.by = Main /\ UNCHANGED engineVars)
    <3>1. m.by = Main => \A f \in BOOLEAN : m.req # StopPipeline(f)
      BY <1>0 DEF WireOK, GetInfo, StopPipeline
    <3>2. m.by = Main => m.req \notin Request
      BY RunAssumption, WireCall
    <3>3. QED
      BY <3>1, <3>2 DEF Carry
  <2>2. QED
    BY <1>1, <1>2, <1>3, <2>1 DEF Carry, Enacts

\* The engine rejects a request.
LEMMA RunReject ==
  ASSUME IInv, NEW m \in wire, Reject(m), NEW x \in Runs
  PROVE  RunOK(x)' /\ StopOK(x)'
<1>0. TypeOK /\ RunOK(x) /\ StopOK(x) /\ x \in Callers /\ x # Main /\ WireOK(m) /\ m.by \in Callers
  BY RunAssumption, WireCall DEF IInv, Callers
<1>1. Same(x) /\ pipes' = pipes /\ stops' = stops /\ Reply(m, "rejected", NoId)
  BY DEF Reject, callVars, engineVars, Same
<1>2. CASE m.by # x \/ pc[x] # "wait"
  BY <1>0, <1>1, <1>2, ReplyEffect, RunFrame
<1>3. CASE m.by = x /\ pc[x] = "wait"
  <2>1. reply'[x].kind = "rejected" /\ reply[x].kind # "ok"
    BY <1>0, <1>1, <1>3, ReplyEffect DEF WireOK, NoAnswer
  <2>2. InRun(x) => SubmitOK(x)'
    BY <1>0, <1>1, <1>3, <2>1 DEF RunOK, SubmitOK, Same, Has, CreatedBy, Creator
  <2>3. HandleOK(x)' /\ StopOK(x)'
    BY <1>0, <1>1, <1>3, <2>1 DEF RunOK, HandleOK, HoldsHandle, InRun, StopOK, Same, CreatedBy, Creator
  <2>4. QED
    BY <1>1, <2>2, <2>3 DEF RunOK, InRun, Same
<1>4. QED
  BY <1>2, <1>3

\* Every step keeps every run as it should be.
LEMMA RunStep ==
  ASSUME IInv, [Next]_vars, NEW x \in Runs
  PROVE  RunOK(x)' /\ StopOK(x)'
<1>0. TypeOK /\ RunOK(x) /\ StopOK(x) /\ x # Main
  BY RunAssumption DEF IInv
<1>1. ASSUME NEW b \in BOOLEAN, Connect(b) PROVE RunOK(x)' /\ StopOK(x)'
  <2>1. Same(x) /\ reply' = reply /\ pipes' = pipes /\ stops' = stops
    BY <1>0, <1>1 DEF Connect, Goto, engineVars, Same, TypeOK
  <2>2. QED
    BY <1>0, <2>1, RunFrame
<1>2. CASE UNCHANGED <<callVars, reply, engineVars>>
  BY <1>0, <1>2, RunFrame DEF callVars, engineVars, Same
<1>3. QED
  BY <1>1, <1>2, RunCalled, RunSend, RunReceive, RunGiveUp, RunCarry, RunReject, RunAssumption
  DEF Next, Proceed, Work, Close, Lose, vars

-----------------------------------------------------------------------------
\* A request stays what it was while its call and the logs stay as they are.
LEMMA WireFrame ==
  ASSUME NEW m, WireOK(m),
         m.by # Main => /\ Same(m.by) /\ reply'[m.by] = reply[m.by]
                        /\ CreatedBy(m.by)' = CreatedBy(m.by)
                        /\ (Has(m.by, next[m.by] - 1))' = Has(m.by, next[m.by] - 1)
  PROVE  WireOK(m)'
BY DEF WireOK, Same, InRun, NoAnswer

LEMMA WireFrameLogs ==
  ASSUME NEW m, WireOK(m), pipes' = pipes, m.by # Main => Same(m.by) /\ reply'[m.by] = reply[m.by]
  PROVE  WireOK(m)'
<1>1. m.by # Main => /\ CreatedBy(m.by)' = CreatedBy(m.by)
                     /\ (Has(m.by, next[m.by] - 1))' = Has(m.by, next[m.by] - 1)
  BY DEF Same, Has, CreatedBy, Creator
<1>2. QED
  BY <1>1, WireFrame

\* A call that sends has nothing else on the wire that could still be answered.
LEMMA WireSend ==
  ASSUME IInv, NEW c \in Callers, Send(c), NEW m \in wire'
  PROVE  WireOK(m)'
<1>0. TypeOK /\ (\A r \in Runs : RunOK(r) /\ StopOK(r)) /\ \A w \in wire : WireOK(w)
  BY DEF IInv
<1>a. /\ pipes' = pipes /\ reply' = reply /\ plan' = plan /\ next' = next /\ asked' = asked
      /\ pid' = pid /\ named' = named /\ pc[c] = "send"
      /\ \A x \in Callers : x # c => pc'[x] = pc[x] /\ error'[x] = error[x]
  BY <1>0 DEF Send, Goto, engineVars, TypeOK
<1>1. CASE m \in wire
  <2>1. m.by \in Callers /\ WireOK(m)
    BY <1>0, <1>1, WireCall
  <2>2. m.by # Main => m.by # c
    BY <1>a, <2>1 DEF WireOK
  <2>3. QED
    BY <1>a, <2>1, <2>2, WireFrameLogs DEF Same
<1>2. CASE m \notin wire
  <2>1. pc'[c] = "wait" /\ m = [by |-> c, id |-> Target(c), req |-> Current(c)]
    BY <1>0, <1>2 DEF Send, Goto, TypeOK
  <2>2. m.by = c /\ m.id = Target(c) /\ m.req = Current(c)
    BY <2>1
  <2>3. CASE c = Main
    BY <2>2, <2>3 DEF WireOK, Current
  <2>4. CASE c # Main
    <3>1. c \in Runs /\ RunOK(c) /\ StopOK(c)
      BY <1>0, <2>4 DEF Callers
    <3>2. reply[c] = NoAnswer
      BY <1>a, <3>1 DEF StopOK
    <3>3. InRun(c)' = InRun(c)
      BY <1>a DEF InRun
    <3>4. CASE InRun(c)
      <4>1. /\ plan[c] \in Plans /\ next[c] \in 1..Len(plan[c])
            /\ next[c] = 1 <=> pid[c] = NoId
            /\ Has(c, next[c] - 1)
        BY <1>a, <3>1, <3>4 DEF RunOK, SubmitOK
      <4>2. (Has(c, next[c] - 1))'
        BY <1>a, <4>1 DEF Has, CreatedBy, Creator
      <4>3. m.id = pid[c] /\ m.req = plan[c][next[c]]
        BY <2>2, <2>4, <3>4 DEF Target, Current
      <4>4. QED
        BY <1>a, <2>1, <2>2, <2>4, <3>2, <3>3, <3>4, <4>1, <4>2, <4>3 DEF WireOK, NoAnswer
    <3>5. CASE ~InRun(c)
      <4>1. m.id = named[c] /\ m.req = StopPipeline(TRUE \in asked[c])
        BY <2>2, <2>4, <3>5 DEF Target, Current
      <4>2. QED
        BY <1>a, <2>1, <2>2, <2>4, <3>2, <3>3, <3>5, <4>1 DEF WireOK, NoAnswer, StopPipeline
    <3>6. QED
      BY <3>4, <3>5
  <2>5. QED
    BY <2>3, <2>4
<1>3. QED
  BY <1>1, <1>2

\* A call that ends leaves on the wire what it sent.
LEMMA WireEnd ==
  ASSUME IInv, NEW c \in Callers, Receive(c) \/ GiveUp(c), NEW m \in wire'
  PROVE  WireOK(m)'
<1>0. TypeOK /\ m \in wire /\ WireOK(m) /\ m.by \in Callers
  BY WireCall DEF IInv, Receive, GiveUp
<1>a. pipes' = pipes
  BY DEF Receive, GiveUp, engineVars
<1>1. CASE m.by # c \/ c = Main
  <2>1. m.by # Main => Same(m.by) /\ reply'[m.by] = reply[m.by]
    BY <1>0, <1>1 DEF Receive, GiveUp, Advance, RaiseConduitError, RaiseDecodeError, Goto, Same, TypeOK, Callers
  <2>2. QED
    BY <1>0, <1>a, <2>1, WireFrameLogs
<1>2. CASE m.by = c /\ c # Main
  <2>1. GiveUp(c) /\ c \in Runs
    BY <1>0, <1>2 DEF WireOK, Receive, NoAnswer, Callers
  <2>2. /\ pc'[c] = "raised" /\ reply'[c] = NoAnswer /\ plan' = plan /\ next' = next
        /\ asked' = asked /\ pid' = pid /\ (~InRun(c) => named'[c] = named[c])
    BY <1>0, <2>1 DEF GiveUp, RaiseConduitError, Goto, TypeOK
  <2>3. CreatedBy(c)' = CreatedBy(c) /\ (Has(c, next[c] - 1))' = Has(c, next[c] - 1)
    BY <1>a, <2>2 DEF CreatedBy, Creator, Has
  <2>4. InRun(c)' = InRun(c)
    BY <2>2 DEF InRun
  <2>5. QED
    BY <1>0, <1>2, <2>2, <2>3, <2>4 DEF WireOK, NoAnswer
<1>3. QED
  BY <1>1, <1>2

\* A call has one request on the wire at most.
LEMMA OnePerCall ==
  ASSUME IInv, NEW m \in wire, NEW w \in wire, m.by = w.by, m.by # Main
  PROVE  m = w
<1>1. WireOK(m) /\ WireOK(w) /\ m \in Message /\ w \in Message
  BY DEF IInv, TypeOK
<1>2. m.id = w.id /\ m.req = w.req
  BY <1>1 DEF WireOK
<1>3. QED
  BY <1>1, <1>2 DEF Message

\* What leaves the wire touches only its own call.
LEMMA WireLeaves ==
  ASSUME IInv, NEW m \in wire, Carry(m) \/ Reject(m) \/ Lose(m), NEW w \in wire'
  PROVE  WireOK(w)'
<1>0. TypeOK /\ w \in wire /\ w # m /\ WireOK(w) /\ m.by \in Callers /\ w.by \in Callers
  BY WireCall DEF IInv, Carry, Reject, Lose
<1>1. w.by # Main => m.by # w.by
  BY <1>0, OnePerCall
<1>2. w.by # Main => Same(w.by)
  BY DEF Carry, Reject, Lose, callVars, Same
<1>3. w.by # Main => reply'[w.by] = reply[w.by]
  <2>1. reply' = reply \/ \E kind \in {"ok", "rejected"}, id \in Ids \cup {NoId} : Reply(m, kind, id)
    BY WireCall DEF Carry, Reject, Lose
  <2>2. QED
    BY <1>0, <1>1, <2>1, ReplyEffect
<1>4. CASE pipes' = pipes
  BY <1>0, <1>2, <1>3, <1>4, WireFrameLogs
<1>5. ASSUME NEW id \in Ids, Enacts(m, id) PROVE WireOK(w)'
  <2>1. Enacted(m.by, id)
    BY <1>5, CarryEffect
  <2>2. ASSUME w.by # Main
        PROVE  /\ CreatedBy(w.by)' = CreatedBy(w.by)
               /\ (Has(w.by, next[w.by] - 1))' = Has(w.by, next[w.by] - 1)
    <3>1. w.by \in Runs \ {m.by}
      BY <1>0, <1>1, <2>2 DEF Callers
    <3>2. /\ CreatedBy(w.by)' = CreatedBy(w.by) /\ id \notin CreatedBy(w.by)
          /\ \A k \in Nat : Has(w.by, k)' = Has(w.by, k)
      BY <2>1, <3>1 DEF Enacted
    <3>3. next[w.by] - 1 \in Nat /\ next'[w.by] = next[w.by]
      BY <1>0, <1>2, <2>2, <3>1 DEF TypeOK, Same
    <3>4. QED
      BY <3>2, <3>3 DEF Has
  <2>3. QED
    BY <1>0, <1>2, <1>3, <2>2, WireFrame
<1>6. QED
  BY <1>4, <1>5 DEF Carry, Reject, Lose, engineVars, Enacts

\* Every step keeps what is on the wire as it should be.
LEMMA WireStep ==
  ASSUME IInv, [Next]_vars, NEW m \in wire'
  PROVE  WireOK(m)'
<1>0. TypeOK /\ \A w \in wire : WireOK(w) /\ w.by \in Callers
  BY WireCall DEF IInv
<1>1. ASSUME NEW r \in Runs,
             (\E p \in Plans : Begin(r, p)) \/ Refuse(r) \/ (\E f \in BOOLEAN : Stop(r, f))
      PROVE  WireOK(m)'
  <2>1. m \in wire /\ pipes' = pipes /\ reply' = reply /\ pc[r] \in {"idle", "returned"}
    BY <1>1 DEF Begin, Refuse, Stop, engineVars
  <2>2. m.by # Main => m.by # r
    BY <1>0, <2>1 DEF WireOK
  <2>3. m.by # Main => Same(m.by)
    BY <1>0, <1>1, <2>1, <2>2 DEF Begin, Refuse, Stop, Goto, Same, TypeOK, Callers
  <2>4. QED
    BY <1>0, <2>1, <2>3, WireFrameLogs
<1>2. ASSUME NEW b \in BOOLEAN, Connect(b) PROVE WireOK(m)'
  <2>1. m \in wire /\ pipes' = pipes /\ reply' = reply
    BY <1>2 DEF Connect, engineVars
  <2>2. m.by # Main => Same(m.by)
    BY <1>0, <1>2, <2>1 DEF Connect, Goto, Same, TypeOK
  <2>3. QED
    BY <1>0, <2>1, <2>2, WireFrameLogs
<1>3. CASE UNCHANGED <<callVars, wire, reply, engineVars>>
  BY <1>0, <1>3, WireFrameLogs DEF callVars, engineVars, Same
<1>4. QED
  BY <1>1, <1>2, <1>3, WireSend, WireEnd, WireLeaves, RunAssumption
  DEF Next, Proceed, Work, Close, vars

-----------------------------------------------------------------------------
\* A handle is never taken back, nor what was asked of it.
LEMMA HandlesStay ==
  ASSUME IInv, [Next]_vars, NEW r \in Runs
  PROVE  (HoldsHandle(r) => HoldsHandle(r)') /\ asked[r] \subseteq asked'[r]
<1>0. TypeOK /\ r # Main /\ r \in Callers
  BY RunAssumption DEF IInv, Callers
<1> USE DEF HoldsHandle, InRun, Goto, callVars
<1>1. ASSUME NEW x \in Runs,
             (\E p \in Plans : Begin(x, p)) \/ Refuse(x) \/ (\E f \in BOOLEAN : Stop(x, f))
      PROVE  (HoldsHandle(r) => HoldsHandle(r)') /\ asked[r] \subseteq asked'[r]
  <2>1. ASSUME Refuse(x) \/ \E p \in Plans : Begin(x, p)
        PROVE  asked' = asked /\ (pc'[r] # pc[r] => pc[r] = "idle")
    BY <1>0, <2>1 DEF Begin, Refuse, TypeOK
  <2>2. ASSUME NEW f \in BOOLEAN, Stop(x, f)
        PROVE  IF x = r THEN asked[r] = {} /\ asked'[r] = {f}
               ELSE asked'[r] = asked[r] /\ pc'[r] = pc[r]
    BY <1>0, <2>2 DEF Stop, TypeOK
  <2>3. QED
    BY <1>1, <2>1, <2>2
<1>2. ASSUME NEW b \in BOOLEAN, Connect(b)
      PROVE  (HoldsHandle(r) => HoldsHandle(r)') /\ asked[r] \subseteq asked'[r]
  BY <1>0, <1>2 DEF Connect, TypeOK
<1>3. ASSUME NEW c \in Callers, Work(c)
      PROVE  (HoldsHandle(r) => HoldsHandle(r)') /\ asked[r] \subseteq asked'[r]
  <2>1. asked' = asked /\ (pc'[r] # pc[r] => pc[r] \in {"send", "wait"})
    BY <1>0, <1>3 DEF Work, Send, Receive, GiveUp, RaiseConduitError, RaiseDecodeError, Advance, TypeOK
  <2>2. QED
    BY <2>1
<1>4. CASE UNCHANGED callVars
  BY <1>4
<1>5. QED
  BY <1>1, <1>2, <1>3, <1>4, RunAssumption DEF Next, Proceed, Close, Carry, Reject, Lose, vars

\* Every step keeps the stops with the handles they were asked of.
LEMMA StopsStep == IInv /\ [Next]_vars => StopsOK'
<1> SUFFICES ASSUME IInv, [Next]_vars PROVE StopsOK'
  OBVIOUS
<1>0. TypeOK /\ StopsOK /\ \A r \in Runs : RunOK(r)
  BY DEF IInv
<1>1. ASSUME stops' = stops, \A r \in Runs : CreatedBy(r) \subseteq CreatedBy(r)'
      PROVE  StopsOK'
  <2> SUFFICES ASSUME NEW id \in Ids, stops'[id] # {}
               PROVE  \E r \in Runs : id \in CreatedBy(r)' /\ HoldsHandle(r)' /\ stops'[id] \subseteq asked'[r]
    BY DEF StopsOK
  <2>1. PICK r \in Runs : id \in CreatedBy(r) /\ HoldsHandle(r) /\ stops[id] \subseteq asked[r]
    BY <1>0, <1>1 DEF StopsOK
  <2>2. HoldsHandle(r)' /\ asked[r] \subseteq asked'[r]
    BY <2>1, HandlesStay
  <2>3. QED
    BY <1>1, <2>1, <2>2
<1>2. CASE UNCHANGED engineVars
  BY <1>1, <1>2 DEF engineVars, CreatedBy, Creator
<1>3. ASSUME NEW m \in wire, NEW id \in Ids, Enacts(m, id), stops' = stops
      PROVE  StopsOK'
  <2>1. Enacted(m.by, id)
    BY <1>3, CarryEffect
  <2>2. ASSUME NEW r \in Runs PROVE CreatedBy(r) \subseteq CreatedBy(r)'
    <3>1. CASE r = m.by
      BY <2>1, <3>1 DEF Enacted
    <3>2. CASE r # m.by
      BY <2>1, <3>2 DEF Enacted
    <3>3. QED
      BY <3>1, <3>2
  <2>3. QED
    BY <1>1, <1>3, <2>2
<1>4. ASSUME NEW m \in wire, m.by # Main, NEW f \in BOOLEAN, m.req = StopPipeline(f),
             stops' = [stops EXCEPT ![m.id] = @ \cup {f}], pipes' = pipes
      PROVE  StopsOK'
  <2>1. PICK q \in Runs : q = m.by
    BY <1>4, WireCall
  <2>2. ~InRun(q) /\ HoldsHandle(q) /\ asked[q] = {f} /\ m.id = named[q] /\ m.id \in CreatedBy(q)
    BY <1>0, <1>4, <2>1, WireCall DEF RunOK, HandleOK, HoldsHandle
  <2>3. \A r \in Runs : CreatedBy(r)' = CreatedBy(r)
    BY <1>4 DEF CreatedBy, Creator
  <2> SUFFICES ASSUME NEW id \in Ids, stops'[id] # {}
               PROVE  \E r \in Runs : id \in CreatedBy(r)' /\ HoldsHandle(r)' /\ stops'[id] \subseteq asked'[r]
    BY DEF StopsOK
  <2>4. CASE id = m.id
    <3>1. stops'[id] = stops[id] \cup {f}
      BY <1>0, <1>4, <2>4 DEF TypeOK
    <3>2. stops[id] \subseteq asked[q]
      <4>1. CASE stops[id] = {}
        BY <4>1
      <4>2. CASE stops[id] # {}
        BY <1>0, <2>2, <2>4, <4>2 DEF StopsOK, CreatedBy
      <4>3. QED
        BY <4>1, <4>2
    <3>3. HoldsHandle(q)' /\ asked[q] \subseteq asked'[q]
      BY <2>2, HandlesStay
    <3>4. QED
      BY <2>2, <2>3, <2>4, <3>1, <3>2, <3>3
  <2>5. CASE id # m.id
    <3>1. stops'[id] = stops[id]
      BY <1>0, <1>4, <2>5 DEF TypeOK
    <3>2. PICK r \in Runs : id \in CreatedBy(r) /\ HoldsHandle(r) /\ stops[id] \subseteq asked[r]
      BY <1>0, <3>1 DEF StopsOK
    <3>3. HoldsHandle(r)' /\ asked[r] \subseteq asked'[r]
      BY <3>2, HandlesStay
    <3>4. QED
      BY <2>3, <3>1, <3>2, <3>3
  <2>6. QED
    BY <2>4, <2>5
<1>5. ASSUME NEW m \in wire, Carry(m) PROVE StopsOK'
  <2>1. m.by = Main => \A f \in BOOLEAN : m.req # StopPipeline(f)
    <3>1. WireOK(m)
      BY DEF IInv
    <3>2. QED
      BY <3>1 DEF WireOK, GetInfo, StopPipeline
  <2>2. QED
    BY <1>2, <1>3, <1>4, <1>5, <2>1 DEF Carry, Enacts
<1>6. QED
  BY <1>2, <1>5 DEF Next, Proceed, Work, Connect, Begin, Refuse, Stop, Send, Receive, GiveUp,
     Close, Reject, Lose, engineVars, vars

-----------------------------------------------------------------------------
\* IInv is inductive.
LEMMA Step == IInv /\ [Next]_vars => IInv'
<1> SUFFICES ASSUME IInv, [Next]_vars PROVE IInv'
  OBVIOUS
<1>1. TypeOK' /\ LogsOK' /\ StopsOK'
  BY TypeStep, LogsStep, StopsStep
<1>2. \A r \in Runs : RunOK(r)' /\ StopOK(r)'
  BY RunStep
<1>3. \A m \in wire' : WireOK(m)'
  BY WireStep
<1>4. QED
  BY <1>1, <1>2, <1>3 DEF IInv

\* A ConduitError of run() names the pipeline once CreatePipeline was answered.
LEMMA ErrorsFollow == IInv => ErrorNamesPipeline
<1> SUFFICES ASSUME IInv, NEW r \in Runs, error[r] = "ConduitError", InRun(r)
             PROVE  IF next[r] > 1 THEN named[r] \in CreatedBy(r)
                    ELSE named[r] = NoId /\ \A id \in CreatedBy(r) : Len(pipes[id]) = 1
  BY DEF ErrorNamesPipeline
<1>1. SubmitOK(r) /\ next[r] \in Nat \ {0}
  BY DEF IInv, RunOK, TypeOK
<1>2. /\ pc[r] = "raised" /\ named[r] = pid[r] /\ (next[r] = 1 <=> pid[r] = NoId)
      /\ Has(r, next[r] - 1) \/ Has(r, next[r])
  BY <1>1 DEF SubmitOK
<1>3. CASE next[r] > 1
  BY <1>1, <1>2, <1>3 DEF SubmitOK
<1>4. CASE next[r] = 1
  BY <1>2, <1>4 DEF Has
<1>5. QED
  BY <1>1, <1>3, <1>4

\* What the invariant says of the properties the runs check.
LEMMA Consequences ==
  IInv => /\ TypeOK /\ AppliedInOrder /\ ReturnedMeansComplete
          /\ ErrorNamesPipeline /\ StopReachesItsRun
<1> SUFFICES ASSUME IInv
             PROVE  TypeOK /\ AppliedInOrder /\ ReturnedMeansComplete /\ StopReachesItsRun
  BY ErrorsFollow
<1>1. TypeOK /\ LogsOK /\ StopsOK /\ \A r \in Runs : RunOK(r) /\ StopOK(r)
  BY DEF IInv
<1>2. AppliedInOrder
  BY <1>1 DEF LogsOK
<1>3. ReturnedMeansComplete
  BY <1>1 DEF RunOK, HandleOK, ReturnedMeansComplete
<1>4. \A r \in Runs : pc[r] = "returned" => asked[r] \subseteq stops[named[r]]
  BY <1>1 DEF StopOK
<1>5. QED
  BY <1>1, <1>2, <1>3, <1>4 DEF StopReachesItsRun, StopsOK

\* However calls, requests and answers interleave, IInv holds.
THEOREM Invariance == Spec => []IInv
<1>1. QED
  BY InitInv, Step, PTL DEF Spec

\* Every variable keeps its type: in particular no error names anything but a
\* pipeline or nothing.
THEOREM TypeCorrect == Spec => []TypeOK
BY Consequences, Invariance, PTL

\* What the engine did to a pipeline is always the beginning of one plan.
THEOREM LogsAreBeginnings == Spec => []AppliedInOrder
BY Consequences, Invariance, PTL

\* run() returns a handle only for a pipeline on which its whole plan was done.
THEOREM ReturnsWhenDone == Spec => []ReturnedMeansComplete
BY Consequences, Invariance, PTL

\* A ConduitError of run() names the pipeline the caller has to look after, and
\* no other, from the answer to CreatePipeline on.
THEOREM ErrorsName == Spec => []ErrorNamesPipeline
BY Consequences, Invariance, PTL

\* stop() reaches the pipeline of its handle, as it was asked, and no other.
THEOREM StopsReach == Spec => []StopReachesItsRun
BY Consequences, Invariance, PTL

-----------------------------------------------------------------------------
\* Whoever was called has an open channel, if nobody may close it, and no answer
\* fails to parse.
OpenOK ==
  \A c \in Callers : (pc[c] # "idle" => open) /\ error[c] \notin {"ValueError", "DecodeError"}

\* Only connect() is called before the channel is open.
LEMMA OpenStep ==
  ASSUME ~MayClose, ~Garbled, TypeOK, OpenOK, [Next]_vars
  PROVE  OpenOK'
<1> USE DEF OpenOK, Goto, TypeOK, Callers
<1>1. ASSUME NEW b \in BOOLEAN, Connect(b) PROVE OpenOK'
  BY <1>1 DEF Connect
<1>2. ASSUME NEW r \in Runs, (\E p \in Plans : Begin(r, p)) \/ Refuse(r) \/ (\E f \in BOOLEAN : Stop(r, f))
      PROVE  OpenOK'
  BY <1>2 DEF Begin, Refuse, Stop
<1>3. ASSUME NEW c \in Callers, Work(c) PROVE OpenOK'
  BY <1>3 DEF Work, Send, Receive, GiveUp, Advance, RaiseConduitError, RaiseDecodeError
<1>4. CASE UNCHANGED <<callVars, open>>
  BY <1>4 DEF callVars
<1>5. QED
  BY <1>1, <1>2, <1>3, <1>4, RunAssumption DEF Next, Proceed, Close, Carry, Reject, Lose, vars

\* There are two ways only in which an RPC of connect(), run() or stop() can end
\* in an exception other than the ConduitError that is documented: the client is
\* closed under it, or the details of the engine's error do not parse.  Without
\* them every failure is a ConduitError, whatever the engine and the network do.
THEOREM ConduitErrorsOnly ==
  ASSUME ~MayClose, ~Garbled
  PROVE  Spec => []OnlyConduitErrors
<1>1. Init => OpenOK
  BY DEF Init, OpenOK
<1>2. TypeOK /\ OpenOK /\ [Next]_vars => OpenOK'
  BY OpenStep
<1>3. OpenOK => OnlyConduitErrors
  BY DEF OpenOK, OnlyConduitErrors
<1>4. QED
  BY TypeCorrect, <1>1, <1>2, <1>3, PTL DEF Spec
=============================================================================
