---------------------- MODULE ClientRunRefines_proofs ----------------------
(* ClientRun implements Submission, for any runs, plans and pipeline ids. *)
EXTENDS ClientRun_proofs

outsideVars == <<Totals, Effects, Told, Stragglers>>

\* What the engine has carried out is what is seen as effects.
LEMMA EffectsAre ==
  ASSUME NEW r \in Runs, NEW n \in Nat, Has(r, n)
  PROVE  Effects[r] = n
BY DEF Has, Effects

LEMMA EffectsAreNext ==
  ASSUME NEW r \in Runs, NEW n \in Nat, Has(r, n)'
  PROVE  Effects'[r] = n
BY DEF Has, Effects

\* A step that leaves r's call and requests alone looks the same from outside.
LEMMA OutsideFrame ==
  ASSUME NEW r \in Runs, Same(r), (\E m \in wire' : m.by = r) <=> (\E m \in wire : m.by = r)
  PROVE  Totals'[r] = Totals[r] /\ Told'[r] = Told[r] /\ Stragglers'[r] = Stragglers[r]
BY DEF Totals, Told, Stragglers, HoldsHandle, InRun, Same

\* The calls of run() and stop().
LEMMA CallMaps ==
  ASSUME IInv, NEW r \in Runs,
         (\E p \in Plans : Begin(r, p)) \/ Refuse(r) \/ (\E f \in BOOLEAN : Stop(r, f))
  PROVE  [Outside!Next]_outsideVars
<1>0. TypeOK /\ StopOK(r) /\ r \in Callers /\ \A m \in wire : WireOK(m)
  BY DEF IInv, Callers
<1>1. Effects' = Effects /\ wire' = wire
  <2>1. pipes' = pipes /\ wire' = wire
    BY DEF Begin, Refuse, Stop, engineVars
  <2>2. QED
    BY <2>1 DEF Effects, CreatedBy, Creator
<1>2. ASSUME NEW x \in Runs, x # r
      PROVE  Totals'[x] = Totals[x] /\ Told'[x] = Told[x] /\ Stragglers'[x] = Stragglers[x]
  <2>1. Same(x)
    BY <1>0, <1>2 DEF Begin, Refuse, Stop, Goto, Same, TypeOK, Callers
  <2>2. QED
    BY <1>1, <2>1, OutsideFrame
<1>a. pc[r] # "raised" /\ r # Main /\ \A m \in wire : m.by # r
  BY <1>0, RunAssumption DEF Begin, Refuse, Stop, WireOK
<1>b. Stragglers[r] = FALSE /\ Stragglers'[r] = FALSE
  BY <1>1, <1>a DEF Stragglers
<1>c. Stragglers' = Stragglers
  BY <1>2, <1>b DEF Stragglers
<1>3. ASSUME NEW p \in Plans, Begin(r, p) PROVE Outside!Call(r)
  <2>1. /\ pc[r] = "idle" /\ asked[r] = {} /\ pc'[r] = "send" /\ asked'[r] = {}
        /\ plan'[r] = p
    BY <1>0, <1>3 DEF Begin, Goto, StopOK, TypeOK, AnyPlan
  <2>2. Told[r] = "none" /\ Told'[r] = "busy"
    BY <1>a, <2>1 DEF Told, HoldsHandle, InRun
  <2>3. Totals'[r] \in Nat \ {0}
    BY <2>1, RunAssumption DEF Totals
  <2>4. Told' = [Told EXCEPT ![r] = "busy"] /\ Totals' = [Totals EXCEPT ![r] = Totals'[r]]
    BY <1>2, <2>2 DEF Told, Totals
  <2>5. QED
    BY <1>1, <1>c, <2>2, <2>3, <2>4 DEF Outside!Call
<1>4. CASE Refuse(r)
  <2>1. pc[r] = "idle" /\ asked[r] = {} /\ pc'[r] = "raised" /\ asked'[r] = {} /\ plan' = plan
    BY <1>0, <1>4 DEF Refuse, Goto, StopOK, TypeOK
  <2>2. Told[r] = "none" /\ Told'[r] = "error"
    BY <1>a, <2>1 DEF Told, HoldsHandle, InRun
  <2>3. Told' = [Told EXCEPT ![r] = "error"] /\ Totals' = Totals
    BY <1>2, <2>1, <2>2 DEF Told, Totals
  <2>4. Outside!Refuse(r)
    BY <1>1, <1>c, <2>2, <2>3 DEF Outside!Refuse
  <2>5. QED
    BY <2>4 DEF Outside!Next
<1>5. ASSUME NEW f \in BOOLEAN, Stop(r, f) PROVE UNCHANGED outsideVars
  <2>1. pc[r] = "returned" /\ asked'[r] = {f} /\ plan' = plan
    BY <1>0, <1>5 DEF Stop, TypeOK
  <2>2. Told[r] = "ok" /\ Told'[r] = "ok"
    BY <1>a, <2>1 DEF Told, HoldsHandle, InRun
  <2>3. Told' = Told /\ Totals' = Totals
    BY <1>2, <2>1, <2>2 DEF Told, Totals
  <2>4. QED
    BY <1>1, <1>c, <2>3 DEF outsideVars
<1>6. QED
  BY <1>3, <1>4, <1>5 DEF Outside!Next

\* What a call does once made: it goes on, succeeds, or fails.
LEMMA WorkMaps ==
  ASSUME IInv, NEW c \in Callers, Work(c)
  PROVE  [Outside!Next]_outsideVars
<1>0. TypeOK /\ \A r \in Runs : RunOK(r) /\ StopOK(r)
  BY DEF IInv
<1>1. Effects' = Effects /\ Totals' = Totals /\ asked' = asked
  <2>1. pipes' = pipes /\ plan' = plan /\ asked' = asked
    BY DEF Work, Send, Receive, GiveUp, engineVars
  <2>2. QED
    BY <2>1 DEF Effects, CreatedBy, Creator, Totals
<1>2. ASSUME NEW x \in Runs, x # c
      PROVE  Told'[x] = Told[x] /\ Stragglers'[x] = Stragglers[x]
  <2>1. Same(x)
    BY <1>0, <1>2 DEF Work, Send, Receive, GiveUp, Advance, RaiseConduitError, RaiseDecodeError, Goto, Same, TypeOK, Callers
  <2>2. (\E m \in wire' : m.by = x) <=> (\E m \in wire : m.by = x)
    BY <1>2 DEF Work, Send, Receive, GiveUp
  <2>3. QED
    BY <2>1, <2>2, OutsideFrame
<1>3. CASE c = Main
  <2>1. Told' = Told /\ Stragglers' = Stragglers
    BY <1>2, <1>3, RunAssumption DEF Told, Stragglers
  <2>2. QED
    BY <1>1, <2>1 DEF outsideVars
<1>4. CASE c \in Runs
  <2>1. pc[c] \in {"send", "wait"} /\ pc'[c] \in {"send", "wait", "returned", "raised"}
    BY <1>0 DEF Work, Send, Receive, GiveUp, Advance, RaiseConduitError, RaiseDecodeError, Goto, TypeOK
  <2>2. Stragglers[c] = FALSE
    BY <1>4, <2>1 DEF Stragglers
  <2>3. CASE ~InRun(c)
    <3>1. Told[c] = "ok" /\ Told'[c] = "ok" /\ Stragglers'[c] = FALSE
      BY <1>1, <1>4, <2>3 DEF Told, HoldsHandle, Stragglers, InRun
    <3>2. Told' = Told /\ Stragglers' = Stragglers
      BY <1>2, <1>4, <2>2, <3>1 DEF Told, Stragglers
    <3>3. QED
      BY <1>1, <3>2 DEF outsideVars
  <2>4. CASE InRun(c) /\ pc'[c] \in {"send", "wait"}
    <3>1. Told[c] = "busy" /\ Told'[c] = "busy" /\ Stragglers'[c] = FALSE
      BY <1>1, <1>4, <2>1, <2>4 DEF Told, HoldsHandle, Stragglers, InRun
    <3>2. Told' = Told /\ Stragglers' = Stragglers
      BY <1>2, <1>4, <2>2, <3>1 DEF Told, Stragglers
    <3>3. QED
      BY <1>1, <3>2 DEF outsideVars
  <2>5. CASE InRun(c) /\ pc'[c] = "raised"
    <3>1. Told[c] = "busy" /\ Told'[c] = "error" /\ Stragglers'[c] \in BOOLEAN
      BY <1>1, <1>4, <2>1, <2>5 DEF Told, HoldsHandle, Stragglers, InRun
    <3>2. /\ Told' = [Told EXCEPT ![c] = "error"]
          /\ Stragglers' = [Stragglers EXCEPT ![c] = Stragglers'[c]]
      BY <1>2, <1>4, <3>1 DEF Told, Stragglers
    <3>3. Outside!Fail(c)
      BY <1>1, <3>1, <3>2 DEF Outside!Fail
    <3>4. QED
      BY <1>4, <3>3 DEF Outside!Next
  <2>6. CASE InRun(c) /\ pc'[c] = "returned"
    <3>1. Told[c] = "busy" /\ Told'[c] = "ok" /\ Stragglers'[c] = FALSE
      BY <1>1, <1>4, <2>1, <2>6 DEF Told, HoldsHandle, Stragglers, InRun
    <3>2. Told' = [Told EXCEPT ![c] = "ok"] /\ Stragglers' = Stragglers
      BY <1>2, <1>4, <2>2, <3>1 DEF Told, Stragglers
    <3>3. pc[c] = "wait" /\ reply[c].kind = "ok" /\ LastOfPlan(c)
      BY <1>0, <2>6 DEF Work, Send, Receive, GiveUp, Advance, RaiseConduitError, RaiseDecodeError, Goto, TypeOK
    <3>4. Has(c, next[c]) /\ next[c] \in Nat
      BY <1>0, <1>4, <2>6, <3>3 DEF RunOK, SubmitOK, TypeOK
    <3>5. Effects[c] = Totals[c]
      BY <1>4, <3>3, <3>4, EffectsAre DEF LastOfPlan, Totals
    <3>6. Outside!Succeed(c)
      BY <1>1, <3>1, <3>2, <3>5 DEF Outside!Succeed
    <3>7. QED
      BY <1>4, <3>6 DEF Outside!Next
  <2>7. QED
    BY <2>1, <2>3, <2>4, <2>5, <2>6
<1>5. QED
  BY <1>3, <1>4 DEF Callers

\* What leaves the wire: a request takes effect, in time or late, or does not.
LEMMA WireMaps ==
  ASSUME IInv, NEW m \in wire, Carry(m) \/ Reject(m) \/ Lose(m)
  PROVE  [Outside!Next]_outsideVars
<1>0. TypeOK /\ WireOK(m) /\ m.by \in Callers /\ \A r \in Runs : RunOK(r)
  BY WireCall DEF IInv
<1>1. /\ \A r \in Runs : Same(r)
      /\ Totals' = Totals /\ Told' = Told /\ wire' = wire \ {m}
  BY DEF Carry, Reject, Lose, callVars, Same, Totals, Told, HoldsHandle, InRun
<1>2. ASSUME NEW r \in Runs, r # m.by \/ pc[r] # "raised" \/ ~InRun(r)
      PROVE  Stragglers'[r] = Stragglers[r]
  <2>1. r # m.by => ((\E w \in wire' : w.by = r) <=> (\E w \in wire : w.by = r))
    BY <1>1
  <2>2. QED
    BY <1>1, <1>2, <2>1 DEF Stragglers, Same, InRun
<1>3. ASSUME m.by \in Runs, pc[m.by] = "raised", InRun(m.by)
      PROVE  /\ Stragglers[m.by] = TRUE /\ Stragglers'[m.by] = FALSE
             /\ Stragglers' = [Stragglers EXCEPT ![m.by] = FALSE]
  <2>1. Stragglers[m.by] = TRUE
    BY <1>3 DEF Stragglers
  <2>2. ~\E w \in wire' : w.by = m.by
    BY <1>1, <1>3, OnePerCall, RunAssumption
  <2>3. Stragglers'[m.by] = FALSE
    BY <1>3, <2>2 DEF Stragglers
  <2>4. Stragglers' = [Stragglers EXCEPT ![m.by] = Stragglers'[m.by]]
    <3>1. PICK r \in Runs : r = m.by
      BY <1>3
    <3>2. ASSUME NEW x \in Runs, x # r PROVE Stragglers'[x] = Stragglers[x]
      BY <1>2, <3>1, <3>2
    <3>3. Stragglers' = [Stragglers EXCEPT ![r] = Stragglers'[r]]
      BY <2>3, <3>1, <3>2 DEF Stragglers
    <3>4. QED
      BY <3>1, <3>3
  <2>5. QED
    BY <2>1, <2>3, <2>4
<1>4. ASSUME pipes' = pipes PROVE [Outside!Next]_outsideVars
  <2>1. Effects' = Effects
    BY <1>4 DEF Effects, CreatedBy, Creator
  <2>2. CASE m.by \in Runs /\ pc[m.by] = "raised" /\ InRun(m.by)
    <3>1. Outside!Arrive(m.by)
      BY <1>1, <1>3, <2>1, <2>2 DEF Outside!Arrive
    <3>2. QED
      BY <2>2, <3>1 DEF Outside!Next
  <2>3. CASE ~(m.by \in Runs /\ pc[m.by] = "raised" /\ InRun(m.by))
    <3>1. Stragglers' = Stragglers
      BY <1>2, <2>3 DEF Stragglers
    <3>2. QED
      BY <1>1, <2>1, <3>1 DEF outsideVars
  <2>4. QED
    BY <2>2, <2>3
<1>5. ASSUME NEW id \in Ids, Enacts(m, id) PROVE [Outside!Next]_outsideVars
  <2>a. PICK r : r = m.by
    OBVIOUS
  <2>1. Enacted(r, id)
    BY <1>5, <2>a, CarryEffect
  <2>2. /\ r \in Runs /\ r # Main /\ InRun(r) /\ next[r] \in Nat /\ next[r] - 1 \in Nat
        /\ next[r] - 1 < Len(plan[r]) /\ pc[r] \in {"wait", "raised"}
        /\ Has(r, next[r] - 1)
    <3>1. r \in Runs /\ InRun(r) /\ plan[r] \in Plans /\ next[r] \in 1..Len(plan[r])
      BY <2>1 DEF Enacted
    <3>2. Len(plan[r]) \in Nat
      BY <3>1, RunAssumption
    <3>3. QED
      BY <1>0, <2>a, <3>1, <3>2, RunAssumption DEF WireOK
  <2>3. Effects[r] = next[r] - 1 /\ Effects[r] < Totals[r]
    BY <2>2, EffectsAre DEF Totals
  <2>4. Effects'[r] = next[r]
    <3>1. PICK n \in Nat : n = next[r]
      BY <2>2
    <3>2. Has(r, n)'
      BY <2>1, <3>1 DEF Enacted
    <3>3. QED
      BY <2>2, <3>1, <3>2, EffectsAreNext
  <2>5. ASSUME NEW x \in Runs, x # r PROVE Effects'[x] = Effects[x]
    <3>1. CreatedBy(x)' = CreatedBy(x) /\ id \notin CreatedBy(x)
      BY <2>1, <2>5 DEF Enacted
    <3>2. \A jd \in Ids \ {id} : pipes'[jd] = pipes[jd]
      BY <2>1 DEF Enacted
    <3>3. CreatedBy(x) # {} => (CHOOSE jd \in CreatedBy(x) : TRUE) \in Ids \ {id}
      BY <3>1 DEF CreatedBy
    <3>4. QED
      BY <2>5, <3>1, <3>2, <3>3 DEF Effects
  <2>6. Effects' = [Effects EXCEPT ![r] = @ + 1]
    <3>1. Effects'[r] = Effects[r] + 1
      BY <2>2, <2>3, <2>4
    <3>2. QED
      BY <2>2, <2>5, <3>1 DEF Effects
  <2>7. CASE pc[r] = "wait"
    <3>1. Told[r] = "busy"
      BY <2>2, <2>7 DEF Told, HoldsHandle
    <3>2. Stragglers' = Stragglers
      BY <1>2, <2>a, <2>7 DEF Stragglers
    <3>3. Outside!TakeEffect(r)
      BY <1>1, <2>3, <2>6, <3>1, <3>2 DEF Outside!TakeEffect
    <3>4. QED
      BY <2>2, <3>3 DEF Outside!Next
  <2>8. CASE pc[r] = "raised"
    <3>1. Outside!Arrive(r)
      BY <1>1, <1>3, <2>a, <2>2, <2>3, <2>6, <2>8 DEF Outside!Arrive
    <3>2. QED
      BY <2>2, <3>1 DEF Outside!Next
  <2>9. QED
    BY <2>2, <2>7, <2>8
<1>6. QED
  BY <1>4, <1>5 DEF Carry, Reject, Lose, engineVars, Enacts

\* Nothing is seen at first.
LEMMA InitMaps == Init => Outside!Init
<1> SUFFICES ASSUME Init PROVE Outside!Init
  OBVIOUS
<1>1. \A r \in Runs : CreatedBy(r) = {} /\ r \in Callers /\ Len(plan[r]) = 0
  BY DEF Init, CreatedBy, Creator, Callers
<1>2. QED
  BY <1>1 DEF Init, Outside!Init, Totals, Effects, Told, Stragglers, HoldsHandle, InRun

\* Every step is a step of Submission, or cannot be seen from outside.
LEMMA StepMaps == IInv /\ [Next]_vars => [Outside!Next]_outsideVars
<1> SUFFICES ASSUME IInv, [Next]_vars PROVE [Outside!Next]_outsideVars
  OBVIOUS
<1>1. ASSUME NEW b \in BOOLEAN, Connect(b) PROVE UNCHANGED outsideVars
  <2>1. \A r \in Runs : pc'[r] = pc[r]
    BY <1>1, RunAssumption DEF Connect, Goto, IInv, TypeOK, Callers
  <2>2. plan' = plan /\ asked' = asked /\ wire' = wire /\ pipes' = pipes
    BY <1>1 DEF Connect, engineVars
  <2>3. QED
    BY <2>1, <2>2 DEF outsideVars, Totals, Effects, Told, Stragglers, HoldsHandle, InRun, CreatedBy, Creator
<1>2. CASE UNCHANGED <<callVars, wire, engineVars>>
  BY <1>2 DEF callVars, engineVars, outsideVars, Totals, Effects, Told, Stragglers, HoldsHandle,
     InRun, CreatedBy, Creator
<1>3. QED
  BY <1>1, <1>2, CallMaps, WorkMaps, WireMaps, RunAssumption DEF Next, Proceed, Close, vars

\* Seen from outside, run() is a Submission: its requests take effect one by one,
\* success is reported when all have, and after an error one more may arrive.
THEOREM Refinement == Spec => ImplementsSubmission
BY InitMaps, StepMaps, Invariance, PTL
DEF Spec, ImplementsSubmission, Outside!Spec, Outside!subVars, outsideVars
=============================================================================
