----------------------------- MODULE Submission -----------------------------
(***************************************************************************)
(* What Client.run promises about the pipeline it submits: the number of   *)
(* its requests is settled when it is called; they take effect one by one; *)
(* success is only reported when all of them have; and after an error was  *)
(* reported at most one more request can still take effect, the one whose  *)
(* answer the client did not wait for.                                     *)
(***************************************************************************)
EXTENDS Naturals

CONSTANT Runs

VARIABLES
  total,      \* total[r]: the number of requests of run r
  effects,    \* effects[r]: how many requests of r have taken effect
  told,       \* told[r]: "none", "busy", or what the caller was told: "ok", "error"
  straggler   \* straggler[r]: an unanswered request of r may still arrive

subVars == <<total, effects, told, straggler>>

Init ==
  /\ total = [r \in Runs |-> 0]
  /\ effects = [r \in Runs |-> 0]
  /\ told = [r \in Runs |-> "none"]
  /\ straggler = [r \in Runs |-> FALSE]

Call(r) ==
  /\ told[r] = "none"
  /\ told' = [told EXCEPT ![r] = "busy"]
  /\ total'[r] \in Nat \ {0}
  /\ total' = [total EXCEPT ![r] = total'[r]]
  /\ UNCHANGED <<effects, straggler>>

\* Nothing can be submitted; nothing has been.
Refuse(r) ==
  /\ told[r] = "none"
  /\ told' = [told EXCEPT ![r] = "error"]
  /\ UNCHANGED <<total, effects, straggler>>

TakeEffect(r) ==
  /\ told[r] = "busy"
  /\ effects[r] < total[r]
  /\ effects' = [effects EXCEPT ![r] = @ + 1]
  /\ UNCHANGED <<total, told, straggler>>

Succeed(r) ==
  /\ told[r] = "busy"
  /\ effects[r] = total[r]
  /\ told' = [told EXCEPT ![r] = "ok"]
  /\ UNCHANGED <<total, effects, straggler>>

Fail(r) ==
  /\ told[r] = "busy"
  /\ told' = [told EXCEPT ![r] = "error"]
  /\ \E b \in BOOLEAN : straggler' = [straggler EXCEPT ![r] = b]
  /\ UNCHANGED <<total, effects>>

\* The late request arrives, and takes effect or not.
Arrive(r) ==
  /\ straggler[r]
  /\ straggler' = [straggler EXCEPT ![r] = FALSE]
  /\ \/ effects[r] < total[r] /\ effects' = [effects EXCEPT ![r] = @ + 1]
     \/ UNCHANGED effects
  /\ UNCHANGED <<total, told>>

Next ==
  \E r \in Runs :
    Call(r) \/ Refuse(r) \/ TakeEffect(r) \/ Succeed(r) \/ Fail(r) \/ Arrive(r)

Spec == Init /\ [][Next]_subVars
=============================================================================
