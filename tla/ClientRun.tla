----------------------------- MODULE ClientRun -----------------------------
(***************************************************************************)
(* The calls of one Client (src/src/conduit/client.py): connect() makes    *)
(* it, run() submits pipelines one gRPC request at a time, Run.stop()      *)
(* (src/src/conduit/run.py) stops one, while requests and answers are      *)
(* delayed or lost, the engine rejects some, and another thread may close  *)
(* the client.                                                             *)
(*                                                                         *)
(* The engine keeps, for each pipeline id, the log of what it carried out. *)
(***************************************************************************)
EXTENDS Naturals, Sequences, Api

CONSTANTS
  Main,      \* the thread that calls connect()
  Runs,      \* calls of Client.run, each with the stop() of its handle
  Request,   \* the requests a pipeline is made of, without the id they go to
  Plans,     \* what run() can be asked to submit: sequences of requests
  Ids, NoId, \* the pipeline ids the engine may assign
  Stoppers,  \* the runs whose handle the caller may stop(), once
  MayClose,  \* whether another thread may close the client
  Garbled    \* whether details of an error can come in bytes that do not parse

Creates(q) == q.path = Path("CreatePipeline")

ASSUME RunAssumption ==
  /\ Main \notin Runs /\ NoId \notin Ids
  /\ Plans \subseteq Seq(Request)
  /\ \A p \in Plans : p # <<>> /\ \A k \in DOMAIN p : Creates(p[k]) <=> k = 1
  /\ \A q \in Request : q.path \in Paths \ {Path("GetInfo"), Path("StopPipeline")}
  /\ Stoppers \subseteq Runs /\ MayClose \in BOOLEAN /\ Garbled \in BOOLEAN

VARIABLES
  pc,           \* pc[c]: the step caller c is at
  plan, next,   \* what run r submits; the request it sends, or waits for
  asked,        \* asked[r]: {} or the force= of the stop() of r's handle
  pid,          \* pid[r]: the id CreatePipeline answered, or NoId
  error, named, \* the kind of error raised; the pipeline id the caller got
  open,         \* the client's channel is open
  wire,         \* requests on their way to the engine
  reply,        \* reply[c]: the engine's answer on its way to c
  pipes,        \* pipes[id]: the requests the engine carried out on id
  stops         \* stops[id]: the force of the StopPipelines carried out on id

callVars == <<pc, plan, next, asked, pid, error, named>>
engineVars == <<pipes, stops>>
vars == <<callVars, open, wire, reply, engineVars>>

Callers == Runs \cup {Main}
GetInfo == [path |-> Path("GetInfo")]
StopPipeline(force) == [path |-> Path("StopPipeline"), force |-> force]
AnyPlan == Plans \cup {<<>>}
AnyRequest == Request \cup {GetInfo} \cup {StopPipeline(f) : f \in BOOLEAN}
Message == [by : Callers, id : Ids \cup {NoId}, req : AnyRequest]
NoAnswer == [kind |-> "none", id |-> NoId]
Answer == [kind : {"ok", "rejected"}, id : Ids \cup {NoId}] \cup {NoAnswer}
Effect == [by : Runs, req : Request]

TypeOK ==
  /\ pc \in [Callers -> {"idle", "send", "wait", "returned", "raised"}]
  /\ plan \in [Runs -> AnyPlan]
  /\ next \in [Runs -> Nat \ {0}]
  /\ asked \in [Runs -> SUBSET BOOLEAN]
  /\ pid \in [Runs -> Ids \cup {NoId}]
  /\ error \in [Callers -> {"none", "ConduitError", "DecodeError", "ValueError", "unbuildable"}]
  /\ named \in [Runs -> Ids \cup {NoId}]
  /\ open \in BOOLEAN
  /\ wire \subseteq Message
  /\ reply \in [Callers -> Answer]
  /\ pipes \in [Ids -> Seq(Effect)]
  /\ stops \in [Ids -> SUBSET BOOLEAN]

Init ==
  /\ pc = [c \in Callers |-> "idle"]
  /\ plan = [r \in Runs |-> <<>>]
  /\ next = [r \in Runs |-> 1]
  /\ asked = [r \in Runs |-> {}]
  /\ pid = [r \in Runs |-> NoId]
  /\ error = [c \in Callers |-> "none"]
  /\ named = [r \in Runs |-> NoId]
  /\ open = FALSE
  /\ wire = {}
  /\ reply = [c \in Callers |-> NoAnswer]
  /\ pipes = [id \in Ids |-> <<>>]
  /\ stops = [id \in Ids |-> {}]

-----------------------------------------------------------------------------
Goto(c, step) == pc' = [pc EXCEPT ![c] = step]

\* connect(): a channel, a Client, and GetInfo unless check_version=False.
Connect(check) ==
  /\ pc[Main] = "idle"
  /\ open' = TRUE
  /\ Goto(Main, IF check THEN "send" ELSE "returned")
  /\ UNCHANGED <<plan, next, asked, pid, error, named, wire, reply, engineVars>>

\* run() is called: build_requests has made the whole plan before anything is
\* sent.
Begin(r, p) ==
  /\ pc[Main] = "returned" /\ pc[r] = "idle"
  /\ plan' = [plan EXCEPT ![r] = p]
  /\ Goto(r, "send")
  /\ UNCHANGED <<next, asked, pid, error, named, open, wire, reply, engineVars>>

\* run() is called, and build_requests raises.
Refuse(r) ==
  /\ pc[Main] = "returned" /\ pc[r] = "idle"
  /\ Goto(r, "raised")
  /\ error' = [error EXCEPT ![r] = "unbuildable"]
  /\ UNCHANGED <<plan, next, asked, pid, named, open, wire, reply, engineVars>>

\* stop() of the handle that run() returned.
Stop(r, force) ==
  /\ pc[r] = "returned" /\ asked[r] = {}
  /\ asked' = [asked EXCEPT ![r] = {force}]
  /\ Goto(r, "send")
  /\ UNCHANGED <<plan, next, pid, error, named, open, wire, reply, engineVars>>

\* c is in run(), or will be; else in connect(), or in stop().
InRun(c) == c \in Runs /\ asked[c] = {}

\* Mutant: the graceful stop is forced.
CurrentForced(c) ==
  IF c = Main THEN GetInfo ELSE IF InRun(c) THEN plan[c][next[c]] ELSE StopPipeline(TRUE)

\* The request that caller c makes now.
Current(c) ==
  IF c = Main THEN GetInfo
  ELSE IF InRun(c) THEN plan[c][next[c]] ELSE StopPipeline(TRUE \in asked[c])

\* Mutant: the request objects are shared, so the last id written wins.
LatestId(c) == IF \E id \in Ids : pipes[id] # <<>>
               THEN CHOOSE id \in Ids : pipes[id] # <<>> ELSE NoId

\* The pipeline id written into it.
Target(c) == IF c = Main THEN NoId ELSE IF InRun(c) THEN pid[c] ELSE named[c]

\* _call up to the wire.  On a closed channel the stub raises ValueError, which
\* neither _call nor the except clause of run() knows.
Send(c) ==
  /\ pc[c] = "send"
  /\ \/ /\ open
        /\ wire' = wire \cup {[by |-> c, id |-> Target(c), req |-> Current(c)]}
        /\ Goto(c, "wait")
        /\ UNCHANGED error
     \/ /\ ~open
        /\ Goto(c, "raised")
        /\ error' = [error EXCEPT ![c] = "ValueError"]
        /\ UNCHANGED wire
  /\ UNCHANGED <<plan, next, asked, pid, named, open, reply, engineVars>>

\* Mutant: the except clause does not touch the error.
NameNothing(r) == NoId

\* Mutant: the id is read from the failed request, where it may be empty.
NameEmpty(r) == ""

\* The pipeline_id of an error run() raises now: the except clause covers every
\* request but CreatePipeline.
NamedOnError(r) == pid[r]

\* The RPC fails; run() names the pipeline, connect() and stop() do not.
RaiseConduitError(c) ==
  /\ Goto(c, "raised")
  /\ error' = [error EXCEPT ![c] = "ConduitError"]
  /\ named' = [r \in Runs |-> IF r = c /\ InRun(r) THEN NamedOnError(r) ELSE named[r]]

\* The translation of a rejected RPC itself raises, at details that do not parse;
\* no except clause knows that exception, and it names no pipeline.
RaiseDecodeError(c) ==
  /\ Garbled
  /\ Goto(c, "raised")
  /\ error' = [error EXCEPT ![c] = "DecodeError"]
  /\ UNCHANGED named

\* Mutant: run() returns when the last request but one is done.
LastOfPlanEarly(r) == next[r] + 1 >= Len(plan[r])

LastOfPlan(r) == next[r] = Len(plan[r])

\* The next request of the sequence, or `return Run(self, pipeline_id)`.
Advance(r) ==
  /\ pid' = [pid EXCEPT ![r] = IF next[r] = 1 THEN reply[r].id ELSE @]
  /\ \/ /\ ~LastOfPlan(r)
        /\ next' = [next EXCEPT ![r] = @ + 1]
        /\ Goto(r, "send")
        /\ UNCHANGED named
     \/ /\ LastOfPlan(r)
        /\ named' = [named EXCEPT ![r] = pid'[r]]
        /\ Goto(r, "returned")
        /\ UNCHANGED next

\* The answer arrives.
Receive(c) ==
  /\ pc[c] = "wait"
  /\ \/ /\ reply[c].kind = "ok"
        /\ \/ InRun(c) /\ Advance(c)
           \/ /\ ~InRun(c)
              /\ Goto(c, "returned")
              /\ UNCHANGED <<next, pid, named>>
        /\ UNCHANGED error
     \/ /\ reply[c].kind = "rejected"
        /\ RaiseConduitError(c) \/ RaiseDecodeError(c)
        /\ UNCHANGED <<next, pid>>
  /\ reply' = [reply EXCEPT ![c] = NoAnswer]
  /\ UNCHANGED <<plan, asked, open, wire, engineVars>>

\* Mutant: an unavailable engine is tried again with the same request.
GiveUpAndRetry(c) ==
  /\ pc[c] = "wait"
  /\ reply[c].kind = "none"
  /\ Goto(c, "send")
  /\ UNCHANGED <<plan, next, asked, pid, error, named, open, wire, reply, engineVars>>

\* Mutant: no timeout is passed to the stub.
GiveUpOnClose(c) ==
  /\ pc[c] = "wait"
  /\ ~open
  /\ RaiseConduitError(c)
  /\ reply' = [reply EXCEPT ![c] = NoAnswer]
  /\ UNCHANGED <<plan, next, asked, pid, open, wire, engineVars>>

\* The RPC ends without its answer: deadline exceeded, connection lost, or
\* cancelled by close().  What is on the wire stays there.
GiveUp(c) ==
  /\ pc[c] = "wait"
  /\ RaiseConduitError(c)
  /\ reply' = [reply EXCEPT ![c] = NoAnswer]
  /\ UNCHANGED <<plan, next, asked, pid, open, wire, engineVars>>

\* Client.close in another thread, or __exit__.  A connect() that raised has
\* left the caller no client, so its channel stays open.
Close ==
  /\ MayClose /\ open /\ pc[Main] = "returned"
  /\ open' = FALSE
  /\ UNCHANGED <<callVars, wire, reply, engineVars>>

-----------------------------------------------------------------------------
\* An answer to an RPC that was given up goes nowhere.
Reply(m, kind, id) ==
  reply' = IF pc[m.by] = "wait" THEN [reply EXCEPT ![m.by] = [kind |-> kind, id |-> id]]
           ELSE reply

\* The engine carries out a request: GetInfo changes nothing, StopPipeline
\* stops, CreatePipeline assigns a fresh id, the rest adds to a pipeline.
Carry(m) ==
  /\ wire' = wire \ {m}
  /\ \/ /\ m.by = Main
        /\ Reply(m, "ok", NoId)
        /\ UNCHANGED engineVars
     \/ \E f \in BOOLEAN :
          /\ m.req = StopPipeline(f)
          /\ stops' = [stops EXCEPT ![m.id] = @ \cup {f}]
          /\ Reply(m, "ok", m.id)
          /\ UNCHANGED pipes
     \/ \E id \in Ids :
          /\ m.req \in Request
          /\ IF Creates(m.req) THEN pipes[id] = <<>> ELSE id = m.id
          /\ pipes' = [pipes EXCEPT ![id] = Append(@, [by |-> m.by, req |-> m.req])]
          /\ Reply(m, "ok", id)
          /\ UNCHANGED stops
  /\ UNCHANGED <<callVars, open>>

\* The engine answers with an error and does nothing.
Reject(m) ==
  /\ wire' = wire \ {m}
  /\ Reply(m, "rejected", NoId)
  /\ UNCHANGED <<callVars, open, engineVars>>

\* The request never reaches the engine.
Lose(m) ==
  /\ wire' = wire \ {m}
  /\ UNCHANGED <<callVars, open, reply, engineVars>>

\* What a call does once it was made.
Work(c) == Send(c) \/ Receive(c) \/ GiveUp(c)

\* Everything but the calls of run().
Proceed ==
  \/ \E b \in BOOLEAN : Connect(b)
  \/ \E r \in Stoppers, f \in BOOLEAN : Stop(r, f)
  \/ \E c \in Callers : Work(c)
  \/ \E m \in wire : Carry(m) \/ Reject(m) \/ Lose(m)
  \/ Close

Next ==
  \/ \E r \in Runs, p \in Plans : Begin(r, p)
  \/ \E r \in Runs : Refuse(r)
  \/ Proceed

\* A call goes on once made; every RPC has a timeout.  The engine owes nothing.
Spec ==
  /\ Init /\ [][Next]_vars
  /\ \A c \in Callers : WF_vars(Work(c))

-----------------------------------------------------------------------------
Creator(id) == pipes[id][1].by
CreatedBy(r) == {id \in Ids : pipes[id] # <<>> /\ Creator(id) = r}
HoldsHandle(r) == pc[r] = "returned" \/ ~InRun(r)

\* Whatever was delayed, lost or rejected, and however runs interleave: what
\* the engine did to a pipeline is the beginning of the one plan it was created
\* by, in the declared order, nothing twice, nothing skipped, nothing of another
\* run.  So a pipeline is started only when it is complete.
AppliedInOrder ==
  \A id \in Ids : \A k \in DOMAIN pipes[id] :
    /\ k \in DOMAIN plan[Creator(id)]
    /\ pipes[id][k] = [by |-> Creator(id), req |-> plan[Creator(id)][k]]

\* A Run handle names a pipeline of its run on which the whole plan was done.
ReturnedMeansComplete ==
  \A r \in Runs : HoldsHandle(r) =>
    /\ named[r] \in CreatedBy(r)
    /\ Len(pipes[named[r]]) = Len(plan[r])

\* The caller of a failed run() can find what is left of it: once CreatePipeline
\* was answered, the ConduitError names the run's pipeline; before that it names
\* none, and no request but CreatePipeline took effect or ever will.  (The
\* exception of garbled details is no ConduitError and carries no id.)
ErrorNamesPipeline ==
  \A r \in Runs : error[r] = "ConduitError" /\ InRun(r) =>
    IF next[r] > 1 THEN named[r] \in CreatedBy(r)
    ELSE named[r] = NoId /\ \A id \in CreatedBy(r) : Len(pipes[id]) = 1

\* stop() reaches the pipeline of its handle and no other, however late; it is
\* forced only if that was asked for; and it returns only when the engine has
\* taken it.
StopReachesItsRun ==
  /\ \A id \in Ids : stops[id] # {} =>
       \E r \in Runs : id \in CreatedBy(r) /\ HoldsHandle(r) /\ stops[id] \subseteq asked[r]
  /\ \A r \in Runs : pc[r] = "returned" => asked[r] \subseteq stops[named[r]]

\* connect(), run() and stop() return or raise, whatever the engine and the
\* network do: from some moment on, none of them is under way.
CallsEnd == <>[](\A c \in Callers : pc[c] \notin {"send", "wait"})

\* Seen from outside, run() is the submission of Submission.
Totals == [r \in Runs |-> Len(plan[r])]
Effects ==
  [r \in Runs |-> IF CreatedBy(r) = {} THEN 0
                  ELSE Len(pipes[CHOOSE id \in CreatedBy(r) : TRUE])]
Told ==
  [r \in Runs |-> IF HoldsHandle(r) THEN "ok" ELSE IF pc[r] = "raised" THEN "error"
                  ELSE IF pc[r] = "idle" THEN "none" ELSE "busy"]
Stragglers == [r \in Runs |-> pc[r] = "raised" /\ InRun(r) /\ \E m \in wire : m.by = r]

Outside == INSTANCE Submission WITH
  total <- Totals, effects <- Effects, told <- Told, straggler <- Stragglers

ImplementsSubmission == Outside!Spec

\* "ConduitError: on any RPC failure": a failed call raises no other exception.
OnlyConduitErrors == \A c \in Callers : error[c] \notin {"ValueError", "DecodeError"}
=============================================================================
