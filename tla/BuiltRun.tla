------------------------------ MODULE BuiltRun ------------------------------
(***************************************************************************)
(* Pipeline builders and the runs that submit them: a builder is a mutable *)
(* object, which the caller may hand to several runs and go on changing    *)
(* while they are under way, from other threads even while build_requests  *)
(* reads it (src/src/conduit/pipeline.py, client.py).                      *)
(***************************************************************************)
EXTENDS ClientRun, PipelineBuilder

CONSTANTS
  Builders,  \* Pipeline objects
  Labels,    \* Labels[b]: the arguments of its constructor
  Early,     \* the fluent calls a caller may make before any run() is called,
  Late,      \* and those since
  Of, Start, \* the arguments of run r: the builder Of[r], and start=Start[r]
  MaxCalls,  \* bound: the fluent calls on one builder
  MaxLate,   \* bound: those of them since run() was called with it
  LateWhile  \* bound: the stages every run must be at when a fluent call is made

VARIABLES
  builder,      \* builder[b]: the state of the object
  stage, draft, \* what build_requests reads next for run r, and what it has read
  said,         \* history: the fluent calls made on b, by kind
  before, upTo  \* history: what had been said when run r was called, and when its
                \* requests were made

history == <<said, before, upTo>>
builtVars == <<builder, stage, draft, history>>
allVars == <<vars, builtVars>>

Calls == Early \cup Late
ConnectorCalls == {call \in Calls : call.method \in {"source", "destination"}}
ProcessorCalls == {call \in Calls : call.method = "process"}
DlqCalls == {call \in Calls : call.method = "dlq"}

\* What can be read of a builder that others go on changing.
UpTo(n, S) == UNION {[1..k -> S] : k \in 0..n}
Configs(field) == {DlqConfig(call)[field] : call \in DlqCalls}
AnyDlq ==
  [plugin : Configs("plugin"), settings : Configs("settings"),
   window_size : Configs("window_size"),
   window_nack_threshold : Configs("window_nack_threshold")]
AnyConnectors ==
  UpTo(MaxCalls, {Connector("SOURCE", call) : call \in ConnectorCalls}
                   \cup {Connector("DESTINATION", call) : call \in ConnectorCalls})
AnyProcessors == UpTo(MaxCalls, {Processor(call) : call \in ProcessorCalls})

Fresh(b) == New(Labels[b].id, Labels[b].name, Labels[b].description)
Unsaid == [connectors |-> <<>>, processors |-> <<>>, dlqs |-> <<>>]

BuiltInit ==
  /\ Init
  /\ builder = [b \in Builders |-> Fresh(b)]
  /\ stage = [r \in Runs |-> "none"]
  /\ draft = [r \in Runs |-> Fresh(Of[r])]
  /\ said = [b \in Builders |-> Unsaid]
  /\ before = [r \in Runs |-> Unsaid]
  /\ upTo = [r \in Runs |-> Unsaid]

-----------------------------------------------------------------------------
RequestFor(method, arg) == [path |-> Path(method), arg |-> arg]
Sent(method, args) == [k \in DOMAIN args |-> RequestFor(method, args[k])]
If(condition, request) == IF condition THEN <<request>> ELSE <<>>

\* Mutant: the DLQ comes after the start.
RequestsDlqLast(built, start) ==
  <<RequestFor("CreatePipeline", built.create_pipeline)>>
    \o Sent("CreateConnector", built.create_connectors)
    \o Sent("CreateProcessor", built.create_processors)
    \o If(start, RequestFor("StartPipeline", <<>>))
    \o If(built.dlq # None, RequestFor("UpdateDLQ", Given(built.dlq, None)))

\* The requests of run(), in the order it makes them.
Requests(built, start) ==
  <<RequestFor("CreatePipeline", built.create_pipeline)>>
    \o Sent("CreateConnector", built.create_connectors)
    \o Sent("CreateProcessor", built.create_processors)
    \o If(built.dlq # None, RequestFor("UpdateDLQ", Given(built.dlq, None)))
    \o If(start, RequestFor("StartPipeline", <<>>))

ASSUME BuiltAssumption ==
  /\ \A call \in Calls : call.method \in {"source", "destination", "process", "dlq"}
  /\ \A call \in DlqCalls : \A v, w \in call.window_size : v = w
  /\ Of \in [Runs -> Builders] /\ Start \in [Runs -> BOOLEAN]
  /\ MaxCalls \in Nat /\ MaxLate \in Nat
  /\ \A r \in Runs, connectors \in AnyConnectors, processors \in AnyProcessors,
        dlq \in {None} \cup {{d} : d \in AnyDlq} :
       WorkersFit(processors) /\ WindowsFit(dlq) =>
         Requests(BuildRequests([Fresh(Of[r]) EXCEPT !.connectors = connectors,
                                   !.processors = processors, !.dlq = dlq]), Start[r]) \in Plans

Said(s) == Len(s.connectors) + Len(s.processors) + Len(s.dlqs)

\* A fluent call, at any moment within the bounds.
Fluent(b, call) ==
  /\ Said(said[b]) < MaxCalls
  /\ \A r \in Runs : Of[r] = b /\ stage[r] # "none" => Said(said[b]) < Said(before[r]) + MaxLate
  /\ \A r \in Runs : stage[r] \in LateWhile
  /\ call \in (IF \A r \in Runs : stage[r] = "none" THEN Early ELSE Late)
  /\ builder' = [builder EXCEPT ![b] = Apply(@, call)]
  /\ \/ /\ call \in ConnectorCalls
        /\ said' = [said EXCEPT ![b].connectors = Append(@, call)]
     \/ /\ call \in ProcessorCalls
        /\ said' = [said EXCEPT ![b].processors = Append(@, call)]
     \/ /\ call \in DlqCalls
        /\ said' = [said EXCEPT ![b].dlqs = Append(@, call)]
  /\ UNCHANGED <<vars, stage, draft, before, upTo>>

ReadNext(r, part) == stage' = [stage EXCEPT ![r] = part]

\* client.run(Of[r], start=Start[r]) is called.  The name and the description are
\* those of the constructor: no fluent call changes them.
Run(r) ==
  /\ pc[Main] = "returned" /\ pc[r] = "idle" /\ stage[r] = "none"
  /\ ReadNext(r, "connectors")
  /\ before' = [before EXCEPT ![r] = said[Of[r]]]
  /\ UNCHANGED <<vars, builder, draft, said, upTo>>

\* build_requests goes on.
GoesOn(r, part) ==
  /\ ReadNext(r, part)
  /\ UNCHANGED <<vars, upTo>>

\* build_requests is done: run() begins to send, or a number did not fit and it
\* raises.
Made(r, fits) ==
  /\ ReadNext(r, "done")
  /\ upTo' = [upTo EXCEPT ![r] = said[Of[r]]]
  /\ IF fits THEN Begin(r, Requests(BuildRequests(draft'[r]), Start[r])) ELSE Refuse(r)

\* The list may grow while it is walked through; what counts is its end.
ReadConnectors(r) ==
  /\ stage[r] = "connectors"
  /\ draft' = [draft EXCEPT ![r].connectors = builder[Of[r]].connectors]
  /\ GoesOn(r, "processors")

\* So may this one; a processor is converted as it comes.
ReadProcessors(r) ==
  /\ stage[r] = "processors"
  /\ draft' = [draft EXCEPT ![r].processors = builder[Of[r]].processors]
  /\ \/ WorkersFit(draft'[r].processors) /\ GoesOn(r, "dlq")
     \/ ~WorkersFit(draft'[r].processors) /\ Made(r, FALSE)

\* `if self._dlq is not None`, and self._dlq.plugin: a DLQ is never taken back.
\* The other parts of the draft are read again below, each for itself.
ReadDlq(r) ==
  /\ stage[r] = "dlq"
  /\ draft' = [draft EXCEPT ![r].dlq = builder[Of[r]].dlq]
  /\ \/ draft'[r].dlq # None /\ GoesOn(r, "settings")
     \/ draft'[r].dlq = None /\ Made(r, TRUE)

\* self._dlq is looked up once more, for one of its fields.
LookUp(r, field) ==
  draft' = [draft EXCEPT ![r].dlq =
              {[d EXCEPT ![field] = now[field]] : d \in @, now \in builder[Of[r]].dlq}]

ReadSettings(r) ==
  stage[r] = "settings" /\ LookUp(r, "settings") /\ GoesOn(r, "window_size")

ReadWindow(r) ==
  stage[r] = "window_size" /\ LookUp(r, "window_size") /\ GoesOn(r, "window_nack_threshold")

ReadThreshold(r) ==
  /\ stage[r] = "window_nack_threshold"
  /\ LookUp(r, "window_nack_threshold")
  /\ Made(r, WindowsFit(draft'[r].dlq))

Build(r) ==
  /\ \/ ReadConnectors(r) \/ ReadProcessors(r) \/ ReadDlq(r)
     \/ ReadSettings(r) \/ ReadWindow(r) \/ ReadThreshold(r)
  /\ UNCHANGED <<builder, said, before>>

BuiltNext ==
  \/ \E b \in Builders, call \in Calls : Fluent(b, call)
  \/ \E r \in Runs : Run(r) \/ Build(r)
  \/ Proceed /\ UNCHANGED builtVars

BuiltSpec ==
  /\ BuiltInit /\ [][BuiltNext]_allVars
  /\ \A c \in Callers : WF_allVars(Work(c) /\ UNCHANGED builtVars)

-----------------------------------------------------------------------------
\* Settings as said: the keyword argument of a key that was given twice; booleans
\* in the engine's spelling.
TellsSettings(settings, call) ==
  /\ DOMAIN settings = DOMAIN call.settings \cup DOMAIN call.kwargs
  /\ \A k \in DOMAIN settings :
       LET v == IF k \in DOMAIN call.kwargs THEN call.kwargs[k] ELSE call.settings[k] IN
       IF v.type = "bool" THEN settings[k] = (IF v.str = "True" THEN "true" ELSE "false")
       ELSE settings[k] = v.str

\* The value given, or else the documented default.
TellsOption(value, option, default) == IF option = None THEN value = default ELSE value \in option

TellsConnector(arg, call) ==
  /\ arg.type = "SOURCE" <=> call.method = "source"
  /\ arg.plugin = call.plugin
  /\ arg.name = (IF call.name # "" THEN call.name ELSE call.plugin)
  /\ TellsSettings(arg.settings, call)

TellsProcessor(arg, call) ==
  /\ arg.plugin = call.plugin /\ arg.condition = call.condition
  /\ TellsOption(arg.workers, call.workers, 0)
  /\ TellsSettings(arg.settings, call)

\* The dlq() calls that counted at some moment of run r's build_requests.
InForce(r) ==
  {upTo[r].dlqs[j] : j \in {i \in DOMAIN upTo[r].dlqs : i >= Len(before[r].dlqs)}}

\* Each part of the DLQ is that of a call in force, the defaults those of dlq().
TellsDlq(arg, r) ==
  /\ \E call \in InForce(r) : arg.plugin = call.plugin
  /\ \E call \in InForce(r) : TellsSettings(arg.settings, call)
  /\ \E call \in InForce(r) : TellsOption(arg.window_size, call.window_size, 1)
  /\ \E call \in InForce(r) :
       TellsOption(arg.window_nack_threshold, call.window_nack_threshold, 0)

\* The k-th request the engine carried out for run r, if build_requests saw the
\* first nc connectors, the first np processors, and nd = 1 DLQs or none: the
\* pipeline, each connector and each processor in the order of their calls, the
\* DLQ, and the start if and only if it was asked for.
AsDeclared(req, k, r, nc, np, nd) ==
  LET Is(method) == req.path = Path(method) IN
  \/ /\ k = 1 /\ Is("CreatePipeline")
     /\ TellsOption(req.arg.name, Labels[Of[r]].name, Labels[Of[r]].id)
     /\ req.arg.description = Labels[Of[r]].description
  \/ /\ k \in 2..nc + 1 /\ Is("CreateConnector")
     /\ TellsConnector(req.arg, upTo[r].connectors[k - 1])
  \/ /\ k \in nc + 2..nc + np + 1 /\ Is("CreateProcessor")
     /\ TellsProcessor(req.arg, upTo[r].processors[k - nc - 1])
  \/ /\ k = nc + np + 2 /\ nd = 1 /\ Is("UpdateDLQ")
     /\ TellsDlq(req.arg, r)
  \/ k = nc + np + nd + 2 /\ Start[r] /\ Is("StartPipeline")

\* What build_requests can have seen: what had been said when run() was called,
\* and what was said meanwhile, as far as it came.
Seen(n, first, last) == Len(first) <= n /\ n <= Len(last)

\* The pipeline at the engine is what had been declared when run() was called, in
\* order, with every name, number and setting, whatever is said later and
\* whoever else submits the builder; of a call made while build_requests reads,
\* all is in or nothing, but for the fields of the DLQ, each of which is that of
\* a call in force while it was read.  So a started pipeline has everything that
\* was declared before run().
SubmittedAsDeclared ==
  \A r \in Runs : \A id \in CreatedBy(r) :
    \E nc \in 0..MaxCalls, np \in 0..MaxCalls, nd \in {0, 1} :
      /\ Seen(nc, before[r].connectors, upTo[r].connectors)
      /\ Seen(np, before[r].processors, upTo[r].processors)
      /\ nd = 0 => before[r].dlqs = <<>>
      /\ \A k \in DOMAIN pipes[id] : AsDeclared(pipes[id][k].req, k, r, nc, np, nd)

\* The engine's nack window, without which it never stops a pipeline that loses
\* records, is switched off only by a caller who asked for 0.
WindowOnlyOffIfAsked ==
  \A id \in Ids : \A k \in DOMAIN pipes[id] :
    pipes[id][k].req.path = Path("UpdateDLQ") /\ pipes[id][k].req.arg.window_size = 0 =>
      \E call \in InForce(Creator(id)) : call.window_size = {0}
=============================================================================
