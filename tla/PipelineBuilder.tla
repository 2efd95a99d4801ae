-------------------------- MODULE PipelineBuilder --------------------------
(***************************************************************************)
(* Pipeline (src/src/conduit/pipeline.py): what each fluent call leaves in *)
(* the builder, and what build_requests makes of it.                       *)
(*                                                                         *)
(* A Python value is its type and its str().  An optional argument is None *)
(* or a set with the value given.  A builder is a record; each call        *)
(* returns the builder as it is afterwards (the code changes it in place   *)
(* and returns self).                                                      *)
(***************************************************************************)
EXTENDS Integers, Sequences

CONSTANTS MaxUint64, MaxInt32   \* the widths of the protobuf fields

ASSUME WidthAssumption == MaxUint64 \in Nat /\ MaxInt32 \in Nat

None == {}
Given(option, default) == IF option = None THEN default ELSE CHOOSE v \in option : TRUE

\* `"true" if v is True else "false" if v is False else str(v)`
Text(v) ==
  IF v.type = "bool" THEN (IF v.str = "True" THEN "true" ELSE "false") ELSE v.str

Settings(settings, kwargs) ==
  [k \in DOMAIN settings \cup DOMAIN kwargs |->
     Text(IF k \in DOMAIN kwargs THEN kwargs[k] ELSE settings[k])]

New(id, name, description) ==
  [name |-> Given(name, id), description |-> description,
   connectors |-> <<>>, processors |-> <<>>, dlq |-> None]

Connector(type, call) ==
  [type |-> type, plugin |-> call.plugin,
   name |-> IF call.name = "" THEN call.plugin ELSE call.name,
   settings |-> Settings(call.settings, call.kwargs)]

Source(b, call) == [b EXCEPT !.connectors = Append(@, Connector("SOURCE", call))]
Destination(b, call) == [b EXCEPT !.connectors = Append(@, Connector("DESTINATION", call))]

Processor(call) ==
  [plugin |-> call.plugin, condition |-> call.condition, workers |-> call.workers,
   settings |-> Settings(call.settings, call.kwargs)]

Process(b, call) == [b EXCEPT !.processors = Append(@, Processor(call))]

\* Mutant: what was not given is left to protobuf's zero.
DlqConfigUnset(call) ==
  [plugin |-> call.plugin, settings |-> Settings(call.settings, call.kwargs),
   window_size |-> call.window_size,
   window_nack_threshold |-> call.window_nack_threshold]

\* UpdateDLQ has no defaults of its own, so the builder gives the engine's: a
\* window of 1, no nack tolerated.
DlqConfig(call) ==
  [plugin |-> call.plugin, settings |-> Settings(call.settings, call.kwargs),
   window_size |-> {Given(call.window_size, 1)},
   window_nack_threshold |-> {Given(call.window_nack_threshold, 0)}]

\* The last dlq() call wins.
Dlq(b, call) == [b EXCEPT !.dlq = {DlqConfig(call)}]

Apply(b, call) ==
  CASE call.method = "source" -> Source(b, call)
    [] call.method = "destination" -> Destination(b, call)
    [] call.method = "process" -> Process(b, call)
    [] call.method = "dlq" -> Dlq(b, call)

\* Protobuf raises ValueError on a number that does not fit its field.
WorkersFit(processors) ==
  \A k \in DOMAIN processors : processors[k].workers \subseteq (-MaxInt32 - 1)..MaxInt32
WindowsFit(dlq) ==
  \A d \in dlq : d.window_size \cup d.window_nack_threshold \subseteq 0..MaxUint64

\* build_requests: the payloads, in the order they are to be sent.  A number
\* left unset is protobuf's zero.
BuildRequests(b) ==
  [create_pipeline |-> [name |-> b.name, description |-> b.description],
   create_connectors |-> [k \in DOMAIN b.connectors |-> b.connectors[k]],
   create_processors |->
     [k \in DOMAIN b.processors |->
        [b.processors[k] EXCEPT !.workers = Given(@, 0)]],
   dlq |-> {[d EXCEPT !.window_size = Given(@, 0), !.window_nack_threshold = Given(@, 0)]
              : d \in b.dlq}]
=============================================================================
