--------------------------- MODULE BuiltRun_proofs ---------------------------
(* Theorems about BuiltRun, for any builders, fluent calls and runs. *)
EXTENDS BuiltRun, ClientRunRefines_proofs, SequenceTheorems

\* What a call leaves in the builder.
ConnectorOf(call) ==
  Connector(IF call.method = "source" THEN "SOURCE" ELSE "DESTINATION", call)
ConnectorsOf(calls) == [k \in DOMAIN calls |-> ConnectorOf(calls[k])]
ProcessorsOf(calls) == [k \in DOMAIN calls |-> Processor(calls[k])]
DlqOf(calls) == IF calls = <<>> THEN None ELSE {DlqConfig(calls[Len(calls)])}

NameOf(b) == Given(Labels[b].name, Labels[b].id)
AnyDlqs == {None} \cup {{d} : d \in AnyDlq}

\* A builder, or what was read of it.
Draft(b) ==
  [name : {NameOf(b)}, description : {Labels[b].description},
   connectors : AnyConnectors, processors : AnyProcessors, dlq : AnyDlqs]

AnySaid ==
  {s \in [connectors : Seq(ConnectorCalls), processors : Seq(ProcessorCalls),
          dlqs : Seq(DlqCalls)] : Said(s) <= MaxCalls}

\* The builder is what was said to it.
BuilderOK(b) ==
  /\ said[b] \in AnySaid
  /\ builder[b] \in Draft(b)
  /\ builder[b].connectors = ConnectorsOf(said[b].connectors)
  /\ builder[b].processors = ProcessorsOf(said[b].processors)
  /\ builder[b].dlq = DlqOf(said[b].dlqs)

BuildersOK ==
  /\ said = [b \in Builders |-> said[b]] /\ builder = [b \in Builders |-> builder[b]]
  /\ \A b \in Builders : BuilderOK(b)

\* What was read, at a moment between the calls in first and those in last.
ReadConnectorsOK(connectors, first, last) ==
  \E n \in Nat : Seen(n, first, last) /\ connectors = [k \in 1..n |-> ConnectorOf(last[k])]
ReadProcessorsOK(processors, first, last) ==
  /\ WorkersFit(processors)
  /\ \E n \in Nat : Seen(n, first, last) /\ processors = [k \in 1..n |-> Processor(last[k])]
Counted(first, last) == {last[j] : j \in {i \in DOMAIN last : i >= Len(first)}}
DlqReadOK(d, calls) ==
  /\ \E call \in calls : d.plugin = DlqConfig(call).plugin
  /\ \E call \in calls : d.settings = DlqConfig(call).settings
  /\ \E call \in calls : d.window_size = DlqConfig(call).window_size
  /\ \E call \in calls : d.window_nack_threshold = DlqConfig(call).window_nack_threshold
ReadDlqOK(dlq, first, last) ==
  /\ dlq = None => first = <<>>
  /\ \A d \in dlq : DlqReadOK(d, Counted(first, last))

AfterConnectors ==
  {"processors", "dlq", "settings", "window_size", "window_nack_threshold"}
AfterProcessors == AfterConnectors \ {"processors"}
AfterDlq == AfterProcessors \ {"dlq"}
Reading == AfterConnectors \cup {"connectors"}

Grown(s, t) ==
  /\ Len(s.connectors) <= Len(t.connectors) /\ Len(s.processors) <= Len(t.processors)
  /\ Len(s.dlqs) <= Len(t.dlqs)

\* What a run has in its draft o when build_requests will read part next.
ReadSoFar(part, o, s, t) ==
  /\ part \in AfterConnectors => ReadConnectorsOK(o.connectors, s.connectors, t.connectors)
  /\ part \in AfterProcessors => ReadProcessorsOK(o.processors, s.processors, t.processors)
  /\ part \in AfterDlq => ReadDlqOK(o.dlq, s.dlqs, t.dlqs) /\ o.dlq # None

AllRead(o, s, t) ==
  /\ ReadConnectorsOK(o.connectors, s.connectors, t.connectors)
  /\ ReadProcessorsOK(o.processors, s.processors, t.processors)
  /\ ReadDlqOK(o.dlq, s.dlqs, t.dlqs) /\ WindowsFit(o.dlq)

\* The plan that a draft makes.
PlanOf(o, start) == Requests(BuildRequests(o), start)

\* A run has read what was said meanwhile, and submits that.
BuildOK(r) ==
  /\ stage[r] \in Reading \cup {"none", "done"}
  /\ before[r] \in AnySaid /\ upTo[r] \in AnySaid /\ draft[r] \in Draft(Of[r])
  /\ stage[r] # "done" => plan[r] = <<>>
  /\ stage[r] \in Reading => /\ Grown(before[r], said[Of[r]])
                             /\ ReadSoFar(stage[r], draft[r], before[r], said[Of[r]])
  /\ plan[r] # <<>> => /\ plan[r] = PlanOf(draft[r], Start[r])
                       /\ AllRead(draft[r], before[r], upTo[r])

BuildsOK ==
  /\ stage = [r \in Runs |-> stage[r]] /\ draft = [r \in Runs |-> draft[r]]
  /\ before = [r \in Runs |-> before[r]] /\ upTo = [r \in Runs |-> upTo[r]]
  /\ \A r \in Runs : BuildOK(r)

BuiltInv == IInv /\ BuildersOK /\ BuildsOK

-----------------------------------------------------------------------------
\* Sequences of a bounded length.
LEMMA SeqUpTo ==
  ASSUME NEW n \in Nat, NEW S, NEW s \in Seq(S), Len(s) <= n
  PROVE  s \in UpTo(n, S)
BY LenProperties DEF UpTo

\* Where the elements of two sequences end up.
LEMMA ConcatAt ==
  ASSUME NEW S, NEW s \in Seq(S), NEW t \in Seq(S)
  PROVE  /\ s \o t \in Seq(S) /\ Len(s \o t) = Len(s) + Len(t)
         /\ DOMAIN (s \o t) = 1..Len(s) + Len(t)
         /\ \A i \in DOMAIN (s \o t) : (s \o t)[i] = IF i <= Len(s) THEN s[i] ELSE t[i - Len(s)]
<1>1. /\ s \o t \in Seq(S) /\ Len(s \o t) = Len(s) + Len(t)
      /\ \A i \in 1..Len(s) + Len(t) : (s \o t)[i] = IF i <= Len(s) THEN s[i] ELSE t[i - Len(s)]
  BY ConcatProperties, Zenon
<1>2. DOMAIN (s \o t) = 1..Len(s) + Len(t)
  BY <1>1
<1>3. QED
  BY <1>1, <1>2

\* A sequence to which one element was added.
LEMMA AppendAt ==
  ASSUME NEW S, NEW s \in Seq(S), NEW x \in S
  PROVE  /\ Append(s, x) \in Seq(S) /\ Len(Append(s, x)) = Len(s) + 1
         /\ DOMAIN s = 1..Len(s) /\ DOMAIN Append(s, x) = 1..Len(s) + 1
         /\ \A k \in 1..Len(s) + 1 : Append(s, x)[k] = IF k <= Len(s) THEN s[k] ELSE x
<1>1. /\ Append(s, x) \in Seq(S) /\ Len(Append(s, x)) = Len(s) + 1
      /\ \A k \in 1..Len(s) : Append(s, x)[k] = s[k]
      /\ Append(s, x)[Len(s) + 1] = x
  BY AppendProperties
<1>2. Len(s) \in Nat
  OBVIOUS
<1>3. QED
  BY <1>1, <1>2

LEMMA MaxCallsNat == MaxCalls \in Nat
BY BuiltAssumption

\* What AnySaid says of the parts.
LEMMA SaidParts ==
  ASSUME NEW s \in AnySaid
  PROVE  /\ s.connectors \in Seq(ConnectorCalls) /\ Len(s.connectors) \in 0..MaxCalls
         /\ s.processors \in Seq(ProcessorCalls) /\ Len(s.processors) \in 0..MaxCalls
         /\ s.dlqs \in Seq(DlqCalls) /\ Len(s.dlqs) \in 0..MaxCalls
         /\ Len(s.connectors) + Len(s.processors) + Len(s.dlqs) <= MaxCalls
         /\ MaxCalls \in Nat
<1>1. /\ s.connectors \in Seq(ConnectorCalls) /\ s.processors \in Seq(ProcessorCalls)
      /\ s.dlqs \in Seq(DlqCalls) /\ Said(s) <= MaxCalls
  BY DEF AnySaid
<1>2. PICK l \in Nat, m \in Nat, n \in Nat :
        l = Len(s.connectors) /\ m = Len(s.processors) /\ n = Len(s.dlqs)
  BY <1>1
<1>3. l + m + n <= MaxCalls
  BY <1>1, <1>2 DEF Said
<1>4. l \in 0..MaxCalls /\ m \in 0..MaxCalls /\ n \in 0..MaxCalls
  BY <1>3, MaxCallsNat
<1>5. QED
  BY <1>1, <1>2, <1>3, <1>4, MaxCallsNat

\* What the calls leave behind is what can be read.
LEMMA SpecsKnown ==
  /\ \A call \in ConnectorCalls :
       ConnectorOf(call) \in {Connector("SOURCE", c) : c \in ConnectorCalls}
                               \cup {Connector("DESTINATION", c) : c \in ConnectorCalls}
  /\ \A call \in DlqCalls : DlqConfig(call) \in AnyDlq
<1>1. ASSUME NEW call \in DlqCalls PROVE DlqConfig(call) \in AnyDlq
  BY DEF AnyDlq, Configs, DlqConfig
<1>2. QED
  BY <1>1 DEF ConnectorOf

\* The first n of the calls, as they were read.
LEMMA ReadKnown ==
  ASSUME NEW n \in 0..MaxCalls
  PROVE  /\ \A calls \in Seq(ConnectorCalls) : n <= Len(calls) =>
              [k \in 1..n |-> ConnectorOf(calls[k])] \in AnyConnectors
         /\ \A calls \in Seq(ProcessorCalls) : n <= Len(calls) =>
              [k \in 1..n |-> Processor(calls[k])] \in AnyProcessors
<1>1. ASSUME NEW calls \in Seq(ConnectorCalls), n <= Len(calls)
      PROVE  [k \in 1..n |-> ConnectorOf(calls[k])] \in AnyConnectors
  <2>1. \A k \in 1..n : calls[k] \in ConnectorCalls
    BY <1>1, MaxCallsNat
  <2>2. QED
    BY <2>1, SpecsKnown DEF AnyConnectors, UpTo
<1>2. ASSUME NEW calls \in Seq(ProcessorCalls), n <= Len(calls)
      PROVE  [k \in 1..n |-> Processor(calls[k])] \in AnyProcessors
  <2>1. \A k \in 1..n : calls[k] \in ProcessorCalls
    BY <1>2, MaxCallsNat
  <2>2. QED
    BY <2>1 DEF AnyProcessors, UpTo
<1>3. QED
  BY <1>1, <1>2

-----------------------------------------------------------------------------
\* Fluent calls.

\* t is what was said when at least s had been said.
Extends(s, t) ==
  /\ Len(s) <= Len(t)
  /\ \A k \in 1..Len(s) : t[k] = s[k]

\* A fluent call adds one part to the builder, or replaces the DLQ.
LEMMA Applies ==
  ASSUME NEW b
  PROVE  /\ \A call \in ConnectorCalls :
              Apply(b, call) = [b EXCEPT !.connectors = Append(@, ConnectorOf(call))]
         /\ \A call \in ProcessorCalls :
              Apply(b, call) = [b EXCEPT !.processors = Append(@, Processor(call))]
         /\ \A call \in DlqCalls : Apply(b, call) = [b EXCEPT !.dlq = {DlqConfig(call)}]
<1>1. ASSUME NEW call \in ConnectorCalls
      PROVE  Apply(b, call) = [b EXCEPT !.connectors = Append(@, ConnectorOf(call))]
  BY DEF Apply, Source, Destination, ConnectorOf, ConnectorCalls
<1>2. ASSUME NEW call \in ProcessorCalls
      PROVE  Apply(b, call) = [b EXCEPT !.processors = Append(@, Processor(call))]
  BY DEF Apply, Process, ProcessorCalls
<1>3. ASSUME NEW call \in DlqCalls PROVE Apply(b, call) = [b EXCEPT !.dlq = {DlqConfig(call)}]
  BY DEF Apply, Dlq, DlqCalls
<1>4. QED
  BY <1>1, <1>2, <1>3

LEMMA AppendConnectorsOf ==
  ASSUME NEW calls \in Seq(ConnectorCalls), NEW call \in ConnectorCalls
  PROVE  ConnectorsOf(Append(calls, call)) = Append(ConnectorsOf(calls), ConnectorOf(call))
<1>1. PICK n \in Nat : n = Len(calls) /\ DOMAIN calls = 1..n
  OBVIOUS
<1>2. PICK u : u = Append(calls, call)
  OBVIOUS
<1>3. DOMAIN u = 1..n + 1 /\ \A k \in 1..n + 1 : u[k] = IF k <= n THEN calls[k] ELSE call
  BY <1>1, <1>2
<1>4. PICK v : v = [k \in 1..n |-> ConnectorOf(calls[k])]
  OBVIOUS
<1>5. Append(v, ConnectorOf(call)) =
        [k \in 1..n + 1 |-> IF k <= n THEN ConnectorOf(calls[k]) ELSE ConnectorOf(call)]
  BY <1>4
<1>6. ConnectorsOf(u) = [k \in 1..n + 1 |-> ConnectorOf(u[k])] /\ ConnectorsOf(calls) = v
  BY <1>1, <1>3, <1>4 DEF ConnectorsOf
<1>7. \A k \in 1..n + 1 : ConnectorOf(u[k]) = IF k <= n THEN ConnectorOf(calls[k]) ELSE ConnectorOf(call)
  BY <1>3
<1>8. QED
  BY <1>2, <1>5, <1>6, <1>7

LEMMA AppendProcessorsOf ==
  ASSUME NEW calls \in Seq(ProcessorCalls), NEW call \in ProcessorCalls
  PROVE  ProcessorsOf(Append(calls, call)) = Append(ProcessorsOf(calls), Processor(call))
<1>1. PICK n \in Nat : n = Len(calls) /\ DOMAIN calls = 1..n
  OBVIOUS
<1>2. PICK u : u = Append(calls, call)
  OBVIOUS
<1>3. DOMAIN u = 1..n + 1 /\ \A k \in 1..n + 1 : u[k] = IF k <= n THEN calls[k] ELSE call
  BY <1>1, <1>2
<1>4. PICK v : v = [k \in 1..n |-> Processor(calls[k])]
  OBVIOUS
<1>5. Append(v, Processor(call)) =
        [k \in 1..n + 1 |-> IF k <= n THEN Processor(calls[k]) ELSE Processor(call)]
  BY <1>4
<1>6. ProcessorsOf(u) = [k \in 1..n + 1 |-> Processor(u[k])] /\ ProcessorsOf(calls) = v
  BY <1>1, <1>3, <1>4 DEF ProcessorsOf
<1>7. \A k \in 1..n + 1 : Processor(u[k]) = IF k <= n THEN Processor(calls[k]) ELSE Processor(call)
  BY <1>3
<1>8. QED
  BY <1>2, <1>5, <1>6, <1>7

\* A builder whose parts are what was said is one that can be read.
LEMMA PartsKnown ==
  ASSUME NEW s \in AnySaid
  PROVE  /\ ConnectorsOf(s.connectors) \in AnyConnectors
         /\ ProcessorsOf(s.processors) \in AnyProcessors
         /\ DlqOf(s.dlqs) \in AnyDlqs
<1>1. /\ s.connectors \in Seq(ConnectorCalls) /\ Len(s.connectors) \in 0..MaxCalls
      /\ s.processors \in Seq(ProcessorCalls) /\ Len(s.processors) \in 0..MaxCalls
      /\ s.dlqs \in Seq(DlqCalls)
  BY SaidParts
<1>2. DOMAIN s.connectors = 1..Len(s.connectors) /\ DOMAIN s.processors = 1..Len(s.processors)
  BY <1>1
<1>3. ConnectorsOf(s.connectors) \in AnyConnectors
  <2>1. PICK n \in 0..MaxCalls : n = Len(s.connectors)
    BY <1>1
  <2>2. n <= Len(s.connectors)
    BY <1>1, <2>1
  <2>3. QED
    BY <1>1, <1>2, <2>1, <2>2, ReadKnown DEF ConnectorsOf
<1>4. ProcessorsOf(s.processors) \in AnyProcessors
  <2>1. PICK n \in 0..MaxCalls : n = Len(s.processors)
    BY <1>1
  <2>2. n <= Len(s.processors)
    BY <1>1, <2>1
  <2>3. QED
    BY <1>1, <1>2, <2>1, <2>2, ReadKnown DEF ProcessorsOf
<1>5. DlqOf(s.dlqs) \in AnyDlqs
  <2>1. CASE s.dlqs = <<>>
    BY <2>1 DEF DlqOf, AnyDlqs
  <2>2. CASE s.dlqs # <<>>
    <3>1. s.dlqs[Len(s.dlqs)] \in DlqCalls
      BY <1>1, <2>2
    <3>2. QED
      BY <2>2, <3>1, SpecsKnown DEF DlqOf, AnyDlqs
  <2>3. QED
    BY <2>1, <2>2
<1>6. QED
  BY <1>3, <1>4, <1>5

\* One more call keeps within the bound of AnySaid.
LEMMA SaidMore ==
  ASSUME NEW s \in AnySaid, Said(s) < MaxCalls
  PROVE  /\ \A call \in ConnectorCalls :
              \A u : u = Append(s.connectors, call) => [s EXCEPT !.connectors = u] \in AnySaid
         /\ \A call \in ProcessorCalls :
              \A u : u = Append(s.processors, call) => [s EXCEPT !.processors = u] \in AnySaid
         /\ \A call \in DlqCalls :
              \A u : u = Append(s.dlqs, call) => [s EXCEPT !.dlqs = u] \in AnySaid
<1>0. /\ s \in [connectors : Seq(ConnectorCalls), processors : Seq(ProcessorCalls), dlqs : Seq(DlqCalls)]
      /\ MaxCalls \in Nat
  BY SaidParts DEF AnySaid
<1>1. PICK l \in Nat, m \in Nat, n \in Nat :
        l = Len(s.connectors) /\ m = Len(s.processors) /\ n = Len(s.dlqs) /\ l + m + n < MaxCalls
  BY <1>0 DEF Said
<1>2. ASSUME NEW call \in ConnectorCalls, NEW u, u = Append(s.connectors, call)
      PROVE  [s EXCEPT !.connectors = u] \in AnySaid
  <2>1. u \in Seq(ConnectorCalls) /\ Len(u) = l + 1
    BY <1>0, <1>1, <1>2, AppendAt
  <2>2. PICK t : t = [s EXCEPT !.connectors = u]
    OBVIOUS
  <2>3. /\ t \in [connectors : Seq(ConnectorCalls), processors : Seq(ProcessorCalls), dlqs : Seq(DlqCalls)]
        /\ t.connectors = u /\ t.processors = s.processors /\ t.dlqs = s.dlqs
    BY <1>0, <2>1, <2>2
  <2>4. Said(t) <= MaxCalls
    BY <1>0, <1>1, <2>1, <2>3 DEF Said
  <2>5. QED
    BY <2>2, <2>3, <2>4 DEF AnySaid
<1>3. ASSUME NEW call \in ProcessorCalls, NEW u, u = Append(s.processors, call)
      PROVE  [s EXCEPT !.processors = u] \in AnySaid
  <2>1. u \in Seq(ProcessorCalls) /\ Len(u) = m + 1
    BY <1>0, <1>1, <1>3, AppendAt
  <2>2. PICK t : t = [s EXCEPT !.processors = u]
    OBVIOUS
  <2>3. /\ t \in [connectors : Seq(ConnectorCalls), processors : Seq(ProcessorCalls), dlqs : Seq(DlqCalls)]
        /\ t.connectors = s.connectors /\ t.processors = u /\ t.dlqs = s.dlqs
    BY <1>0, <2>1, <2>2
  <2>4. Said(t) <= MaxCalls
    BY <1>0, <1>1, <2>1, <2>3 DEF Said
  <2>5. QED
    BY <2>2, <2>3, <2>4 DEF AnySaid
<1>4. ASSUME NEW call \in DlqCalls, NEW u, u = Append(s.dlqs, call)
      PROVE  [s EXCEPT !.dlqs = u] \in AnySaid
  <2>1. u \in Seq(DlqCalls) /\ Len(u) = n + 1
    BY <1>0, <1>1, <1>4, AppendAt
  <2>2. PICK t : t = [s EXCEPT !.dlqs = u]
    OBVIOUS
  <2>3. /\ t \in [connectors : Seq(ConnectorCalls), processors : Seq(ProcessorCalls), dlqs : Seq(DlqCalls)]
        /\ t.connectors = s.connectors /\ t.processors = s.processors /\ t.dlqs = u
    BY <1>0, <2>1, <2>2
  <2>4. Said(t) <= MaxCalls
    BY <1>0, <1>1, <2>1, <2>3 DEF Said
  <2>5. QED
    BY <2>2, <2>3, <2>4 DEF AnySaid
<1>5. QED
  BY <1>2, <1>3, <1>4

\* What has been said of each kind was said before, or is one more.
SaidOn(s, t) ==
  /\ Extends(s.connectors, t.connectors) /\ Extends(s.processors, t.processors)
  /\ Extends(s.dlqs, t.dlqs)

LEMMA ExtendsSelf == ASSUME NEW S, NEW s \in Seq(S) PROVE Extends(s, s)
BY DEF Extends

LEMMA ExtendsMore ==
  ASSUME NEW S, NEW s \in Seq(S), NEW x \in S PROVE Extends(s, Append(s, x))
<1>1. PICK n \in Nat : n = Len(s)
  OBVIOUS
<1>2. PICK t : t = Append(s, x)
  OBVIOUS
<1>3. Len(t) = n + 1 /\ \A k \in 1..n + 1 : t[k] = IF k <= n THEN s[k] ELSE x
  BY <1>1, <1>2, AppendAt
<1>4. QED
  BY <1>1, <1>2, <1>3 DEF Extends

LEMMA SaidOnSelf == ASSUME NEW s \in AnySaid PROVE SaidOn(s, s)
BY SaidParts, ExtendsSelf DEF SaidOn

\* What a fluent call does to its builder, and to what was said to it.
LEMMA FluentHere ==
  ASSUME BuildersOK, NEW b \in Builders, NEW call \in Calls, Fluent(b, call)
  PROVE  BuilderOK(b)' /\ SaidOn(said[b], said'[b])
<1>1. PICK s \in AnySaid, o \in Draft(b) :
        /\ s = said[b] /\ o = builder[b]
        /\ o.connectors = ConnectorsOf(s.connectors) /\ o.processors = ProcessorsOf(s.processors)
        /\ o.dlq = DlqOf(s.dlqs)
  BY DEF BuildersOK, BuilderOK
<1>2. /\ Said(s) < MaxCalls
      /\ builder'[b] = Apply(o, call)
  BY <1>1 DEF Fluent, BuildersOK
<1>3. /\ s.connectors \in Seq(ConnectorCalls) /\ s.processors \in Seq(ProcessorCalls)
      /\ s.dlqs \in Seq(DlqCalls)
      /\ s \in [connectors : Seq(ConnectorCalls), processors : Seq(ProcessorCalls), dlqs : Seq(DlqCalls)]
  BY SaidParts DEF AnySaid
<1>e. /\ Extends(s.connectors, s.connectors) /\ Extends(s.processors, s.processors)
      /\ Extends(s.dlqs, s.dlqs)
  BY <1>3, ExtendsSelf
<1>4. ASSUME call \in ConnectorCalls, said' = [said EXCEPT ![b].connectors = Append(@, call)]
      PROVE  BuilderOK(b)' /\ SaidOn(said[b], said'[b])
  <2>1. PICK u : u = Append(s.connectors, call)
    OBVIOUS
  <2>2. PICK t : t = [s EXCEPT !.connectors = u]
    OBVIOUS
  <2>3. said'[b] = t
    BY <1>1, <1>4, <2>1, <2>2 DEF BuildersOK
  <2>4. t \in AnySaid
    BY <1>2, <1>4, <2>1, <2>2, SaidMore
  <2>5. t.connectors = u /\ t.processors = s.processors /\ t.dlqs = s.dlqs
    BY <1>3, <2>2
  <2>6. PICK v : v = ConnectorsOf(u)
    OBVIOUS
  <2>7. v = Append(o.connectors, ConnectorOf(call)) /\ v \in AnyConnectors
    BY <1>1, <1>3, <1>4, <2>1, <2>4, <2>5, <2>6, AppendConnectorsOf, PartsKnown
  <2>8. builder'[b] = [o EXCEPT !.connectors = v]
    BY <1>2, <1>4, <2>7, Applies
  <2>9. /\ builder'[b] \in Draft(b) /\ builder'[b].connectors = v
        /\ builder'[b].processors = o.processors /\ builder'[b].dlq = o.dlq
    BY <2>7, <2>8 DEF Draft
  <2>10. Extends(s.connectors, u)
    BY <1>3, <1>4, <2>1, ExtendsMore
  <2>11. SaidOn(s, t)
    BY <1>e, <2>5, <2>10 DEF SaidOn
  <2>12. QED
    BY <1>1, <2>3, <2>4, <2>5, <2>6, <2>9, <2>11 DEF BuilderOK
<1>5. ASSUME call \in ProcessorCalls, said' = [said EXCEPT ![b].processors = Append(@, call)]
      PROVE  BuilderOK(b)' /\ SaidOn(said[b], said'[b])
  <2>1. PICK u : u = Append(s.processors, call)
    OBVIOUS
  <2>2. PICK t : t = [s EXCEPT !.processors = u]
    OBVIOUS
  <2>3. said'[b] = t
    BY <1>1, <1>5, <2>1, <2>2 DEF BuildersOK
  <2>4. t \in AnySaid
    BY <1>2, <1>5, <2>1, <2>2, SaidMore
  <2>5. t.connectors = s.connectors /\ t.processors = u /\ t.dlqs = s.dlqs
    BY <1>3, <2>2
  <2>6. PICK v : v = ProcessorsOf(u)
    OBVIOUS
  <2>7. v = Append(o.processors, Processor(call)) /\ v \in AnyProcessors
    BY <1>1, <1>3, <1>5, <2>1, <2>4, <2>5, <2>6, AppendProcessorsOf, PartsKnown
  <2>8. builder'[b] = [o EXCEPT !.processors = v]
    BY <1>2, <1>5, <2>7, Applies
  <2>9. /\ builder'[b] \in Draft(b) /\ builder'[b].processors = v
        /\ builder'[b].connectors = o.connectors /\ builder'[b].dlq = o.dlq
    BY <2>7, <2>8 DEF Draft
  <2>10. Extends(s.processors, u)
    BY <1>3, <1>5, <2>1, ExtendsMore
  <2>11. SaidOn(s, t)
    BY <1>e, <2>5, <2>10 DEF SaidOn
  <2>12. QED
    BY <1>1, <2>3, <2>4, <2>5, <2>6, <2>9, <2>11 DEF BuilderOK
<1>6. ASSUME call \in DlqCalls, said' = [said EXCEPT ![b].dlqs = Append(@, call)]
      PROVE  BuilderOK(b)' /\ SaidOn(said[b], said'[b])
  <2>1. PICK u : u = Append(s.dlqs, call)
    OBVIOUS
  <2>2. PICK t : t = [s EXCEPT !.dlqs = u]
    OBVIOUS
  <2>3. said'[b] = t
    BY <1>1, <1>6, <2>1, <2>2 DEF BuildersOK
  <2>4. t \in AnySaid
    BY <1>2, <1>6, <2>1, <2>2, SaidMore
  <2>5. t.connectors = s.connectors /\ t.processors = s.processors /\ t.dlqs = u
    BY <1>3, <2>2
  <2>6. PICK v : v = DlqOf(u)
    OBVIOUS
  <2>7. v = {DlqConfig(call)} /\ v \in AnyDlqs
    <3>1. u # <<>> /\ u[Len(u)] = call
      BY <1>3, <1>6, <2>1
    <3>2. QED
      BY <2>4, <2>5, <2>6, <3>1, PartsKnown DEF DlqOf
  <2>8. builder'[b] = [o EXCEPT !.dlq = v]
    BY <1>2, <1>6, <2>7, Applies
  <2>9. /\ builder'[b] \in Draft(b) /\ builder'[b].dlq = v
        /\ builder'[b].connectors = o.connectors /\ builder'[b].processors = o.processors
    BY <2>7, <2>8 DEF Draft
  <2>10. Extends(s.dlqs, u)
    BY <1>3, <1>6, <2>1, ExtendsMore
  <2>11. SaidOn(s, t)
    BY <1>e, <2>5, <2>10 DEF SaidOn
  <2>12. QED
    BY <1>1, <2>3, <2>4, <2>5, <2>6, <2>9, <2>11 DEF BuilderOK
<1>7. QED
  BY <1>4, <1>5, <1>6 DEF Fluent

LEMMA FluentElsewhere ==
  ASSUME BuildersOK, NEW b \in Builders, NEW call \in Calls, Fluent(b, call)
  PROVE  /\ said' = [x \in Builders |-> said'[x]] /\ builder' = [x \in Builders |-> builder'[x]]
         /\ \A x \in Builders \ {b} : said'[x] = said[x] /\ builder'[x] = builder[x]
<1>1. \E t : said' = [said EXCEPT ![b] = t]
  BY DEF Fluent
<1>2. \E o : builder' = [builder EXCEPT ![b] = o]
  BY DEF Fluent
<1>3. QED
  BY <1>1, <1>2 DEF BuildersOK

\* Builders stay what was said to them.
LEMMA BuildersStep ==
  ASSUME BuildersOK, [BuiltNext]_allVars
  PROVE  BuildersOK' /\ \A b \in Builders : SaidOn(said[b], said'[b])
<1>1. ASSUME NEW b \in Builders, NEW call \in Calls, Fluent(b, call)
      PROVE  BuildersOK' /\ \A x \in Builders : SaidOn(said[x], said'[x])
  <2>1. ASSUME NEW x \in Builders PROVE BuilderOK(x)' /\ SaidOn(said[x], said'[x])
    <3>1. CASE x = b
      BY <1>1, <3>1, FluentHere
    <3>2. CASE x # b
      <4>1. said'[x] = said[x] /\ builder'[x] = builder[x] /\ BuilderOK(x)
        BY <1>1, <3>2, FluentElsewhere DEF BuildersOK
      <4>2. QED
        BY <4>1, SaidOnSelf DEF BuilderOK
    <3>3. QED
      BY <3>1, <3>2
  <2>2. QED
    BY <1>1, <2>1, FluentElsewhere DEF BuildersOK
<1>2. CASE UNCHANGED <<builder, said>>
  BY <1>2, SaidOnSelf DEF BuildersOK, BuilderOK
<1>3. QED
  BY <1>1, <1>2 DEF BuiltNext, Run, Build, builtVars, history, allVars

-----------------------------------------------------------------------------
\* What is told of a processor and of a DLQ.
ToldProcessor(p) == [p EXCEPT !.workers = Given(@, 0)]
ToldDlq(d) ==
  [d EXCEPT !.window_size = Given(@, 0), !.window_nack_threshold = Given(@, 0)]
NumDlqs(dlq) == IF dlq = None THEN 0 ELSE 1

\* q is the k-th request of a draft of n connectors and m processors.
RequestIs(q, k, o, n, m, start) ==
  \/ /\ k = 1
     /\ q = RequestFor("CreatePipeline", [name |-> o.name, description |-> o.description])
  \/ k \in 2..n + 1 /\ q = RequestFor("CreateConnector", o.connectors[k - 1])
  \/ k \in n + 2..n + m + 1 /\ q = RequestFor("CreateProcessor", ToldProcessor(o.processors[k - n - 1]))
  \/ k = n + m + 2 /\ \E d \in o.dlq : q = RequestFor("UpdateDLQ", ToldDlq(d))
  \/ k = n + m + NumDlqs(o.dlq) + 2 /\ start /\ q = RequestFor("StartPipeline", <<>>)

\* A plan is five parts in a row.
LEMMA RequestsAt ==
  ASSUME NEW o, o.dlq \in AnyDlqs, NEW start \in BOOLEAN, NEW p, p = PlanOf(o, start), NEW k \in DOMAIN p,
         NEW n \in Nat, DOMAIN o.connectors = 1..n, NEW m \in Nat, DOMAIN o.processors = 1..m
  PROVE  RequestIs(p[k], k, o, n, m, start)
<1> DEFINE built == BuildRequests(o)
<1>1. /\ built.create_pipeline = [name |-> o.name, description |-> o.description]
      /\ built.create_connectors = [i \in 1..n |-> o.connectors[i]]
      /\ built.create_processors = [i \in 1..m |-> ToldProcessor(o.processors[i])]
      /\ built.dlq = {ToldDlq(d) : d \in o.dlq}
  <2>1. built.create_pipeline = [name |-> o.name, description |-> o.description]
    BY DEF BuildRequests
  <2>2. built.create_connectors = [i \in 1..n |-> o.connectors[i]]
    BY DEF BuildRequests
  <2>3. built.create_processors = [i \in 1..m |-> ToldProcessor(o.processors[i])]
    BY DEF BuildRequests, ToldProcessor
  <2>4. built.dlq = {ToldDlq(d) : d \in o.dlq}
    BY DEF BuildRequests, ToldDlq
  <2>5. QED
    BY <2>1, <2>2, <2>3, <2>4
<1>2. PICK a : a = <<RequestFor("CreatePipeline", built.create_pipeline)>>
  OBVIOUS
<1>3. PICK b : b = Sent("CreateConnector", built.create_connectors)
  OBVIOUS
<1>4. PICK c : c = Sent("CreateProcessor", built.create_processors)
  OBVIOUS
<1>5. PICK d : d = If(built.dlq # None, RequestFor("UpdateDLQ", Given(built.dlq, None)))
  OBVIOUS
<1>6. PICK e : e = If(start, RequestFor("StartPipeline", <<>>))
  OBVIOUS
<1>7. PICK ab : ab = a \o b
  OBVIOUS
<1>8. PICK abc : abc = ab \o c
  OBVIOUS
<1>9. PICK abcd : abcd = abc \o d
  OBVIOUS
<1>10. p = abcd \o e
  BY <1>2, <1>3, <1>4, <1>5, <1>6, <1>7, <1>8, <1>9 DEF PlanOf, Requests
<1>11. /\ b = [i \in 1..n |-> RequestFor("CreateConnector", o.connectors[i])]
       /\ c = [i \in 1..m |-> RequestFor("CreateProcessor", ToldProcessor(o.processors[i]))]
  BY <1>1, <1>3, <1>4 DEF Sent
<1>12. IF o.dlq = None THEN d = <<>>
       ELSE \E x \in o.dlq : d = <<RequestFor("UpdateDLQ", ToldDlq(x))>>
  <2>1. CASE o.dlq = None
    BY <1>1, <1>5, <2>1 DEF If, None
  <2>2. CASE o.dlq # None
    <3>1. PICK x : o.dlq = {x}
      BY <2>2 DEF AnyDlqs
    <3>2. built.dlq = {ToldDlq(x)} /\ Given(built.dlq, None) = ToldDlq(x)
      BY <1>1, <3>1 DEF Given, None
    <3>3. d = <<RequestFor("UpdateDLQ", ToldDlq(x))>>
      BY <1>5, <3>2 DEF If, None
    <3>4. QED
      BY <2>2, <3>1, <3>3
  <2>3. QED
    BY <2>1, <2>2
<1>13. e = IF start THEN <<RequestFor("StartPipeline", <<>>)>> ELSE <<>>
  BY <1>6 DEF If
<1>14. a = <<RequestFor("CreatePipeline", [name |-> o.name, description |-> o.description])>>
  BY <1>1, <1>2
<1> DEFINE All == {a[1]} \cup {b[i] : i \in 1..n} \cup {c[i] : i \in 1..m} \cup {d[1]} \cup {e[1]}
<1> HIDE DEF built
<1>15. /\ a \in Seq(All) /\ Len(a) = 1
       /\ a[1] = RequestFor("CreatePipeline", [name |-> o.name, description |-> o.description])
  <2>1. PICK x : x = RequestFor("CreatePipeline", [name |-> o.name, description |-> o.description])
    OBVIOUS
  <2>2. a = <<x>>
    BY <1>14, <2>1
  <2>3. QED
    BY <2>1, <2>2
<1>16. b \in Seq(All) /\ Len(b) = n /\ c \in Seq(All) /\ Len(c) = m
  BY <1>11
<1>17. PICK nd \in {0, 1} : d \in Seq(All) /\ Len(d) = nd /\ nd = NumDlqs(o.dlq)
  <2>1. CASE o.dlq = None
    BY <1>12, <2>1 DEF NumDlqs
  <2>2. CASE o.dlq # None
    <3>1. PICK x : d = <<x>>
      BY <1>12, <2>2
    <3>2. QED
      BY <2>2, <3>1 DEF NumDlqs
  <2>3. QED
    BY <2>1, <2>2
<1>18. PICK ne \in {0, 1} : e \in Seq(All) /\ Len(e) = ne /\ (ne = 1 => start)
  <2>1. CASE start
    <3>1. PICK x : e = <<x>>
      BY <1>13, <2>1
    <3>2. QED
      BY <2>1, <3>1
  <2>2. CASE ~start
    BY <1>13, <2>2
  <2>3. QED
    BY <2>1, <2>2
<1> HIDE DEF All
<1>s. PICK S : a \in Seq(S) /\ b \in Seq(S) /\ c \in Seq(S) /\ d \in Seq(S) /\ e \in Seq(S)
  BY <1>15, <1>16, <1>17, <1>18
<1>t. ab \in Seq(S) /\ abc \in Seq(S) /\ abcd \in Seq(S)
  BY <1>7, <1>8, <1>9, <1>s
<1>a. /\ Len(ab) = Len(a) + Len(b)
      /\ DOMAIN ab = 1..Len(a) + Len(b)
      /\ \A i \in DOMAIN ab : ab[i] = IF i <= Len(a) THEN a[i] ELSE b[i - Len(a)]
  BY <1>7, <1>s, ConcatAt, Zenon
<1>b. /\ Len(abc) = Len(ab) + Len(c)
      /\ DOMAIN abc = 1..Len(ab) + Len(c)
      /\ \A i \in DOMAIN abc : abc[i] = IF i <= Len(ab) THEN ab[i] ELSE c[i - Len(ab)]
  BY <1>8, <1>s, <1>t, ConcatAt, Zenon
<1>c. /\ Len(abcd) = Len(abc) + Len(d)
      /\ DOMAIN abcd = 1..Len(abc) + Len(d)
      /\ \A i \in DOMAIN abcd : abcd[i] = IF i <= Len(abc) THEN abc[i] ELSE d[i - Len(abc)]
  BY <1>9, <1>s, <1>t, ConcatAt, Zenon
<1>d. /\ DOMAIN p = 1..Len(abcd) + Len(e)
      /\ p[k] = IF k <= Len(abcd) THEN abcd[k] ELSE e[k - Len(abcd)]
  <2>1. PICK t : t = abcd \o e
    OBVIOUS
  <2>2. /\ DOMAIN t = 1..Len(abcd) + Len(e)
        /\ \A i \in DOMAIN t : t[i] = IF i <= Len(abcd) THEN abcd[i] ELSE e[i - Len(abcd)]
    BY <2>1, <1>s, <1>t, ConcatAt, Zenon
  <2>3. p = t
    BY <1>10, <2>1, Zenon
  <2>4. QED
    BY <2>2, <2>3, Zenon
<1>l. Len(a) = 1 /\ Len(b) = n /\ Len(c) = m /\ Len(d) = nd /\ Len(e) = ne
  BY <1>15, <1>16, <1>17, <1>18
<1>f. Len(ab) = 1 + n /\ Len(abc) = 1 + n + m /\ Len(abcd) = 1 + n + m + nd
  BY <1>l, <1>a, <1>b, <1>c
<1>k. k \in 1..1 + n + m + nd + ne
  BY <1>d, <1>f, <1>l
<1>g. /\ p[k] = IF k <= 1 + n + m + nd THEN abcd[k] ELSE e[k - (1 + n + m + nd)]
      /\ k <= 1 + n + m + nd => abcd[k] = IF k <= 1 + n + m THEN abc[k] ELSE d[k - (1 + n + m)]
      /\ k <= 1 + n + m => abc[k] = IF k <= 1 + n THEN ab[k] ELSE c[k - (1 + n)]
      /\ k <= 1 + n => ab[k] = IF k <= 1 THEN a[k] ELSE b[k - 1]
  <2>1. /\ DOMAIN ab = 1..1 + n /\ DOMAIN abc = 1..1 + n + m /\ DOMAIN abcd = 1..1 + n + m + nd
        /\ p[k] = IF k <= 1 + n + m + nd THEN abcd[k] ELSE e[k - (1 + n + m + nd)]
    BY <1>a, <1>b, <1>c, <1>d, <1>f, <1>l
  <2>2. k <= 1 + n + m + nd => abcd[k] = IF k <= 1 + n + m THEN abc[k] ELSE d[k - (1 + n + m)]
    BY <1>c, <1>f, <1>k, <2>1
  <2>3. k <= 1 + n + m => abc[k] = IF k <= 1 + n THEN ab[k] ELSE c[k - (1 + n)]
    <3>1. k <= 1 + n + m => k \in DOMAIN abc
      BY <1>k, <2>1
    <3>2. k <= 1 + n + m => abc[k] = IF k <= Len(ab) THEN ab[k] ELSE c[k - Len(ab)]
      BY <1>b, <3>1, Zenon
    <3>3. QED
      BY <1>f, <3>2
  <2>4. k <= 1 + n => ab[k] = IF k <= 1 THEN a[k] ELSE b[k - 1]
    BY <1>a, <1>l, <1>k, <2>1
  <2>5. QED
    BY <2>1, <2>2, <2>3, <2>4
<1>h. \/ k = 1 /\ p[k] = a[1]
      \/ k \in 2..n + 1 /\ k - 1 \in 1..n /\ p[k] = b[k - 1]
      \/ k \in n + 2..n + m + 1 /\ k - (1 + n) \in 1..m /\ k - (1 + n) = k - n - 1 /\ p[k] = c[k - (1 + n)]
      \/ nd = 1 /\ k = n + m + 2 /\ p[k] = d[1]
      \/ ne = 1 /\ k = n + m + nd + 2 /\ p[k] = e[1]
  <2>1. CASE k = 1
    BY <1>g, <2>1
  <2>2. CASE k \in 2..n + 1
    BY <1>g, <2>2
  <2>3. CASE k \in n + 2..n + m + 1
    BY <1>g, <2>3
  <2>4. CASE k > n + m + 1 /\ k <= n + m + nd + 1
    <3>1. nd = 1 /\ k = n + m + 2 /\ k - (1 + n + m) = 1
      BY <1>k, <2>4
    <3>2. QED
      BY <1>g, <2>4, <3>1
  <2>5. CASE k > n + m + nd + 1
    <3>1. ne = 1 /\ k = n + m + nd + 2 /\ k - (1 + n + m + nd) = 1
      BY <1>k, <2>5
    <3>2. QED
      BY <1>g, <2>5, <3>1
  <2>6. QED
    BY <1>k, <2>1, <2>2, <2>3, <2>4, <2>5
<1>19. QED
  <2>1. CASE k = 1 /\ p[k] = a[1]
    BY <1>15, <2>1, Zenon DEF RequestIs
  <2>2. CASE k \in 2..n + 1 /\ k - 1 \in 1..n /\ p[k] = b[k - 1]
    BY <1>11, <2>2 DEF RequestIs
  <2>3. CASE k \in n + 2..n + m + 1 /\ k - (1 + n) \in 1..m /\ k - (1 + n) = k - n - 1 /\ p[k] = c[k - (1 + n)]
    BY <1>11, <2>3 DEF RequestIs
  <2>4. CASE nd = 1 /\ k = n + m + 2 /\ p[k] = d[1]
    <3>1. \E x \in o.dlq : p[k] = RequestFor("UpdateDLQ", ToldDlq(x))
      BY <1>12, <1>17, <2>4 DEF NumDlqs
    <3>2. QED
      BY <2>4, <3>1, Zenon DEF RequestIs
  <2>5. CASE ne = 1 /\ k = n + m + nd + 2 /\ p[k] = e[1]
    <3>1. start /\ p[k] = RequestFor("StartPipeline", <<>>)
      BY <1>13, <1>18, <2>5
    <3>2. k = n + m + NumDlqs(o.dlq) + 2
      BY <1>17, <2>5
    <3>3. QED
      BY <3>1, <3>2, Zenon DEF RequestIs
  <2>6. QED
    BY <1>h, <2>1, <2>2, <2>3, <2>4, <2>5, Zenon

\* What each payload tells.
LEMMA SettingsTold ==
  ASSUME NEW call, NEW settings, settings = Settings(call.settings, call.kwargs)
  PROVE  TellsSettings(settings, call)
BY DEF TellsSettings, Settings, Text

LEMMA OptionTold ==
  ASSUME NEW option, NEW default, NEW value, value = Given(option, default)
  PROVE  TellsOption(value, option, default)
BY DEF TellsOption, Given, None

LEMMA ConnectorTold ==
  ASSUME NEW call \in ConnectorCalls
  PROVE  TellsConnector(ConnectorOf(call), call)
<1>1. TellsSettings(ConnectorOf(call).settings, call)
  BY SettingsTold DEF ConnectorOf, Connector
<1>2. QED
  BY <1>1 DEF TellsConnector, ConnectorOf, Connector, ConnectorCalls

LEMMA ProcessorTold ==
  ASSUME NEW call \in ProcessorCalls
  PROVE  TellsProcessor(ToldProcessor(Processor(call)), call)
<1> DEFINE arg == ToldProcessor(Processor(call))
<1>1. /\ arg.plugin = call.plugin /\ arg.condition = call.condition
      /\ arg.workers = Given(call.workers, 0)
      /\ arg.settings = Settings(call.settings, call.kwargs)
  BY DEF ToldProcessor, Processor
<1>2. QED
  BY <1>1, SettingsTold, OptionTold DEF TellsProcessor

\* A DLQ whose parts are those of counted calls tells them.
LEMMA DlqTold ==
  ASSUME NEW d \in AnyDlq, NEW calls, DlqReadOK(d, calls)
  PROVE  LET arg == ToldDlq(d) IN
         /\ \E call \in calls : arg.plugin = call.plugin
         /\ \E call \in calls : TellsSettings(arg.settings, call)
         /\ \E call \in calls : TellsOption(arg.window_size, call.window_size, 1)
         /\ \E call \in calls :
              TellsOption(arg.window_nack_threshold, call.window_nack_threshold, 0)
<1> DEFINE arg == ToldDlq(d)
<1>1. /\ arg.plugin = d.plugin /\ arg.settings = d.settings
      /\ arg.window_size = Given(d.window_size, 0)
      /\ arg.window_nack_threshold = Given(d.window_nack_threshold, 0)
  BY DEF ToldDlq, AnyDlq
<1>2. \A call \in calls :
        /\ DlqConfig(call).plugin = call.plugin
        /\ DlqConfig(call).settings = Settings(call.settings, call.kwargs)
        /\ Given(DlqConfig(call).window_size, 0) = Given(call.window_size, 1)
        /\ Given(DlqConfig(call).window_nack_threshold, 0) = Given(call.window_nack_threshold, 0)
  BY DEF DlqConfig, Given, None
<1>3. \E call \in calls : arg.plugin = call.plugin
  BY <1>1, <1>2 DEF DlqReadOK
<1>4. \E call \in calls : TellsSettings(arg.settings, call)
  BY <1>1, <1>2, SettingsTold DEF DlqReadOK
<1>5. \E call \in calls : TellsOption(arg.window_size, call.window_size, 1)
  BY <1>1, <1>2, OptionTold DEF DlqReadOK
<1>6. \E call \in calls : TellsOption(arg.window_nack_threshold, call.window_nack_threshold, 0)
  BY <1>1, <1>2, OptionTold DEF DlqReadOK
<1>7. QED
  BY <1>3, <1>4, <1>5, <1>6

-----------------------------------------------------------------------------
\* Building requests.

LEMMA SaidLens ==
  ASSUME NEW s \in AnySaid
  PROVE  \E a \in Nat, b \in Nat, c \in Nat :
           /\ a = Len(s.connectors) /\ b = Len(s.processors) /\ c = Len(s.dlqs)
           /\ DOMAIN s.connectors = 1..a /\ DOMAIN s.processors = 1..b /\ DOMAIN s.dlqs = 1..c
<1>1. /\ s.connectors \in Seq(ConnectorCalls) /\ s.processors \in Seq(ProcessorCalls)
      /\ s.dlqs \in Seq(DlqCalls)
  BY SaidParts
<1>2. QED
  BY <1>1

\* What was read stays between what had been said before and what is said now.
LEMMA ReadKept ==
  ASSUME NEW s \in AnySaid, NEW t \in AnySaid, NEW u \in AnySaid, SaidOn(t, u)
  PROVE  /\ Grown(s, t) => Grown(s, u)
         /\ \A part, o : ReadSoFar(part, o, s, t) => ReadSoFar(part, o, s, u)
<1>s. PICK a \in Nat, b \in Nat, c \in Nat :
        a = Len(s.connectors) /\ b = Len(s.processors) /\ c = Len(s.dlqs)
  BY SaidLens
<1>t. PICK a1 \in Nat, b1 \in Nat, c1 \in Nat :
        a1 = Len(t.connectors) /\ b1 = Len(t.processors) /\ c1 = Len(t.dlqs) /\ DOMAIN t.dlqs = 1..c1
  BY SaidLens
<1>1. PICK a2 \in Nat, b2 \in Nat, c2 \in Nat :
        a2 = Len(u.connectors) /\ b2 = Len(u.processors) /\ c2 = Len(u.dlqs) /\ DOMAIN u.dlqs = 1..c2
  BY SaidLens
<1>2. /\ a1 <= a2 /\ \A k \in 1..a1 : u.connectors[k] = t.connectors[k]
      /\ b1 <= b2 /\ \A k \in 1..b1 : u.processors[k] = t.processors[k]
      /\ c1 <= c2 /\ \A k \in 1..c1 : u.dlqs[k] = t.dlqs[k]
  BY <1>s, <1>t, <1>1 DEF SaidOn, Extends
<1>3. Grown(s, t) => Grown(s, u)
  <2>1. a1 <= a2 /\ b1 <= b2 /\ c1 <= c2
    BY <1>2
  <2>2. ASSUME a <= a1, b <= b1, c <= c1 PROVE a <= a2 /\ b <= b2 /\ c <= c2
    BY <2>1, <2>2
  <2>3. Grown(s, t) <=> a <= a1 /\ b <= b1 /\ c <= c1
    BY <1>s, <1>t, Zenon DEF Grown
  <2>4. Grown(s, u) <=> a <= a2 /\ b <= b2 /\ c <= c2
    BY <1>s, <1>1, Zenon DEF Grown
  <2>5. QED
    BY <2>2, <2>3, <2>4, Zenon
<1>4. ASSUME NEW o, ReadConnectorsOK(o, s.connectors, t.connectors)
      PROVE  ReadConnectorsOK(o, s.connectors, u.connectors)
  <2>1. PICK n \in Nat : Seen(n, s.connectors, t.connectors)
                         /\ o = [k \in 1..n |-> ConnectorOf(t.connectors[k])]
    BY <1>4 DEF ReadConnectorsOK
  <2>2. a <= n /\ n <= a1 /\ n <= a2
    BY <1>s, <1>t, <1>1, <1>2, <2>1 DEF Seen
  <2>3. Seen(n, s.connectors, u.connectors)
    BY <1>s, <1>t, <1>1, <2>2 DEF Seen
  <2>4. o = [k \in 1..n |-> ConnectorOf(u.connectors[k])]
    BY <1>2, <2>1, <2>2
  <2>5. QED
    BY <2>3, <2>4 DEF ReadConnectorsOK
<1>5. ASSUME NEW o, ReadProcessorsOK(o, s.processors, t.processors)
      PROVE  ReadProcessorsOK(o, s.processors, u.processors)
  <2>1. PICK n \in Nat : Seen(n, s.processors, t.processors)
                         /\ o = [k \in 1..n |-> Processor(t.processors[k])]
    BY <1>5 DEF ReadProcessorsOK
  <2>2. b <= n /\ n <= b1 /\ n <= b2
    BY <1>s, <1>t, <1>1, <1>2, <2>1 DEF Seen
  <2>3. Seen(n, s.processors, u.processors)
    BY <1>s, <1>t, <1>1, <2>2 DEF Seen
  <2>4. o = [k \in 1..n |-> Processor(u.processors[k])]
    BY <1>2, <2>1, <2>2
  <2>5. QED
    BY <1>5, <2>3, <2>4 DEF ReadProcessorsOK
<1>6. ASSUME NEW o, ReadDlqOK(o, s.dlqs, t.dlqs)
      PROVE  ReadDlqOK(o, s.dlqs, u.dlqs)
  <2>1. Counted(s.dlqs, t.dlqs) \subseteq Counted(s.dlqs, u.dlqs)
    <3>1. ASSUME NEW j \in 1..c1, j >= c PROVE j \in 1..c2 /\ u.dlqs[j] = t.dlqs[j]
      BY <1>2, <3>1
    <3>2. QED
      BY <1>s, <1>t, <1>1, <3>1 DEF Counted
  <2>2. ASSUME NEW d \in o PROVE DlqReadOK(d, Counted(s.dlqs, u.dlqs))
    <3>1. DlqReadOK(d, Counted(s.dlqs, t.dlqs))
      BY <1>6 DEF ReadDlqOK
    <3>2. QED
      BY <2>1, <3>1 DEF DlqReadOK
  <2>3. QED
    BY <1>6, <2>2 DEF ReadDlqOK
<1>7. QED
  BY <1>3, <1>4, <1>5, <1>6 DEF ReadSoFar

\* What is read now.
LEMMA ReadNow ==
  ASSUME NEW s \in AnySaid, NEW t \in AnySaid, Grown(s, t)
  PROVE  /\ ReadConnectorsOK(ConnectorsOf(t.connectors), s.connectors, t.connectors)
         /\ WorkersFit(ProcessorsOf(t.processors)) =>
              ReadProcessorsOK(ProcessorsOf(t.processors), s.processors, t.processors)
         /\ ReadDlqOK(DlqOf(t.dlqs), s.dlqs, t.dlqs)
<1>s. PICK a \in Nat, b \in Nat, c \in Nat :
        /\ a = Len(s.connectors) /\ b = Len(s.processors) /\ c = Len(s.dlqs)
        /\ DOMAIN s.dlqs = 1..c
  BY SaidLens
<1>1. PICK a1 \in Nat, b1 \in Nat, c1 \in Nat :
        /\ a1 = Len(t.connectors) /\ b1 = Len(t.processors) /\ c1 = Len(t.dlqs)
        /\ DOMAIN t.connectors = 1..a1 /\ DOMAIN t.processors = 1..b1 /\ DOMAIN t.dlqs = 1..c1
  BY SaidLens
<1>2. a <= a1 /\ b <= b1 /\ c <= c1
  BY <1>s, <1>1 DEF Grown
<1>3. ReadConnectorsOK(ConnectorsOf(t.connectors), s.connectors, t.connectors)
  BY <1>s, <1>1, <1>2 DEF ReadConnectorsOK, ConnectorsOf, Seen
<1>4. WorkersFit(ProcessorsOf(t.processors)) =>
        ReadProcessorsOK(ProcessorsOf(t.processors), s.processors, t.processors)
  BY <1>s, <1>1, <1>2 DEF ReadProcessorsOK, ProcessorsOf, Seen
<1>5. ReadDlqOK(DlqOf(t.dlqs), s.dlqs, t.dlqs)
  <2>0. s.dlqs \in Seq(DlqCalls) /\ t.dlqs \in Seq(DlqCalls)
    BY SaidParts
  <2>1. CASE t.dlqs = <<>>
    <3>1. c1 = 0 /\ c = 0
      BY <1>s, <1>1, <1>2, <2>1
    <3>2. s.dlqs = <<>>
      BY <1>s, <2>0, <3>1, EmptySeq
    <3>3. QED
      BY <2>1, <3>2 DEF ReadDlqOK, DlqOf, None
  <2>2. CASE t.dlqs # <<>>
    <3>1. c1 \in 1..c1 /\ c1 >= c
      BY <1>s, <1>1, <1>2, <2>0, <2>2
    <3>2. t.dlqs[c1] \in Counted(s.dlqs, t.dlqs)
      BY <1>s, <1>1, <3>1 DEF Counted
    <3>3. DlqOf(t.dlqs) = {DlqConfig(t.dlqs[c1])}
      BY <1>s, <1>1, <2>2 DEF DlqOf
    <3>4. DlqReadOK(DlqConfig(t.dlqs[c1]), Counted(s.dlqs, t.dlqs))
      BY <3>2 DEF DlqReadOK
    <3>5. QED
      BY <3>3, <3>4 DEF ReadDlqOK, None
  <2>3. QED
    BY <2>1, <2>2
<1>6. QED
  BY <1>3, <1>4, <1>5

\* One more look at the DLQ: one of its fields is that of now.
Mixed(dlq, latest, field) == {[d EXCEPT ![field] = now[field]] : d \in dlq, now \in latest}

LEMMA LookedUp ==
  ASSUME NEW s \in AnySaid, NEW t \in AnySaid, Grown(s, t), NEW dlq \in AnyDlqs, dlq # None,
         ReadDlqOK(dlq, s.dlqs, t.dlqs),
         NEW field \in {"settings", "window_size", "window_nack_threshold"}, NEW new,
         new = Mixed(dlq, DlqOf(t.dlqs), field)
  PROVE  new \in AnyDlqs /\ new # None /\ ReadDlqOK(new, s.dlqs, t.dlqs)
<1>0. t.dlqs \in Seq(DlqCalls)
  BY SaidParts
<1>1. PICK d \in AnyDlq : dlq = {d}
  BY DEF AnyDlqs
<1>2. DlqReadOK(d, Counted(s.dlqs, t.dlqs))
  BY <1>1 DEF ReadDlqOK
<1>3. t.dlqs # <<>>
  BY <1>2 DEF DlqReadOK, Counted
<1>4. PICK now : DlqOf(t.dlqs) = {now} /\ now \in AnyDlq /\ DlqReadOK(now, Counted(s.dlqs, t.dlqs))
  <2>1. DlqOf(t.dlqs) = {DlqConfig(t.dlqs[Len(t.dlqs)])} /\ t.dlqs[Len(t.dlqs)] \in DlqCalls
    BY <1>0, <1>3 DEF DlqOf
  <2>2. ReadDlqOK(DlqOf(t.dlqs), s.dlqs, t.dlqs)
    BY ReadNow
  <2>3. QED
    BY <2>1, <2>2, SpecsKnown DEF ReadDlqOK
<1>5. PICK x : x = [d EXCEPT ![field] = now[field]]
  OBVIOUS
<1>6. new = {x}
  BY <1>1, <1>4, <1>5 DEF Mixed
<1>7. /\ x \in AnyDlq /\ x.plugin = d.plugin
      /\ x.settings = d.settings \/ x.settings = now.settings
      /\ x.window_size = d.window_size \/ x.window_size = now.window_size
      /\ x.window_nack_threshold = d.window_nack_threshold \/ x.window_nack_threshold = now.window_nack_threshold
  <2>1. CASE field = "settings"
    BY <1>1, <1>4, <1>5, <2>1 DEF AnyDlq
  <2>2. CASE field = "window_size"
    BY <1>1, <1>4, <1>5, <2>2 DEF AnyDlq
  <2>3. CASE field = "window_nack_threshold"
    BY <1>1, <1>4, <1>5, <2>3 DEF AnyDlq
  <2>4. QED
    BY <2>1, <2>2, <2>3
<1>8. DlqReadOK(x, Counted(s.dlqs, t.dlqs))
  BY <1>2, <1>4, <1>7 DEF DlqReadOK
<1>9. QED
  BY <1>6, <1>7, <1>8 DEF AnyDlqs, ReadDlqOK, None

\* What run r reads, of what its builder is told: build_requests goes on, or is done.
ReadTo(r, part) ==
  /\ stage'[r] = part /\ upTo'[r] = upTo[r] /\ UNCHANGED vars
  /\ ReadSoFar(part, draft'[r], before[r], said[Of[r]])
  /\ part \in AfterConnectors
DoneWith(r) ==
  /\ stage'[r] = "done" /\ upTo'[r] = said[Of[r]]
  /\ Begin(r, PlanOf(draft'[r], Start[r])) /\ AllRead(draft'[r], before[r], said[Of[r]])
GivenUp(r) == stage'[r] = "done" /\ upTo'[r] = said[Of[r]] /\ Refuse(r)

\* A draft with another part is still one that can be read.
LEMMA DraftParts ==
  ASSUME NEW b, NEW o \in Draft(b), NEW w \in Draft(b)
  PROVE  /\ \A x : x = [o EXCEPT !.connectors = w.connectors] =>
              x \in Draft(b) /\ x.connectors = w.connectors /\ x.processors = o.processors /\ x.dlq = o.dlq
         /\ \A x : x = [o EXCEPT !.processors = w.processors] =>
              x \in Draft(b) /\ x.connectors = o.connectors /\ x.processors = w.processors /\ x.dlq = o.dlq
         /\ \A d \in AnyDlqs : \A x : x = [o EXCEPT !.dlq = d] =>
              x \in Draft(b) /\ x.connectors = o.connectors /\ x.processors = o.processors /\ x.dlq = d
BY DEF Draft

LEMMA ReadsOn ==
  ASSUME BuildersOK, BuildsOK, NEW r \in Runs, Build(r)
  PROVE  /\ draft'[r] \in Draft(Of[r])
         /\ (\E part \in AfterConnectors : ReadTo(r, part)) \/ DoneWith(r) \/ GivenUp(r)
<1>b. PICK b \in Builders : b = Of[r]
  BY BuiltAssumption
<1>s. PICK s \in AnySaid : s = before[r]
  BY DEF BuildsOK, BuildOK
<1>t. PICK t \in AnySaid, w \in Draft(b) :
        /\ t = said[b] /\ w = builder[b] /\ w.connectors = ConnectorsOf(t.connectors)
        /\ w.processors = ProcessorsOf(t.processors) /\ w.dlq = DlqOf(t.dlqs)
  BY DEF BuildersOK, BuilderOK
<1>o. PICK o \in Draft(b) : o = draft[r]
  BY <1>b DEF BuildsOK, BuildOK
<1>1. stage[r] \in Reading => Grown(s, t) /\ ReadSoFar(stage[r], o, s, t)
  BY <1>b, <1>s, <1>t, <1>o DEF BuildsOK, BuildOK
<1>f. /\ stage = [x \in Runs |-> stage[x]] /\ draft = [x \in Runs |-> draft[x]]
      /\ upTo = [x \in Runs |-> upTo[x]]
  BY DEF BuildsOK
<1>g. ASSUME NEW part, GoesOn(r, part) PROVE stage'[r] = part /\ upTo'[r] = upTo[r] /\ UNCHANGED vars
  BY <1>f, <1>g DEF GoesOn, ReadNext
<1>m. ASSUME NEW fits, Made(r, fits)
      PROVE  /\ stage'[r] = "done" /\ upTo'[r] = said[Of[r]]
             /\ IF fits THEN Begin(r, PlanOf(draft'[r], Start[r])) ELSE Refuse(r)
  BY <1>f, <1>m DEF Made, ReadNext, PlanOf
<1>2. CASE ReadConnectors(r)
  <2>1. /\ stage[r] = "connectors" /\ GoesOn(r, "processors")
        /\ draft' = [draft EXCEPT ![r].connectors = builder[Of[r]].connectors]
    BY <1>2 DEF ReadConnectors
  <2>2. draft'[r] = [o EXCEPT !.connectors = w.connectors]
    BY <1>b, <1>f, <1>o, <1>t, <2>1
  <2>3. draft'[r] \in Draft(b) /\ draft'[r].connectors = w.connectors
    BY <2>2, DraftParts
  <2>4. ReadConnectorsOK(w.connectors, s.connectors, t.connectors)
    BY <1>1, <1>t, <2>1, ReadNow DEF Reading
  <2>5. ReadSoFar("processors", draft'[r], s, t)
    BY <2>3, <2>4 DEF ReadSoFar, AfterConnectors, AfterProcessors, AfterDlq
  <2>6. QED
    BY <1>b, <1>g, <1>s, <1>t, <2>1, <2>3, <2>5 DEF ReadTo, AfterConnectors
<1>3. CASE ReadProcessors(r)
  <2>1. /\ stage[r] = "processors"
        /\ draft' = [draft EXCEPT ![r].processors = builder[Of[r]].processors]
        /\ (WorkersFit(draft'[r].processors) /\ GoesOn(r, "dlq")) \/ Made(r, FALSE)
    BY <1>3 DEF ReadProcessors
  <2>2. draft'[r] = [o EXCEPT !.processors = w.processors]
    BY <1>b, <1>f, <1>o, <1>t, <2>1
  <2>3. /\ draft'[r] \in Draft(b) /\ draft'[r].connectors = o.connectors
        /\ draft'[r].processors = w.processors
    BY <2>2, DraftParts
  <2>4. CASE WorkersFit(draft'[r].processors) /\ GoesOn(r, "dlq")
    <3>1. ReadProcessorsOK(w.processors, s.processors, t.processors)
      BY <1>1, <1>t, <2>1, <2>3, <2>4, ReadNow DEF Reading, AfterConnectors
    <3>2. ReadConnectorsOK(o.connectors, s.connectors, t.connectors)
      BY <1>1, <2>1 DEF Reading, AfterConnectors, ReadSoFar
    <3>3. ReadSoFar("dlq", draft'[r], s, t)
      BY <2>3, <3>1, <3>2 DEF ReadSoFar, AfterConnectors, AfterProcessors, AfterDlq
    <3>4. QED
      BY <1>b, <1>g, <1>s, <1>t, <2>3, <2>4, <3>3 DEF ReadTo, AfterConnectors
  <2>5. CASE Made(r, FALSE)
    BY <1>b, <1>m, <2>3, <2>5 DEF GivenUp
  <2>6. QED
    BY <2>1, <2>4, <2>5
<1>4. CASE ReadDlq(r)
  <2>1. /\ stage[r] = "dlq"
        /\ draft' = [draft EXCEPT ![r].dlq = builder[Of[r]].dlq]
        /\ \/ draft'[r].dlq # None /\ GoesOn(r, "settings")
           \/ draft'[r].dlq = None /\ Made(r, TRUE)
    BY <1>4 DEF ReadDlq
  <2>2. draft'[r] = [o EXCEPT !.dlq = w.dlq] /\ w.dlq \in AnyDlqs
    BY <1>b, <1>f, <1>o, <1>t, <2>1 DEF Draft
  <2>3. /\ draft'[r] \in Draft(b) /\ draft'[r].connectors = o.connectors
        /\ draft'[r].processors = o.processors /\ draft'[r].dlq = w.dlq
    BY <2>2, DraftParts
  <2>4. /\ ReadConnectorsOK(o.connectors, s.connectors, t.connectors)
        /\ ReadProcessorsOK(o.processors, s.processors, t.processors)
    BY <1>1, <2>1 DEF Reading, AfterConnectors, AfterProcessors, ReadSoFar
  <2>5. ReadDlqOK(w.dlq, s.dlqs, t.dlqs)
    BY <1>1, <1>t, <2>1, ReadNow DEF Reading, AfterConnectors
  <2>6. CASE draft'[r].dlq # None /\ GoesOn(r, "settings")
    <3>1. ReadSoFar("settings", draft'[r], s, t)
      BY <2>3, <2>4, <2>5, <2>6 DEF ReadSoFar
    <3>2. QED
      BY <1>b, <1>g, <1>s, <1>t, <2>3, <2>6, <3>1 DEF ReadTo, AfterConnectors
  <2>7. CASE draft'[r].dlq = None /\ Made(r, TRUE)
    <3>1. AllRead(draft'[r], s, t)
      BY <2>3, <2>4, <2>5, <2>7 DEF AllRead, WindowsFit, None
    <3>2. QED
      BY <1>b, <1>m, <1>s, <1>t, <2>3, <2>7, <3>1 DEF DoneWith
  <2>8. QED
    BY <2>1, <2>6, <2>7
<1>5. ASSUME NEW field \in {"settings", "window_size", "window_nack_threshold"},
             stage[r] = field, LookUp(r, field)
      PROVE  /\ draft'[r] \in Draft(b) /\ draft'[r].dlq # None
             /\ ReadConnectorsOK(draft'[r].connectors, s.connectors, t.connectors)
             /\ ReadProcessorsOK(draft'[r].processors, s.processors, t.processors)
             /\ ReadDlqOK(draft'[r].dlq, s.dlqs, t.dlqs)
  <2>1. /\ Grown(s, t) /\ o.dlq # None /\ o.dlq \in AnyDlqs
        /\ ReadConnectorsOK(o.connectors, s.connectors, t.connectors)
        /\ ReadProcessorsOK(o.processors, s.processors, t.processors)
        /\ ReadDlqOK(o.dlq, s.dlqs, t.dlqs)
    BY <1>1, <1>5 DEF Reading, AfterConnectors, AfterProcessors, AfterDlq, ReadSoFar, Draft
  <2>2. PICK new : new = Mixed(o.dlq, w.dlq, field)
    OBVIOUS
  <2>3. new \in AnyDlqs /\ new # None /\ ReadDlqOK(new, s.dlqs, t.dlqs)
    BY <1>t, <2>1, <2>2, LookedUp
  <2>4. draft'[r] = [o EXCEPT !.dlq = new]
    <3>1. draft' = [draft EXCEPT ![r].dlq = new]
      BY <1>5, <1>b, <1>o, <1>t, <2>2 DEF LookUp, Mixed
    <3>2. QED
      BY <1>f, <1>o, <3>1
  <2>5. QED
    BY <2>1, <2>3, <2>4, DraftParts
<1>6. CASE ReadSettings(r)
  <2>1. stage[r] = "settings" /\ LookUp(r, "settings") /\ GoesOn(r, "window_size")
    BY <1>6 DEF ReadSettings
  <2>2. ReadSoFar("window_size", draft'[r], s, t) /\ draft'[r] \in Draft(b)
    BY <1>5, <2>1 DEF ReadSoFar
  <2>3. QED
    BY <1>b, <1>g, <1>s, <1>t, <2>1, <2>2 DEF ReadTo, AfterConnectors
<1>7. CASE ReadWindow(r)
  <2>1. stage[r] = "window_size" /\ LookUp(r, "window_size") /\ GoesOn(r, "window_nack_threshold")
    BY <1>7 DEF ReadWindow
  <2>2. ReadSoFar("window_nack_threshold", draft'[r], s, t) /\ draft'[r] \in Draft(b)
    BY <1>5, <2>1 DEF ReadSoFar
  <2>3. QED
    BY <1>b, <1>g, <1>s, <1>t, <2>1, <2>2 DEF ReadTo, AfterConnectors
<1>8. CASE ReadThreshold(r)
  <2>1. /\ stage[r] = "window_nack_threshold" /\ LookUp(r, "window_nack_threshold")
        /\ Made(r, WindowsFit(draft'[r].dlq))
    BY <1>8 DEF ReadThreshold
  <2>2. draft'[r] \in Draft(b)
    BY <1>5, <2>1
  <2>3. WindowsFit(draft'[r].dlq) => AllRead(draft'[r], s, t)
    BY <1>5, <2>1 DEF AllRead
  <2>4. QED
    BY <1>b, <1>m, <1>s, <1>t, <2>1, <2>2, <2>3 DEF DoneWith, GivenUp
<1>9. QED
  BY <1>2, <1>3, <1>4, <1>6, <1>7, <1>8, <1>b DEF Build

\* What a builder renders is something run() can be asked to submit.
LEMMA PlanIsPlan ==
  ASSUME NEW r \in Runs, NEW o \in Draft(Of[r]), WorkersFit(o.processors), WindowsFit(o.dlq)
  PROVE  PlanOf(o, Start[r]) \in Plans
<1>1. o = [Fresh(Of[r]) EXCEPT !.connectors = o.connectors, !.processors = o.processors, !.dlq = o.dlq]
  <2>1. PICK f, n, e, z : f = Fresh(Of[r]) /\ n = NameOf(Of[r]) /\ e = Labels[Of[r]].description /\ z = <<>>
    OBVIOUS
  <2>2. PICK c, p, d, d1 : c = o.connectors /\ p = o.processors /\ d = o.dlq /\ d1 = None
    OBVIOUS
  <2>3. f = [name |-> n, description |-> e, connectors |-> z, processors |-> z, dlq |-> d1]
    BY <2>1, <2>2 DEF Fresh, New, NameOf
  <2>4. [f EXCEPT !.connectors = c, !.processors = p, !.dlq = d]
          = [name |-> n, description |-> e, connectors |-> c, processors |-> p, dlq |-> d]
    <3>1. PICK g : g = [f EXCEPT !.connectors = c]
      OBVIOUS
    <3>2. g = [name |-> n, description |-> e, connectors |-> c, processors |-> z, dlq |-> d1]
      BY <2>3, <3>1
    <3>3. PICK h : h = [g EXCEPT !.processors = p]
      OBVIOUS
    <3>4. h = [name |-> n, description |-> e, connectors |-> c, processors |-> p, dlq |-> d1]
      BY <3>2, <3>3
    <3>5. [h EXCEPT !.dlq = d]
            = [name |-> n, description |-> e, connectors |-> c, processors |-> p, dlq |-> d]
      BY <3>4
    <3>6. [f EXCEPT !.connectors = c, !.processors = p, !.dlq = d] = [h EXCEPT !.dlq = d]
      BY <2>3, <3>1, <3>3
    <3>7. QED
      BY <3>5, <3>6
  <2>5. o = [name |-> n, description |-> e, connectors |-> c, processors |-> p, dlq |-> d]
    BY <2>1, <2>2 DEF Draft
  <2>6. QED
    BY <2>1, <2>2, <2>4, <2>5
<1>2. o.connectors \in AnyConnectors /\ o.processors \in AnyProcessors /\ o.dlq \in AnyDlqs
  BY DEF Draft
<1>3. \A connectors \in AnyConnectors, processors \in AnyProcessors, dlq \in AnyDlqs :
        WorkersFit(processors) /\ WindowsFit(dlq) =>
          PlanOf([Fresh(Of[r]) EXCEPT !.connectors = connectors, !.processors = processors,
                    !.dlq = dlq], Start[r]) \in Plans
  BY BuiltAssumption DEF PlanOf, AnyDlqs
<1>4. PICK u : u = [Fresh(Of[r]) EXCEPT !.connectors = o.connectors, !.processors = o.processors, !.dlq = o.dlq]
  OBVIOUS
<1>5. PlanOf(u, Start[r]) \in Plans
  BY <1>2, <1>3, <1>4, Zenon
<1>6. QED
  BY <1>1, <1>4, <1>5

\* A step of build_requests is none of ClientRun's, or begins or refuses a plan.
LEMMA BuildSimulates ==
  ASSUME BuildersOK, BuildsOK, NEW r \in Runs, Build(r)
  PROVE  [Next]_vars
<1>1. ASSUME DoneWith(r) PROVE Next
  <2>1. PlanOf(draft'[r], Start[r]) \in Plans
    BY <1>1, ReadsOn, PlanIsPlan DEF DoneWith, AllRead, ReadProcessorsOK
  <2>2. QED
    BY <1>1, <2>1 DEF DoneWith, Next
<1>2. GivenUp(r) => Next
  BY DEF GivenUp, Next
<1>3. QED
  BY <1>1, <1>2, ReadsOn DEF ReadTo

\* Every step of BuiltRun is a step of ClientRun, or none of it.
LEMMA Simulates == BuildersOK /\ BuildsOK /\ [BuiltNext]_allVars => [Next]_vars
<1> SUFFICES ASSUME BuildersOK, BuildsOK, [BuiltNext]_allVars PROVE [Next]_vars
  OBVIOUS
<1>1. ASSUME NEW r \in Runs, Run(r) PROVE UNCHANGED vars
  BY <1>1 DEF Run
<1>2. ASSUME NEW b \in Builders, NEW call \in Calls, Fluent(b, call) PROVE UNCHANGED vars
  BY <1>2 DEF Fluent
<1>3. CASE Proceed
  BY <1>3 DEF Next
<1>4. CASE UNCHANGED allVars
  BY <1>4 DEF allVars
<1>5. QED
  BY <1>1, <1>2, <1>3, <1>4, BuildSimulates DEF BuiltNext

\* A run that does not build now keeps what it read.
LEMMA BuildKept ==
  ASSUME BuildersOK, BuildersOK', NEW r \in Runs, BuildOK(r),
         SaidOn(said[Of[r]], said'[Of[r]]),
         stage'[r] = stage[r], draft'[r] = draft[r], before'[r] = before[r], upTo'[r] = upTo[r],
         plan'[r] = plan[r]
  PROVE  BuildOK(r)'
<1>1. PICK b \in Builders : b = Of[r]
  BY BuiltAssumption
<1>2. PICK t \in AnySaid, u \in AnySaid : t = said[b] /\ u = said'[b] /\ SaidOn(t, u)
  BY <1>1 DEF BuildersOK, BuilderOK
<1>3. before[r] \in AnySaid
  BY DEF BuildOK
<1>4. stage[r] \in Reading => Grown(before[r], t) /\ ReadSoFar(stage[r], draft[r], before[r], t)
  BY <1>1, <1>2 DEF BuildOK
<1>5. stage[r] \in Reading => Grown(before[r], u) /\ ReadSoFar(stage[r], draft[r], before[r], u)
  BY <1>2, <1>3, <1>4, ReadKept
<1>6. QED
  BY <1>1, <1>2, <1>5 DEF BuildOK

\* A step of r's build_requests.
LEMMA BuildStep ==
  ASSUME TypeOK, BuildersOK, BuildsOK, NEW r \in Runs, Build(r)
  PROVE  BuildsOK'
<1>1. /\ builder' = builder /\ said' = said /\ before' = before
      /\ \E part : stage' = [stage EXCEPT ![r] = part]
      /\ \E o : draft' = [draft EXCEPT ![r] = o]
      /\ \E t : upTo' = [upTo EXCEPT ![r] = t]
  <2>1. builder' = builder /\ said' = said /\ before' = before
    BY DEF Build
  <2>2. upTo = [upTo EXCEPT ![r] = upTo[r]]
    BY DEF BuildsOK
  <2>3. ASSUME NEW part, GoesOn(r, part)
        PROVE  (\E p : stage' = [stage EXCEPT ![r] = p]) /\ \E t : upTo' = [upTo EXCEPT ![r] = t]
    BY <2>2, <2>3 DEF GoesOn, ReadNext
  <2>4. ASSUME NEW fits, Made(r, fits)
        PROVE  (\E p : stage' = [stage EXCEPT ![r] = p]) /\ \E t : upTo' = [upTo EXCEPT ![r] = t]
    BY <2>4 DEF Made, ReadNext
  <2>5. (\E p : stage' = [stage EXCEPT ![r] = p]) /\ \E t : upTo' = [upTo EXCEPT ![r] = t]
    BY <2>3, <2>4
    DEF Build, ReadConnectors, ReadProcessors, ReadDlq, ReadSettings, ReadWindow, ReadThreshold
  <2>6. ASSUME NEW field, LookUp(r, field) PROVE \E o : draft' = [draft EXCEPT ![r] = o]
    <3>1. PICK new : new = Mixed(draft[r].dlq, builder[Of[r]].dlq, field)
      OBVIOUS
    <3>2. draft' = [draft EXCEPT ![r].dlq = new]
      BY <2>6, <3>1 DEF LookUp, Mixed
    <3>3. draft' = [draft EXCEPT ![r] = [draft[r] EXCEPT !.dlq = new]]
      BY <3>2
    <3>4. QED
      BY <3>3
  <2>7. \E o : draft' = [draft EXCEPT ![r] = o]
    BY <2>6, Zenon
    DEF Build, ReadConnectors, ReadProcessors, ReadDlq, ReadSettings, ReadWindow, ReadThreshold
  <2>8. QED
    BY <2>1, <2>5, <2>7
<1>2. \A x \in Runs : plan[x] = <<>> \/ stage[x] = "done"
  BY DEF BuildsOK, BuildOK
<1>3. stage[r] # "done" /\ plan[r] = <<>>
  BY <1>2
  DEF Build, ReadConnectors, ReadProcessors, ReadDlq, ReadSettings, ReadWindow, ReadThreshold
<1>b. PICK b \in Builders : b = Of[r]
  BY BuiltAssumption
<1>t. PICK s \in AnySaid, t \in AnySaid : s = before[r] /\ t = said[b] /\ upTo[r] \in AnySaid
  BY <1>b DEF BuildsOK, BuildOK, BuildersOK, BuilderOK
<1>4. draft'[r] \in Draft(Of[r])
  BY ReadsOn
<1>5. stage[r] \in Reading /\ Grown(s, t)
  <2>1. stage[r] \in Reading
    BY DEF Build, ReadConnectors, ReadProcessors, ReadDlq, ReadSettings, ReadWindow, ReadThreshold,
           Reading, AfterConnectors
  <2>2. QED
    BY <1>b, <1>t, <2>1 DEF BuildsOK, BuildOK
<1>6. ASSUME NEW part \in AfterConnectors, ReadTo(r, part)
      PROVE  BuildOK(r)' /\ plan' = plan
  <2>1. /\ stage'[r] = part /\ upTo'[r] \in AnySaid /\ plan' = plan
        /\ ReadSoFar(part, draft'[r], s, t)
    BY <1>6, <1>b, <1>t DEF ReadTo, vars, callVars
  <2>2. stage'[r] \in Reading /\ stage'[r] # "done"
    BY <2>1 DEF Reading, AfterConnectors
  <2>3. before'[r] = s /\ said'[b] = t
    BY <1>1, <1>t
  <2>4. QED
    BY <1>3, <1>4, <1>5, <1>b, <2>1, <2>2, <2>3 DEF BuildOK
<1>7. ASSUME DoneWith(r)
      PROVE  BuildOK(r)' /\ \A x \in Runs \ {r} : plan'[x] = plan[x]
  <2>1. /\ stage'[r] = "done" /\ upTo'[r] = t /\ AllRead(draft'[r], s, t)
        /\ plan' = [plan EXCEPT ![r] = PlanOf(draft'[r], Start[r])]
    BY <1>7, <1>b, <1>t DEF DoneWith, Begin
  <2>2. plan'[r] = PlanOf(draft'[r], Start[r]) /\ \A x \in Runs \ {r} : plan'[x] = plan[x]
    BY <2>1 DEF TypeOK
  <2>3. before'[r] = s /\ stage'[r] \notin Reading
    BY <1>1, <1>t, <2>1 DEF Reading, AfterConnectors
  <2>4. QED
    BY <1>4, <1>t, <2>1, <2>2, <2>3 DEF BuildOK
<1>8. ASSUME GivenUp(r) PROVE BuildOK(r)' /\ plan' = plan
  <2>1. stage'[r] = "done" /\ upTo'[r] = t /\ plan' = plan
    BY <1>8, <1>b, <1>t DEF GivenUp, Refuse
  <2>2. before'[r] = s /\ stage'[r] \notin Reading
    BY <1>1, <1>t, <2>1 DEF Reading, AfterConnectors
  <2>3. QED
    BY <1>3, <1>4, <1>t, <2>1, <2>2 DEF BuildOK
<1>9. BuildOK(r)' /\ \A x \in Runs \ {r} : plan'[x] = plan[x]
  BY <1>6, <1>7, <1>8, ReadsOn
<1>10. /\ stage' = [x \in Runs |-> stage'[x]] /\ draft' = [x \in Runs |-> draft'[x]]
       /\ before' = [x \in Runs |-> before'[x]] /\ upTo' = [x \in Runs |-> upTo'[x]]
       /\ \A x \in Runs \ {r} : stage'[x] = stage[x] /\ draft'[x] = draft[x] /\ before'[x] = before[x]
                                /\ upTo'[x] = upTo[x]
  BY <1>1 DEF BuildsOK
<1>11. BuildersOK' /\ \A x \in Builders : SaidOn(said[x], said'[x])
  BY <1>1, SaidOnSelf DEF BuildersOK, BuilderOK
<1>12. ASSUME NEW x \in Runs, x # r PROVE BuildOK(x)'
  <2>1. Of[x] \in Builders /\ BuildOK(x)
    BY BuiltAssumption DEF BuildsOK
  <2>2. /\ stage'[x] = stage[x] /\ draft'[x] = draft[x] /\ before'[x] = before[x]
        /\ upTo'[x] = upTo[x] /\ plan'[x] = plan[x]
    BY <1>9, <1>10, <1>12
  <2>3. QED
    BY <1>11, <2>1, <2>2, BuildKept
<1>13. \A x \in Runs : BuildOK(x)'
  BY <1>9, <1>12
<1>14. QED
  BY <1>10, <1>13, Zenon DEF BuildsOK

\* run() is called: nothing has been read yet.
LEMMA CalledStep ==
  ASSUME BuildersOK, BuildsOK, NEW r \in Runs, Run(r)
  PROVE  BuildsOK'
<1>b. PICK b \in Builders : b = Of[r]
  BY BuiltAssumption
<1>t. PICK t \in AnySaid : t = said[b]
  BY DEF BuildersOK, BuilderOK
<1>1. /\ stage[r] = "none" /\ builder' = builder /\ said' = said /\ draft' = draft /\ upTo' = upTo
      /\ plan' = plan
      /\ stage' = [stage EXCEPT ![r] = "connectors"] /\ before' = [before EXCEPT ![r] = t]
  BY <1>b, <1>t DEF Run, ReadNext, vars, callVars
<1>2. /\ stage'[r] = "connectors" /\ before'[r] = t
      /\ \A x \in Runs \ {r} : stage'[x] = stage[x] /\ before'[x] = before[x]
      /\ stage' = [x \in Runs |-> stage'[x]] /\ before' = [x \in Runs |-> before'[x]]
  BY <1>1 DEF BuildsOK
<1>3. BuildersOK' /\ \A x \in Builders : SaidOn(said[x], said'[x])
  BY <1>1, SaidOnSelf DEF BuildersOK, BuilderOK
<1>4. BuildOK(r)'
  <2>1. BuildOK(r) /\ plan[r] = <<>>
    BY <1>1 DEF BuildsOK, BuildOK
  <2>2. Grown(t, t)
    BY SaidLens DEF Grown
  <2>3. ReadSoFar("connectors", draft'[r], t, t)
    BY DEF ReadSoFar, AfterConnectors, AfterProcessors, AfterDlq
  <2>4. stage'[r] \in Reading
    BY <1>2 DEF Reading
  <2>5. draft'[r] \in Draft(Of[r]) /\ upTo'[r] \in AnySaid /\ plan'[r] = <<>>
    BY <1>1, <2>1 DEF BuildOK
  <2>6. said'[b] = t
    BY <1>1, <1>t
  <2>7. QED
    BY <1>2, <1>b, <2>2, <2>3, <2>4, <2>5, <2>6 DEF BuildOK
<1>5. ASSUME NEW x \in Runs, x # r PROVE BuildOK(x)'
  <2>1. Of[x] \in Builders /\ BuildOK(x)
    BY BuiltAssumption DEF BuildsOK
  <2>2. QED
    BY <1>1, <1>2, <1>3, <1>5, <2>1, BuildKept
<1>6. \A x \in Runs : BuildOK(x)'
  BY <1>4, <1>5
<1>7. draft' = [x \in Runs |-> draft'[x]] /\ upTo' = [x \in Runs |-> upTo'[x]]
  BY <1>1 DEF BuildsOK
<1>8. QED
  BY <1>2, <1>6, <1>7, Zenon DEF BuildsOK

\* The steps that are none of run()'s building leave every plan alone.
LEMMA PlansStay ==
  ASSUME TypeOK, Proceed
  PROVE  plan' = plan
BY DEF Proceed, Connect, Stop, Work, Send, Receive, GiveUp, Close, Carry, Reject, Lose, callVars

\* What runs have read, and submit, stays what had been said.
LEMMA BuildsStep ==
  ASSUME BuiltInv, [BuiltNext]_allVars
  PROVE  BuildsOK'
<1>0. TypeOK /\ BuildersOK /\ BuildsOK
  BY DEF BuiltInv, IInv
<1>1. BuildersOK' /\ \A b \in Builders : SaidOn(said[b], said'[b])
  BY <1>0, BuildersStep
<1>2. ASSUME plan' = plan, stage' = stage, draft' = draft, before' = before, upTo' = upTo
      PROVE  BuildsOK'
  <2>1. ASSUME NEW x \in Runs PROVE BuildOK(x)'
    <3>1. Of[x] \in Builders /\ BuildOK(x)
      BY <1>0, BuiltAssumption DEF BuildsOK
    <3>2. QED
      BY <1>0, <1>1, <1>2, <3>1, BuildKept
  <2>2. QED
    BY <1>0, <1>2, <2>1, Zenon DEF BuildsOK
<1>3. ASSUME NEW b \in Builders, NEW call \in Calls, Fluent(b, call) PROVE BuildsOK'
  BY <1>2, <1>3 DEF Fluent, vars, callVars
<1>4. CASE Proceed /\ UNCHANGED builtVars
  BY <1>0, <1>2, <1>4, PlansStay DEF builtVars, history
<1>5. CASE UNCHANGED allVars
  BY <1>2, <1>5 DEF allVars, builtVars, history, vars, callVars
<1>6. QED
  BY <1>0, <1>3, <1>4, <1>5, BuildStep, CalledStep DEF BuiltNext

\* Nothing is said, read or submitted at first.
LEMMA BuiltInitInv == BuiltInit => BuiltInv
<1> SUFFICES ASSUME BuiltInit PROVE BuiltInv
  OBVIOUS
<1>1. IInv
  BY InitInv DEF BuiltInit
<1>2. PICK u : u = Unsaid
  OBVIOUS
<1>3. /\ u \in AnySaid
      /\ u.connectors = <<>> /\ u.processors = <<>> /\ u.dlqs = <<>>
  BY <1>2, MaxCallsNat DEF Unsaid, AnySaid, Said
<1>4. ConnectorsOf(<<>>) = <<>> /\ ProcessorsOf(<<>>) = <<>> /\ DlqOf(<<>>) = None
  BY DEF ConnectorsOf, ProcessorsOf, DlqOf
<1>5. <<>> \in AnyConnectors /\ <<>> \in AnyProcessors /\ None \in AnyDlqs
  BY <1>3, <1>4, PartsKnown
<1>6. ASSUME NEW b
      PROVE  /\ Fresh(b) \in Draft(b) /\ Fresh(b).connectors = <<>>
             /\ Fresh(b).processors = <<>> /\ Fresh(b).dlq = None
  BY <1>5 DEF Fresh, New, Draft, NameOf
<1>7. BuildersOK
  <2>1. /\ said = [b \in Builders |-> u] /\ builder = [b \in Builders |-> Fresh(b)]
    BY <1>2 DEF BuiltInit
  <2>2. QED
    BY <1>3, <1>4, <1>6, <2>1 DEF BuildersOK, BuilderOK
<1>8. BuildsOK
  <2>1. /\ stage = [r \in Runs |-> "none"] /\ draft = [r \in Runs |-> Fresh(Of[r])]
        /\ before = [r \in Runs |-> u] /\ upTo = [r \in Runs |-> u]
        /\ plan = [r \in Runs |-> <<>>]
    BY <1>2 DEF BuiltInit, Init
  <2>2. ASSUME NEW r \in Runs PROVE BuildOK(r)
    BY <1>3, <1>6, <2>1 DEF BuildOK, Reading, AfterConnectors
  <2>3. QED
    BY <2>1, <2>2 DEF BuildsOK
<1>9. QED
  BY <1>1, <1>7, <1>8 DEF BuiltInv

\* BuiltInv is inductive.
LEMMA BuiltStep == BuiltInv /\ [BuiltNext]_allVars => BuiltInv'
BY Simulates, Step, BuildersStep, BuildsStep DEF BuiltInv

-----------------------------------------------------------------------------
\* What a draft that was read from n connectors and m processors declares.
LEMMA DraftDeclares ==
  ASSUME NEW r \in Runs, NEW o \in Draft(Of[r]), NEW k, NEW q,
         before[r] \in AnySaid, upTo[r] \in AnySaid,
         NEW n \in Nat, n <= Len(upTo[r].connectors),
         o.connectors = [i \in 1..n |-> ConnectorOf(upTo[r].connectors[i])],
         NEW m \in Nat, m <= Len(upTo[r].processors),
         o.processors = [i \in 1..m |-> Processor(upTo[r].processors[i])],
         ReadDlqOK(o.dlq, before[r].dlqs, upTo[r].dlqs),
         RequestIs(q, k, o, n, m, Start[r])
  PROVE  AsDeclared(q, k, r, n, m, NumDlqs(o.dlq))
<1>0. /\ upTo[r].connectors \in Seq(ConnectorCalls) /\ upTo[r].processors \in Seq(ProcessorCalls)
  BY SaidParts
<1>1. CASE k = 1 /\ q = RequestFor("CreatePipeline", [name |-> o.name, description |-> o.description])
  <2>1. q.path = Path("CreatePipeline") /\ q.arg.name = o.name /\ q.arg.description = o.description
    BY <1>1 DEF RequestFor
  <2>2. q.arg.name = Given(Labels[Of[r]].name, Labels[Of[r]].id)
        /\ q.arg.description = Labels[Of[r]].description
    BY <2>1 DEF Draft, NameOf
  <2>3. QED
    BY <1>1, <2>1, <2>2, OptionTold DEF AsDeclared
<1>2. CASE k \in 2..n + 1 /\ q = RequestFor("CreateConnector", o.connectors[k - 1])
  <2>1. k - 1 \in 1..n
    BY <1>2
  <2>2. PICK call \in ConnectorCalls : call = upTo[r].connectors[k - 1]
    BY <1>0, <2>1
  <2>3. q.path = Path("CreateConnector") /\ q.arg = ConnectorOf(call)
    BY <1>2, <2>1, <2>2 DEF RequestFor
  <2>4. QED
    BY <1>2, <2>2, <2>3, ConnectorTold DEF AsDeclared
<1>3. CASE k \in n + 2..n + m + 1
           /\ q = RequestFor("CreateProcessor", ToldProcessor(o.processors[k - n - 1]))
  <2>1. k - n - 1 \in 1..m
    BY <1>3
  <2>2. PICK call \in ProcessorCalls : call = upTo[r].processors[k - n - 1]
    BY <1>0, <2>1
  <2>3. q.path = Path("CreateProcessor") /\ q.arg = ToldProcessor(Processor(call))
    BY <1>3, <2>1, <2>2 DEF RequestFor
  <2>4. QED
    BY <1>3, <2>2, <2>3, ProcessorTold DEF AsDeclared
<1>4. CASE k = n + m + 2 /\ \E d \in o.dlq : q = RequestFor("UpdateDLQ", ToldDlq(d))
  <2>1. PICK d \in o.dlq : q = RequestFor("UpdateDLQ", ToldDlq(d))
    BY <1>4
  <2>2. d \in AnyDlq /\ NumDlqs(o.dlq) = 1
    BY DEF Draft, AnyDlqs, NumDlqs, None
  <2>3. DlqReadOK(d, InForce(r))
    BY DEF ReadDlqOK, InForce, Counted
  <2>4. q.path = Path("UpdateDLQ") /\ q.arg = ToldDlq(d)
    BY <2>1 DEF RequestFor
  <2>5. TellsDlq(q.arg, r)
    BY <2>2, <2>3, <2>4, DlqTold DEF TellsDlq
  <2>6. QED
    BY <1>4, <2>2, <2>4, <2>5 DEF AsDeclared
<1>5. CASE k = n + m + NumDlqs(o.dlq) + 2 /\ Start[r] /\ q = RequestFor("StartPipeline", <<>>)
  BY <1>5 DEF AsDeclared, RequestFor
<1>6. QED
  BY <1>1, <1>2, <1>3, <1>4, <1>5 DEF RequestIs

\* What the invariant says of a run with a plan.
LEMMA PlanDeclares ==
  ASSUME BuiltInv, NEW r \in Runs, plan[r] # <<>>
  PROVE  \E nc \in 0..MaxCalls, np \in 0..MaxCalls, nd \in {0, 1} :
           /\ Seen(nc, before[r].connectors, upTo[r].connectors)
           /\ Seen(np, before[r].processors, upTo[r].processors)
           /\ nd = 0 => before[r].dlqs = <<>>
           /\ \A k \in DOMAIN plan[r] : AsDeclared(plan[r][k], k, r, nc, np, nd)
<1>1. PICK o \in Draft(Of[r]) :
        /\ plan[r] = PlanOf(o, Start[r])
        /\ ReadConnectorsOK(o.connectors, before[r].connectors, upTo[r].connectors)
        /\ ReadProcessorsOK(o.processors, before[r].processors, upTo[r].processors)
        /\ ReadDlqOK(o.dlq, before[r].dlqs, upTo[r].dlqs)
  BY DEF BuiltInv, BuildsOK, BuildOK, AllRead
<1>2. before[r] \in AnySaid /\ upTo[r] \in AnySaid
  BY DEF BuiltInv, BuildsOK, BuildOK
<1>3. PICK n \in Nat : /\ Seen(n, before[r].connectors, upTo[r].connectors)
                       /\ o.connectors = [i \in 1..n |-> ConnectorOf(upTo[r].connectors[i])]
  BY <1>1 DEF ReadConnectorsOK
<1>4. PICK m \in Nat : /\ Seen(m, before[r].processors, upTo[r].processors)
                       /\ o.processors = [i \in 1..m |-> Processor(upTo[r].processors[i])]
  BY <1>1 DEF ReadProcessorsOK
<1>5. n <= Len(upTo[r].connectors) /\ m <= Len(upTo[r].processors)
  BY <1>3, <1>4 DEF Seen
<1>6. n \in 0..MaxCalls /\ m \in 0..MaxCalls
  <2>1. PICK l \in 0..MaxCalls, j \in 0..MaxCalls :
          l = Len(upTo[r].connectors) /\ j = Len(upTo[r].processors)
    BY <1>2, SaidParts
  <2>2. n <= l /\ m <= j
    BY <1>5, <2>1
  <2>3. QED
    BY <2>1, <2>2, MaxCallsNat
<1>7. PICK nd \in {0, 1} : nd = NumDlqs(o.dlq) /\ (nd = 0 => before[r].dlqs = <<>>)
  BY <1>1 DEF NumDlqs, ReadDlqOK
<1>8. ASSUME NEW k \in DOMAIN plan[r] PROVE AsDeclared(plan[r][k], k, r, n, m, nd)
  <2>1. PICK p : p = plan[r]
    OBVIOUS
  <2>2. k \in DOMAIN p /\ p = PlanOf(o, Start[r])
    BY <1>1, <1>8, <2>1, Zenon
  <2>3. o.dlq \in AnyDlqs /\ DOMAIN o.connectors = 1..n /\ DOMAIN o.processors = 1..m
    BY <1>3, <1>4 DEF Draft
  <2>o. Start[r] \in BOOLEAN
    BY BuiltAssumption
  <2>5. RequestIs(p[k], k, o, n, m, Start[r])
    BY <2>2, <2>3, <2>o, RequestsAt
  <2>4. RequestIs(plan[r][k], k, o, n, m, Start[r])
    BY <2>1, <2>5
  <2>6. QED
    BY <1>1, <1>2, <1>3, <1>4, <1>5, <1>7, <2>4, DraftDeclares
<1>9. QED
  BY <1>3, <1>4, <1>6, <1>7, <1>8

\* What the engine did to a pipeline is in the plan of its run.
LEMMA EffectIsPlanned ==
  ASSUME BuiltInv, NEW id \in Ids, NEW k \in DOMAIN pipes[id]
  PROVE  LET r == Creator(id)
         IN  r \in Runs /\ k \in DOMAIN plan[r] /\ pipes[id][k].req = plan[r][k]
<1>1. TypeOK /\ AppliedInOrder
  BY Consequences DEF BuiltInv
<1>2. PICK r : r = Creator(id)
  OBVIOUS
<1>3. r \in Runs
  <2>1. pipes[id] \in Seq(Effect) /\ pipes[id] # <<>>
    BY <1>1 DEF TypeOK
  <2>2. pipes[id][1] \in Effect
    BY <2>1
  <2>3. QED
    BY <1>2, <2>2 DEF Creator, Effect
<1>4. k \in DOMAIN plan[r] /\ pipes[id][k].req = plan[r][k]
  <2>1. k \in DOMAIN plan[r] /\ pipes[id][k] = [by |-> r, req |-> plan[r][k]]
    BY <1>1, <1>2, Zenon DEF AppliedInOrder
  <2>2. QED
    BY <2>1
<1>5. QED
  BY <1>2, <1>3, <1>4

LEMMA DeclaredFollows == BuiltInv => SubmittedAsDeclared
<1> SUFFICES ASSUME BuiltInv, NEW r \in Runs, NEW id \in CreatedBy(r)
             PROVE  \E nc \in 0..MaxCalls, np \in 0..MaxCalls, nd \in {0, 1} :
                      /\ Seen(nc, before[r].connectors, upTo[r].connectors)
                      /\ Seen(np, before[r].processors, upTo[r].processors)
                      /\ nd = 0 => before[r].dlqs = <<>>
                      /\ \A k \in DOMAIN pipes[id] : AsDeclared(pipes[id][k].req, k, r, nc, np, nd)
  BY DEF SubmittedAsDeclared
<1>1. id \in Ids /\ Creator(id) = r /\ pipes[id] # <<>>
  BY DEF CreatedBy
<1>2. \A k \in DOMAIN pipes[id] : k \in DOMAIN plan[r] /\ pipes[id][k].req = plan[r][k]
  BY <1>1, EffectIsPlanned
<1>3. plan[r] # <<>>
  <2>1. pipes[id] \in Seq(Effect)
    BY <1>1 DEF BuiltInv, IInv, TypeOK
  <2>2. 1 \in DOMAIN pipes[id]
    BY <1>1, <2>1
  <2>3. QED
    BY <1>2, <2>2
<1>4. PICK nc \in 0..MaxCalls, np \in 0..MaxCalls, nd \in {0, 1} :
        /\ Seen(nc, before[r].connectors, upTo[r].connectors)
        /\ Seen(np, before[r].processors, upTo[r].processors)
        /\ nd = 0 => before[r].dlqs = <<>>
        /\ \A k \in DOMAIN plan[r] : AsDeclared(plan[r][k], k, r, nc, np, nd)
  BY <1>3, PlanDeclares
<1>5. \A k \in DOMAIN pipes[id] : AsDeclared(pipes[id][k].req, k, r, nc, np, nd)
  BY <1>2, <1>4
<1>6. QED
  BY <1>4, <1>5

LEMMA WindowFollows == BuiltInv => WindowOnlyOffIfAsked
<1> SUFFICES ASSUME BuiltInv, NEW id \in Ids, NEW k \in DOMAIN pipes[id],
                    pipes[id][k].req.path = Path("UpdateDLQ"), pipes[id][k].req.arg.window_size = 0
             PROVE  \E call \in InForce(Creator(id)) : call.window_size = {0}
  BY DEF WindowOnlyOffIfAsked
<1>1. PICK r \in Runs : r = Creator(id) /\ k \in DOMAIN plan[r] /\ pipes[id][k].req = plan[r][k]
  BY EffectIsPlanned
<1>2. PICK q : q = plan[r][k] /\ q.path = Path("UpdateDLQ") /\ q.arg.window_size = 0
  BY <1>1
<1>3. PICK nc, np, nd : AsDeclared(q, k, r, nc, np, nd)
  <2>1. plan[r] # <<>>
    BY <1>1
  <2>2. QED
    BY <1>1, <1>2, <2>1, PlanDeclares
<1>4. /\ Path("UpdateDLQ") # Path("CreatePipeline") /\ Path("UpdateDLQ") # Path("CreateConnector")
      /\ Path("UpdateDLQ") # Path("CreateProcessor") /\ Path("UpdateDLQ") # Path("StartPipeline")
  BY DEF Path, PipelineService, ConnectorService, ProcessorService, InformationService
<1>5. TellsDlq(q.arg, r)
  BY <1>2, <1>3, <1>4 DEF AsDeclared
<1>6. PICK call \in InForce(r) : TellsOption(0, call.window_size, 1)
  BY <1>2, <1>5 DEF TellsDlq
<1>7. 0 \in call.window_size
  BY <1>6 DEF TellsOption
<1>8. call \in DlqCalls
  <2>1. upTo[r] \in AnySaid
    BY DEF BuiltInv, BuildsOK, BuildOK
  <2>2. upTo[r].dlqs \in Seq(DlqCalls)
    BY <2>1, SaidParts
  <2>3. QED
    BY <2>2 DEF InForce
<1>9. \A v, w \in call.window_size : v = w
  BY <1>8, BuiltAssumption
<1>10. QED
  BY <1>1, <1>7, <1>9

-----------------------------------------------------------------------------
\* However fluent calls, runs, the steps of build_requests, requests and answers
\* interleave, BuiltInv holds.
THEOREM BuiltInvariance == BuiltSpec => []BuiltInv
BY BuiltInitInv, BuiltStep, PTL DEF BuiltSpec

\* Plans that come from live builders change nothing of what run() and stop()
\* promise: order, completeness, the pipeline an error names, the run a stop()
\* reaches.
THEOREM PromisesKept ==
  BuiltSpec => [](/\ TypeOK /\ AppliedInOrder /\ ReturnedMeansComplete
                  /\ ErrorNamesPipeline /\ StopReachesItsRun)
<1>1. BuiltInv => /\ TypeOK /\ AppliedInOrder /\ ReturnedMeansComplete
                  /\ ErrorNamesPipeline /\ StopReachesItsRun
  BY Consequences DEF BuiltInv
<1>2. QED
  BY <1>1, BuiltInvariance, PTL

\* A pipeline at the engine is what its builder had been told when run() was
\* called, with every name, number and setting, in order; of the connector and
\* processor calls made while build_requests read the builder, the first so many;
\* and each field of the DLQ is that of a dlq() call in force meanwhile.
THEOREM DeclaredIsSubmitted == BuiltSpec => []SubmittedAsDeclared
BY DeclaredFollows, BuiltInvariance, PTL

\* No default of dlq() and no conversion of build_requests() switches the nack
\* window off: a window of 0 at the engine was asked for.
THEOREM WindowStaysOn == BuiltSpec => []WindowOnlyOffIfAsked
BY WindowFollows, BuiltInvariance, PTL

\* Neither fluent calls nor the reading of builders can be seen from outside: the
\* run() of a live builder is a Submission.
THEOREM BuiltRefinement == BuiltSpec => ImplementsSubmission
<1>1. BuiltInit => Outside!Init
  BY InitMaps DEF BuiltInit
<1>2. BuiltInv /\ [BuiltNext]_allVars => [Outside!Next]_outsideVars
  BY Simulates, StepMaps DEF BuiltInv
<1>3. QED
  BY <1>1, <1>2, BuiltInvariance, PTL
  DEF BuiltSpec, ImplementsSubmission, Outside!Spec, Outside!subVars, outsideVars
=============================================================================
