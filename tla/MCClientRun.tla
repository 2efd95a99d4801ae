---------------------------- MODULE MCClientRun ----------------------------
(* Instances of ClientRun, with the builders of BuiltRun, for TLC. *)
EXTENDS BuiltRun, TLC

CONSTANTS r1, r2, id1, id2, b1

Str(s) == [type |-> "str", str |-> s]
True == [type |-> "bool", str |-> "True"]

MCLabels == (b1 :> [id |-> "orders-sync", name |-> {"orders"}, description |-> "demo"])
MCOf == [r \in Runs |-> b1]
MCStart == [r \in Runs |-> r = r1]

\* A source with a key given twice and a boolean, a named destination, processors
\* with no number of workers and with too many; DLQs that differ in every field,
\* with the default window, an explicit 0, and a number that does not fit.
ASource ==
  [method |-> "source", plugin |-> "generator", name |-> "",
   settings |-> [rate |-> Str("1"), recreate |-> True], kwargs |-> [rate |-> Str("2")]]
ADestination ==
  [method |-> "destination", plugin |-> "log", name |-> "sink",
   settings |-> <<>>, kwargs |-> [level |-> Str("info")]]
AProcessor(workers) ==
  [method |-> "process", plugin |-> "field.filter", condition |-> "", workers |-> workers,
   settings |-> <<>>, kwargs |-> <<>>]
DefaultDlq ==
  [method |-> "dlq", plugin |-> "builtin:log", window_size |-> None,
   window_nack_threshold |-> None, settings |-> <<>>, kwargs |-> <<>>]
FileDlq(window) ==
  [method |-> "dlq", plugin |-> "builtin:file", window_size |-> window,
   window_nack_threshold |-> {2}, settings |-> <<>>, kwargs |-> [path |-> Str("dlq.out")]]

MCEarly == {ADestination, AProcessor(None), AProcessor({10}), DefaultDlq, FileDlq({-1})}
MCLate == {ASource, FileDlq({0})}
MCFew == {ADestination}

\* No fluent call comes between the requests of one run and the call of the next:
\* to the second it is as one made while the first still reads.
MCLateWhile ==
  {"none", "connectors", "processors", "dlq", "settings", "window_size",
   "window_nack_threshold"}

\* Whatever can be read of a builder to which these calls are made.  The filter
\* makes TLC enumerate the requests once.
AllDrafts ==
  [name : {"orders"}, description : {"demo"}, connectors : AnyConnectors,
   processors : {p \in AnyProcessors : WorkersFit(p)},
   dlq : {None} \cup {{d} : d \in {x \in AnyDlq : WindowsFit({x})}}]
AllPlans == {Requests(BuildRequests(b), start) : b \in AllDrafts, start \in BOOLEAN}
AllRequests == {q \in UNION {{p[k] : k \in DOMAIN p} : p \in AllPlans} : TRUE}
MCPlans == AllPlans
MCRequest == AllRequests
=============================================================================
