# A verification of conduit-client-python

TLA+ models of the Python client of Conduit (`src/src/conduit/`), the TLC
configurations that check them and the proofs that TLAPS checks.

    tlc -config Provision.cfg MCProvision.tla     # a run: see the table below
    tlapm Provision_proofs.tla                    # a proof module

## 1. The system

The library starts or reaches a Conduit engine (a separate process that serves
gRPC), submits pipelines to it and watches them.

| Component | State | Operations | Talks to |
|---|---|---|---|
| Engine provisioning, `_provision.py` | the per-user cache directory, temporary files in it | `ensure_binary`, `resolve_version` | GitHub releases; other processes, through the file system |
| Local engine supervision, `_local.py` | a child process, its two ports, log file, `_stopped`, an `atexit` handler, a `Client` | `local()`, `close()`, `_terminate`, `_atexit_kill` | provisioning, the child, `Client` (callback `on_close`) |
| Client, `client.py` | a gRPC channel, `_closed` | `connect()`, `run`, `get_info`, `close` | the engine, one unary RPC at a time |
| Error translation, `errors.py` | none | `ConduitError.from_rpc_error` | called by `Client._call` |
| Run handle, `run.py` | a pipeline id | `status`, `wait_running`, `stop` | the engine, through `Client._call` |
| Pipeline builder, `pipeline.py` | the declared connectors and processors, a DLQ; changed in place by each fluent call | `source`, `destination`, `process`, `dlq`, `build_requests` | gives `Client.run` its plan |
| Generated stubs, `_grpc/` | none | one callable per API method | bound to the channel by `Client.__init__` |
| `__init__.py` | none | re-exports | |

What is hard, and what makes each part correct:

* **Provisioning** has no lock. Processes check, download and rename in any
  interleaving, and any of them may be killed. Whatever is at the final path
  must be a whole, verified, executable engine of its version; temporary files
  must go; failures must be reported.
* **Supervision** must never leave an engine that nobody will stop: not when
  `local()` fails, not after `close()`, not at the host's exit. Ctrl-C,
  `kill -9`, an engine that ignores SIGTERM and a port taken by somebody else
  are what stands against that.
* **Submission** is a sequence of requests without a transaction. Each may be
  rejected, lost, or carried out after the client gave up on it, while other
  runs, the `stop()` of other handles and a `close()` proceed.
* **Building** is done on a mutable object, which the caller may hand to several
  runs and go on changing while they are under way, from other threads even
  while `build_requests` reads it. What is not given must get
  the engine's default, and an explicit 0 must stay a 0.
* **Closing** has two guards, `_closed` and `_stopped`, which are tested in one
  step and set in another; several threads may be in `close()` at once.
* **Watching** polls a status that changes under it, with answers that are
  late and a deadline that is read in one place.
* **Error translation** must work on any exception. gRPC gives an unreachable
  engine the same status codes that a handler may answer with; the dotted code
  must tell them apart.

`PROJECT.json` lists the hazards one by one, each at its line and with the
properties that would catch it.

## 2. The modules

### Provision, BinaryCache

`Provision` is `ensure_binary`. An element of `Calls` is one call, in any
process or thread; `cache[v]` is the file at `cached_binary_path(v)` and
`tmp[c]` the file `mkstemp` made for call `c`. Each action is a step of the
function: `Begin` (version resolution), `CheckCache` (`exists()` and the asset
name), `GetArchive`, `GetChecksums`, `Verify`, `Extract`, `MakeTemp`,
`EnterTry`, `Write` (in parts), `Chmod`, `Replace`, `Cleanup` (the `finally`).
`Raise` sends an exception to the `finally` if it is raised in the `try` body,
and out of the function otherwise. `DiskError`, `Interrupt` (Ctrl-C) and `Kill`
(`kill -9`) may come at any step where they can; the `unlink` of the `finally` is
one of the steps that may fail (`UnlinkError`). Contents are abstracted to what
the code can tell apart: an archive is good, without a binary, no archive at all,
or altered on its way; a checksum file matches, disagrees, does not list the
archive, or is not UTF-8. SHA-256 is taken to tell altered archives from good ones.

`BinaryCache` is the abstract promise: a cache that only grows, in which an
engine appears at once and whole, and answers that are a path only for an
engine that is held. `Provision` implements it with `held` = the versions with a
whole, executable file at the final path.

### LocalEngine

An element of `Engines` is one `LocalConduit` object with its child process;
an element of `Hosts` is a host process with one thread. `pc[h]` is the step the
thread is at: `Local` is the call of `local()`, `spawn`, `register`, `dial`, `poll`,
`probe` are `__init__` and `_wait_ready`, `hangup` is `Client.close`, the `t_...` steps are `_terminate`,
`atexit` is the interpreter running the handlers. `ret[h]` is where `_terminate`
returns to. `late` is the clock of whatever the thread waits for with a timeout:
it is set back when `local()` begins to wait, when SIGTERM is sent and when SIGKILL
is, and `Deadline` says that the time is up. The engine is external: it binds its ports late or dies of a
collision (`Bind`), may exit at any moment (`Die`), and need not obey SIGTERM.
`_free_port` is modelled by what it does: a port nobody has bound at that moment.

`InterruptAt` names the steps at which Ctrl-C may strike. `BearableInterrupts`
(`MCLocalEngine`) leaves out `register` (the child runs, and no handler knows
it), and `t_check`, `t_term`, `t_wait`, `t_kill`, where the code gives up a stop it has
announced in `_stopped`, or, at `t_check`, where the exception handler itself is
cut off. There the code does abandon an engine; the run `local_interrupted_stop`
shows one such case, and the theorems state the restriction as `SafeInterrupts`.

### CloseRace

One `LocalConduit` object and several threads in its `close()`, of which `Main`
is the one that ends the program. Every test and every assignment of `_closed`
and `_stopped` is a step of its own, so two threads may both pass a guard; then
`_terminate` runs twice and the engine gets two SIGTERMs. `Exit` is the end of
the program: the interpreter joins the other threads and runs `_atexit_kill`,
which goes through the same `_terminate`. Daemon threads are not joined and are
outside the model. This is kept apart from `LocalEngine`, whose hosts have one
thread, so that each can be checked at a size at which its cases happen.

### Api, Submission, ClientRun

`Api` says which methods the four stubs of `Client.__init__` have, which are
streams that `_call` cannot drive, and the path a request carries.

`ClientRun` is one `Client`. The callers are `Main`, which calls `connect()`, and
`Runs`; an element of `Runs` is one call of `Client.run` and, if it returns,
the `stop()` of its handle. `plan[r]` is the sequence of requests the
builder made and `next[r]` the one that is under way. `wire` holds the requests
on their way, `reply` the answers, `pipes[id]` the log of what the engine
carried out on pipeline `id`, `stops[id]` the stops it took. `Send`, `Receive`
and `GiveUp` are `_call` for whichever request is due (`Current`, `Target`);
`GiveUp` (deadline, lost connection, cancelled by `close()`) leaves the request
on the wire, so it may still be carried out. The engine may carry out, reject or
lose each request; with `Garbled`, the details of a rejection may not parse
(`RaiseDecodeError`, which `rpc_errors_raise` shows in `errors.py`); an engine that crashes and comes back with its state directory
is, for the client, requests lost and answers given up. A `connect()` whose `GetInfo` fails leaves an open channel
and no client, so `Close` is then never possible.

`Submission` is what a caller sees: effects one by one, success only when all
are done, and after an error at most one straggler.

### PipelineBuilder, BuiltRun

`PipelineBuilder` is `pipeline.py` as operators on a record: each fluent call
returns the builder as it is afterwards. A Python value is its type and its
`str()`, an optional argument is `None` or the value. `WorkersFit` and
`WindowsFit` say whether protobuf takes the numbers; the code finds out in
`build_requests` only.

`BuiltRun` composes it with `ClientRun`: a `Fluent` call changes a builder at any
moment, also while runs it was given to are under way. `Run` is the call of
`client.run(Of[r], start=Start[r])`; `Build` is `build_requests`, one action for each
look at the builder: `ReadConnectors`, `ReadProcessors`, `ReadDlq` (`self._dlq` and its
plugin), then `ReadSettings`, `ReadWindow` and `ReadThreshold`, each of which looks `self._dlq` up
again, so that a `dlq()` call in between leaves a mixture. `stage[r]` is the next of
them and `draft[r]` what has been read. `Made` begins the run or, if a number did not fit, refuses it.
A list is read in one action though other threads may append to it while it is walked
through: the code sees the elements up to the moment its walk ends. Each step of `BuiltNext` is a step of
`ClientRun`'s `Next`, with the plan the draft gives, or leaves `ClientRun`'s
variables alone (lemma `Simulates` of `BuiltRun_proofs`).

`said`, `before` and `upTo` are history variables: `said[b]` keeps the arguments of the
calls on builder `b` as the caller gave them, connectors, processors and DLQs each on
its own; `before[r]` is what had been said when run `r` was called, and `upTo[r]` what had been said when
its requests were made. `SubmittedAsDeclared` compares the engine's logs with the
arguments of these calls and of the constructor (`Labels`), field by field: name, description,
plugin, condition, workers, settings and both DLQ windows. The constants `Plans` and `Request`
must cover what can be read of a builder (`BuiltAssumption`).

### RunHandle

An element of `Waiters` is one call of `wait_running` on the same pipeline.
`now` counts ticks; `Tick` may not pass a moment at which a caller is due, which
stands for a host that is never late. `Answer` takes the pipeline's status at
one moment, `Receive` delivers it at a later one; `Fail` is a lost connection or
the RPC's timeout; `Change` is the engine or another client changing the status.
`seen[w]` is a history variable: the statuses the pipeline had since call `w`
began. `IsRunning` and `IsDegraded` are the properties of `RunStatus` that decide.
`stop()` is one RPC and is in `ClientRun`; here it is one of the causes of `Change`.

### RpcErrors

`from_rpc_error` and `_code_from_status` as operators on a record of what they
can tell apart, over every exception with up to `MaxDetails` details. Beside that an
exception has a sender (`by`), which the code does not see: a `handler` of an engine with
structured errors, which sends Conduit's detail among others; `nobody`, when gRPC made up
the status because the engine was not reached or not in time; or anything `other`, such as an older engine, a proxy
or an `RpcError` that is no `Call`, which may look like anything (`CanSend`). A `str()` may be empty,
as that of a bare `grpc.RpcError()` is, and then so is the message.

## 3. The runs

| Run | Instance | Shows |
|---|---|---|
| `provision` | 3 calls (one on an unsupported platform), 3 releases (good, no binary, no archive), environment variable set, Ctrl-C at five steps, `kill -9` and disk errors at every step | `CacheWhole`, `CacheStable`, `TempRemoved`, `ReturnsInstalled`, `ImplementsCache`, `EveryCallEnds` |
| `local_sessions` | 1 host, 2 engines, 4 ports, Ctrl-C in the readiness loop | all invariants, `GraceBeforeKill`, `ReadyIsOwnEngine`, `StartupEnds`, `StopCompletes` |
| `local_interrupts` | 2 hosts, 2 engines, 2 ports, every bearable Ctrl-C, `kill -9`, a slow kernel | `NoAbandonedEngine`, `HostExitLeavesNothing` |
| `close_race` | 3 threads, an engine that crashes, drains late or not at all | `AllReturnedMeansReleased`, `ExitStopsEngine`, `ClosesEnd`, `CloseEndsEngine` |
| `client_run` | one client, 2 runs that submit one builder, up to 2 fluent calls on it (one of them since the first run was called, also while `build_requests` reads), one `stop()`, 2 ids, errors whose details do not parse, `close()` at any moment | `AppliedInOrder`, `ReturnedMeansComplete`, `ErrorNamesPipeline`, `StopReachesItsRun`, `SubmittedAsDeclared`, `WindowOnlyOffIfAsked`, `ImplementsSubmission`, `CallsEnd` |
| `run_handle` | calls with timeouts 1 and 3, interval 1, RPC timeout 2, five statuses | `ReportIsFresh`, `TimeoutIsHonest`, `BoundedWait`, `WaitEnds` |
| `rpc_errors` | up to 3 details of 5 kinds, 9 codes, 3 senders | `AlwaysActionable`, `ReasonIsConduits`, `UnreachableToldApart` |

Bounds. Calls of `ensure_binary` meet in one cache entry; two installers and a
reader are every role there is, and one release of each kind is every outcome of
an extraction. The five steps at which Ctrl-C strikes in `provision` are a download,
the two windows around the `try` statement, and the first and last step inside it. One host's engines meet in its thread and
handlers, so two engines show an order between them; hosts meet only in ports,
so two show a collision. `local_sessions` has four ports so that two engines can
run at a time; `local_interrupts` asks nothing about ports and has two. Runs meet
in the engine's ids and in the builder, and two of each kind of meeting suffice
to mix two runs up. In `client_run` a plan has up to four requests, so there is a
pair of connectors, processors or DLQs to put in the wrong order and a DLQ to put
after the start; one run starts its pipeline and the other does not (`MCStart`), and
the first one's handle is stopped (`Stoppers`). Of the `MaxCalls` = 2 calls on the builder,
`MaxLate` = 1 may be made since a run was called with it (`Late`: a source, or a DLQ
that differs from the earlier ones in every field), while `build_requests` reads for either run
or before it has begun (`LateWhile`). A call that comes later finds nothing that still reads the builder
except the other run's `build_requests`, to which it is an early one. The calls include a key given
twice, a boolean, a number left out, an explicit 0 and a number that does not
fit its field. `MaxUint64` and `MaxInt32` are small: nothing but
the comparison with them matters. Three threads in `close()` are two that pass a guard together and one that
finds it set. Details of a status
matter by the first decisive one; three put something before and after it.
The timeouts of `run_handle` are the smallest with a poll that spans the deadline,
one that spans a sleep, and (1) no second poll. Calls of `run_handle` begin in the
first tick (`LatestStart`). Symmetry is used in `local_interrupts` only, which
has no liveness property.

What some of the properties say, and what they do not:

* `TempRemoved`: a call that ends leaves a temporary file in three cases only. Two are a
  Ctrl-C in the windows which the `try` statement does not cover; the third is that the `unlink` fails.
* `GraceBeforeKill`: an engine that is sent SIGTERM gets a grace period of its own, whatever the host has
  waited before, and SIGKILL comes only when that has run out.
* `NoAbandonedEngine` and `HostExitLeavesNothing` speak of engines. That `_terminate` leaves the log file open
  when its second wait times out is in the model (`Reap`), and no property forbids it.
* `ErrorNamesPipeline`: once `CreatePipeline` was answered, the `ConduitError` of a run names its
  pipeline; before that it names none, and nothing but `CreatePipeline` took effect or will. It is about
  `ConduitError` only: the exception of details that do not parse carries no id.
* `SubmittedAsDeclared`: all that was declared before `run()` was called is sent. Of a connector or
  processor added while `build_requests` reads, all is sent or nothing, and a later one is
  not sent without an earlier one; each field of the DLQ is that of a `dlq()` call in force while it was read.
* `UnreachableToldApart`: a status that gRPC made up gives `transport.*`, an answer of a handler with structured
  errors never does. An older engine's plain `UNAVAILABLE` gives `transport.*` too: the code cannot know
  (`errors.py:135-138`), and the property says nothing of it.
* `AlwaysActionable`: a code and a gRPC category always, a message if the exception has any text. It and the next
  two speak of translations that do not raise; `rpc_errors_raise` is about those that do.
* `AllReturnedMeansReleased`: a second `close()` may return while the first still stops the engine; the statement is about
  when all have returned.

Deadlock is not checked: calls end, hosts exit, runs return, and nothing is left
to do.

Runs that show a disagreement between the code and what it says of itself:

| Run | The code | The text |
|---|---|---|
| `provision_raw_errors` | `IncompleteRead`, `UnicodeDecodeError`, `ReadError` leave `ensure_binary` | `_provision.py:193` "ConduitError: on ... a download failure ... or a malformed archive" |
| `local_interrupted_stop` | `_stopped` is set before the stop is done; a stop that is interrupted is never finished | `_local.py:206` "stop the supervised subprocess (graceful, then force)" |
| `local_port_race` | the readiness poll takes an answer from any engine at the address | `_local.py:50` "it does not silently connect to the wrong process" |
| `client_run_closed` | a closed channel raises `ValueError` | `errors.py:1` "the one exception type this client ever raises for a failed call" |
| `rpc_errors_raise` | protobuf's `DecodeError` is not caught | `errors.py:103` "never raising itself" |

More places where the text promises more than the code does were met while
modelling; the models follow the code, and no run shows them.

* `run.py:7-9` says "a transient reconnect is invisible to the caller"; the first
  failed poll ends `wait_running` (`run.py:133`; `Fail` of `RunHandle`).
* `run.py:117` calls `timeout` the "total seconds to wait"; the deadline is read between
  polls, each of which may take the 5 s default of `status()`. `BoundedWait` states
  the bound there is.
* `client.py:66` says that `on_close` is called once; two threads that pass
  `_closed` together call it twice (`Check`, `Mark` of `CloseRace`). The engine is
  released all the same, which is what `CloseRace` states.
* `README.md:143` of the repository says that "a host-process crash still takes the engine down with it"; after a
  `kill -9` of the host no handler runs, and the engine lives on (`Kill` of
  `LocalEngine`, where `NoAbandonedEngine` speaks of hosts that were not killed).
* The cache is keyed by version only (`_provision.py:101`), so machines of different
  architectures that share a home directory would share a binary.
* An engine that exits after the last `poll()` of the readiness loop is reported as
  unreachable and not as crashed (`_local.py:146`).

## 4. Fairness

* `Provision`: each call's own steps are weakly fair. The process runs and every
  transfer ends; `urlopen(timeout=30)` bounds each socket operation, so this
  assumes a server that does not trickle for ever. No fairness for Ctrl-C, `kill -9` or
  the next call.
* `LocalEngine`: each host's own steps and its deadline are weakly fair, and the
  kernel reaps a child that got SIGKILL. No fairness for an engine that binds,
  answers or drains, nor for the caller's code.
* `CloseRace`: threads run, both waits have a timeout, and the kernel ends a child
  that got SIGKILL. The engine need not obey SIGTERM, and the program need not
  exit.
* `ClientRun`, `BuiltRun`: a call that has begun goes on, because every RPC has a
  timeout (`GiveUp`). The engine owes nothing; no one need make a fluent call, stop or close.
* `RunHandle`: time passes, and a caller that is due goes on. The engine owes no
  answer.

## 5. The proofs

Each component's proof module defines an inductive invariant `IInv`, proves that `Init`
gives it and every action keeps it (one step per action, and one lemma per conjunct where they are large),
and draws the theorems from it.

* `Provision_proofs`, for any calls, versions, releases and interrupts:
  `TypeCorrect`, `CacheAlwaysWhole`, `CacheNeverChanges`, `ReturnedIsInstalled`,
  `TempsRemoved` (with its three cases), and `Refinement` (`Spec => ImplementsCache`). `CacheWhole` is not inductive: `IInv`
  adds what every temporary file is for and how far it has got, by the step of
  the call that owns it, so that `Replace` can only install a finished one; and
  that a call past `Verify` holds the archive the release published.
* `LocalEngine_proofs`, for any hosts, engines and ports under `SafeInterrupts`:
  `TypeCorrect`, `NobodyAbandoned`, `ExitLeavesNothing`, `GraceFirst` (a grace period of its own for
  each stop). `IInv`
  says who looks after an engine that was not sent SIGKILL (`EngineOK`: its handler, or its
  owner's thread at a named step) and that a thread works on an engine of its
  own host only (`HostOK`), which keeps one host's step from disturbing another's engine.
  Two theorems need more than that, each with an invariant on top of `IInv`:
  * `ReleasedIsReleased`, if no Ctrl-C strikes in a stop and no SIGKILLed child
    outlives the second wait (`CalmStops`); `local_interrupted_stop` shows that this is
    needed. `RInv` follows what each step of a stop still has to release.
  * `ReadyIsOwn`, for one host (`OneHost`; `local_port_race` shows that two can be mixed
    up) whose `local()` is not cut off by a Ctrl-C at `dial`, between `atexit.register` and the `try`
    statement: there an engine is left behind that binds its port when the next
    `local()` has been given it. `NInv` says that an engine that has yet to bind is the
    one its host works on, so nobody takes a port between the draw and the answer.
* `CloseRace_proofs`, for any number of threads: `Released`, `ExitStops`. The
  invariant says that if the engine runs though `_stopped` is set, some thread is
  before its SIGKILL or has given up; that each flag has a thread behind it that
  is past the test; and that in an exiting process only `Main` is still in a stop.
* `ClientRun_proofs`, for any runs, plans and ids: `TypeCorrect`,
  `LogsAreBeginnings`, `ReturnsWhenDone`, `ErrorsName`, `StopsReach`. `IInv` relates
  the three places a run's progress is kept: its own position (`next`), its request
  or answer under way (at most one, and not both), and the log at the engine, which
  is as long as the position says, or one longer when the answer is still under way or was given up.
  `ConduitErrorsOnly` adds that a failed RPC raises nothing but a `ConduitError`, if no one closes the
  client (`~MayClose`) and details of errors parse (`~Garbled`): what `client_run_closed` and
  `rpc_errors_raise` show are the only two ways.
* `ClientRunRefines_proofs`: `Refinement` (`Spec => ImplementsSubmission`). What
  the caller sees of a run that is not the one a step is about does not change; a
  request that is carried out is the one effect of its run, or the straggler.
* `BuiltRun_proofs`, for any builders, fluent calls and runs: `DeclaredIsSubmitted`,
  `WindowStaysOn`, `PromisesKept` (the invariants of `ClientRun`) and `BuiltRefinement`.
  The argument has three parts. `BuildersOK`: at every moment a builder is what its
  constructor and `said[b]` make of it (`ConnectorsOf`, `ProcessorsOf`, `DlqOf`), since each fluent call adds the
  same to both (`FluentHere`). `BuildsOK`: what a run has read so far is, for some number, the first so many of
  the connectors and processors said, and for each field of the DLQ a call in force (`ReadSoFar`); `ReadKept` says that later fluent calls
  leave that true, `ReadNow` and `LookedUp` that each look at the builder adds to it. So a run's plan is
  what such a draft makes (`PlanOf`), and stays so whatever is said later. `Simulates`:
  `ClientRun`'s `IInv` holds too, by its own step lemma, and says that the engine's
  logs are beginnings of those plans. What a plan has at position `k` is lemma
  `RequestsAt`, a fact about concatenation, and `PlanDeclares` compares it with the
  arguments of the calls.
* `RpcErrors_proofs`, for any number of details: `TypeCorrect`, `Actionable`,
  `ReasonPassedOn`, `UnreachableTold`, and `RaisesOnlyUnparsed`, which says
  by what alone `rpc_errors_raise` can happen. The loop over the details is described by
  the first decisive one, whose existence is lemma `Earliest`.
* `RunHandle_proofs`, for any callers, timeouts, intervals and statuses:
  `TypeCorrect`, `Fresh`, `Honest`, `Bounded`. `IInv` bounds the moment at which
  each step is due, and says that an answer on its way was true during its call.

The assumptions are the named `ASSUME`s of the models, which TLC evaluates on
every run.

Model-checked only: liveness (`EveryCallEnds`, `StartupEnds`, `StopCompletes`,
`ClosesEnd`, `CloseEndsEngine`, `CallsEnd`, `WaitEnds`), which is out of the
prover's reach. Every invariant and every action property that a passing run checks is
also a theorem, under the assumptions named above.

## 6. Not modelled

* `__init__.py` (re-exports) and, of `_grpc/`, the message codecs, the servicers
  and the experimental classes: generated code that keeps no state, of which the client
  runs the stubs (`Api`) and the codecs, taken to be faithful.
* `__str__` and the texts of errors, `_log_tail`, the warning and the banner of
  `local()`: formatting and logging. So is the prefix of `STATUS_...` that
  `status()` strips.
* A power loss (no `fsync` before the rename): what is left of the file then is the
  file system's affair. A server that trickles bytes for ever: `urlopen` bounds each
  socket operation and not the transfer, so `EveryCallEnds` fails there by
  definition. A cache directory shared between platforms (see section 3;
  `Supported` says which calls are on a platform with a published asset).
* Threads in one `local()`: a host of `LocalEngine` has one thread, and
  `CloseRace` has several on an object that is ready.
* The engine and GitHub are external: they appear as what the client can observe of
  them.

## 7. Plan

The order was: provisioning, supervision, submission, watching, errors, each with
its proofs; then the builder composed with submission, `connect()`, `stop()`,
the races of `close()`, and the proofs of `ClientRun`, its refinement, `RpcErrors`,
`TempRemoved`, `ReleasedMeansReleased`, `BuiltRun` and `ReadyIsOwnEngine`. All of this is done. What would add most now:

1. `Session`: `local()`, `run`, `wait_running`, `stop` and `close` in one module, against one
   supervised engine whose state directory outlives it, for what is true from one
   `local()` to the next.
2. The cache entries of `Provision` over a power loss, as a choice of what the file
   system keeps, if the code comes to sync before it renames.
3. A host of several threads in `LocalEngine`, once that can be checked at a
   useful size.
