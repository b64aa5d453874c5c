# Verification of crossplane-function-js

The repository is a Crossplane composition function. A Go server answers gRPC
`RunFunction` calls; for every distinct function spec it keeps one node.js child
process that runs the user's TypeScript, and it starts, reuses, restarts and
collects these children. This directory holds TLA+ models of that program, the
TLC configurations that check them on small instances, and theorems about them
checked by TLAPS.

    tlc -workers 2 -config pm_core.cfg MCExecutions.tla         a run
    tlapm ProcessManagerProofs.tla                              the proofs of a module

`PROJECT.json` maps every definition to the source lines it models and lists the
runs, the mutants (a faulty variant of a definition for every property, which the
property must refute), the hazards, the findings and the theorems.

## 1. The system

### Components

| component | source | state it keeps | operations |
|---|---|---|---|
| process manager | `pkg/node/process.go`, `execution.go`, `health.go`, `garbage.go`, `processinfo.go`, `options.go` | the map from spec hash to `ProcessInfo`, `pm.lock`, one `Lock` and `LastUsed` per `ProcessInfo`, the directories on disk | `ExecuteFunction`, `getOrCreateProcess`, `isProcessHealthy`, `restartProcess`, `collectGarbage` |
| client of the child | `pkg/node/client.go` | base URL and timeout | `CheckReady`, `WaitForReady`, `ExecuteFunction` |
| yarn queue and installer | `pkg/node/yarn.go` | a semaphore; per job a result channel and a context | `InstallDependencies`, `SubmitYarnInstall`, `executeYarnInstall`, `PrepareYarnEnvironment`, `CreatePackageJSON` |
| dependency resolution | `pkg/node/dependency.go`, `workspace.go` | the workspace map, read once | `GetWorkspacePackages`, `ResolveDependencies` |
| log writer | `pkg/node/logwriter.go` | the partial line of one stream | `Write`, `Flush` |
| node child | `packages/server/src` | the listening socket, requests with their execution timers, the shutdown's timers | `/ready`, `/execute`, `SIGTERM` |
| configuration | `pkg/config/config.go`, `cmd/server/main.go` | the configuration, set at start | `LoadConfig`, `Validate`, the flags |
| gRPC server and main | `cmd/server/main.go`, `pkg/grpc/server.go`, `pkg/http/server.go` | two servers, each run by a goroutine | start, signal, stop |
| RunFunction pipeline | `pkg/grpc/handler.go`, `localresource.go`, `pkg/context` | the response under construction, per call | parse, prepare, execute, merge |
| conditions and events | `pkg/conditions`, `pkg/events` | none | `SetConditions`, `SetEvents` |
| errors | `pkg/errors` | errors that share maps of fields | `New`, `Wrap...`, `Get...` |
| redaction | `pkg/grpc/crossplaneio.go` | none | `LogCrossplaneProto`, `redactInPlace` |
| SDK | `packages/sdk/src` | a response object in the user's function; `status.errors` from one reconciliation to the next | `FieldRef`, `updateResource`, `buildResponse`, `getErrorsFromObservedResources`, accessors |
| shared libraries | `packages/libs` | none | order of versions, logger |
| command line tools | `packages/cli` | the directory `manifests/` | `gen-manifests`, `gen-models`, `xrd2crd` |
| the rest | hash, loggers and interceptor, resource helpers, generated code, charts | none | see section 8 |

### How they interact

A gRPC goroutine runs `RunFunction`, which parses the input and calls
`ExecuteFunction` of the process manager. That looks the spec's hash up under the
read side of `pm.lock`, checks the child over HTTP without a lock, and creates a
process under the write side, which it holds while yarn installs the
dependencies (through the queue) and until the child answers `/ready`. The
request itself is sent under the `ProcessInfo`'s own `Lock`. Any failure leads to
`restartProcess`, which kills the child, removes the directory of its spec and
takes the entry out of the map, in three steps under no common lock. A ticker
goroutine collects idle processes under `pm.lock`, and takes each process's
`Lock` in turn. Children are seen only through HTTP, signals and the disk. When
the call comes back its JSON is merged into the response, part by part. On a
signal, main stops the health check server and then drains the gRPC server.

What a child is made of comes from a composition, which `gen-manifests` wrote on a
developer's machine from the function's files and the working directory's.

### What is hard

* two locks taken in one order by the collector and needed in the other by
  requests; a handle (`*ProcessInfo`) used long after it was looked up;
* a health check is "somebody answers on that port", not "this child lives";
* a directory shared by all incarnations of a spec, removed without a lock;
* everything slow happens with `pm.lock` held: liveness of every call depends on
  the installs, on the readiness wait and on requests in flight;
* cancelled callers that leave workers, slots and yarn processes behind;
* an event loop on which a timeout and the code it limits exclude each other;
* five timers in two processes that race each other at shutdown;
* a merge that can fail at any of its parts while its targets are shared with
  the response that reports the failure;
* a request that is sent again while an earlier attempt may still execute, in the
  same child or in one about to be killed;
* one setting with three sources (environment, a legacy variable, flags), one of
  which is read after the others have been validated;
* two stages, the tool and the server, that each choose a file or a version by
  rules of their own, with text placeholders between them.

### What makes each component correct

* process manager: no deadlock, every call returns; at most one child per spec,
  and none lost; an answer comes from the code of the call's own spec (both hold only
  under conditions, section 3); a collector that spares busy children; a restart
  that hits the process it was decided for.
* yarn queue: slots are given back on every path; the limit holds; a caller
  leaves its directory to a running yarn only when it was cancelled; nothing of a
  cancelled job stays.
* node child: one answer per request, a timer only while an execution is open, an
  error code that tells the cause, a shutdown that ends and loses no answer when
  it says it is clean.
* servers and main: an exit with 0 has let every call end, and it comes.
* RunFunction: a success delivers everything, a failure changes nothing.
* conditions: `force` decides which of several conditions of a type counts.
* SDK: a resource built from a missing field is paused.
* log writer: what is logged does not depend on how the output arrives.
* dependencies: a spec means the same dependencies for every child.
* executions: the attempts of one call are not under way together; a function
  runs at most once per attempt.
* configuration: nothing is started with what `Validate` refuses.
* redaction: below a sensitive key nothing is logged, at any depth, and
  everything else is; secrets come below sensitive keys only (they do not, section 7).
* errors: what is added to a wrapped error is not seen by the others that share
  its fields, and every error found by `errors.As` tells what was put into it.
* observed errors: every failing condition is reported, and no other.
* gen-manifests: a child is made of its own function's template and files, of one run.
* shared libraries: the comparison of versions is an order a sort may be given
  (it is not the one of Kubernetes, section 7), and the latest is the greatest.

## 2. Modules

| module | models | composed with |
|---|---|---|
| `FunctionCalls` | abstract specification: what `ExecuteFunction` promises a caller | refined by `ProcessManager` |
| `ProcessManager` | the process manager with its goroutines, children, ports and directories | instance of `FunctionCalls` under a refinement mapping |
| `Executions` | the manager together with the executors of its children: attempts, and how often a function runs | extends `ProcessManager`; its steps are the manager's or leave it alone |
| `YarnQueue` | one install queue, its callers, workers and yarn processes | its callers hold `pm.lock`, as in `ProcessManager` |
| `NodeServer` | one child: event loop, executor, shutdown; with the HTTP client and the collector as its environment | |
| `Configuration` | what the environment and the flags make of the configuration, and when it is valid | extended by `ServerShutdown` |
| `ServerShutdown` | main from its start, the two server goroutines and the calls in flight | its fairness for calls is `CallReturns` of `ProcessManager` |
| `RunFunction` | one call from request to response | its step "execute" is a call of `FunctionCalls` |
| `Workspaces` | the workspace map and `ResolveDependencies` | |
| `GenManifests` | `gen-manifests`, and the directory the server makes of a composition | extends `Workspaces`, which resolves its dependencies |
| `LogWriter` | `Write`, `processBuffer`, `Flush` | with `ErrorContext` in `Logging` |
| `Redaction` | the copy of a request or a response that is logged | |
| `ErrorContext` | the wrapping and the getters of `pkg/errors` | instance in `Logging` |
| `Logging` | what is logged: the two modules above | extends `LogWriter` |
| `FieldRefs` | `FieldRef`, the classes that resolve it, `updateResource` | |
| `ObservedErrors` | `getErrorsFromObservedResources` and `buildResponse`, call after call | |
| `Versions` | the comparison of API versions and the choice of the latest | |
| `MC...` | the instance of a module for TLC, with its symmetry or the values of its constants; `MCData` puts seven independent modules into one run, of which a behaviour takes one | |
| `...Proofs` | theorems and proofs | |

### ProcessManager

`pc[r]` is where the goroutine `r` is in `ExecuteFunction` and what it calls;
an action is the code between two points another goroutine or a child can
observe. `Lookup` is the read-locked look-up, `Check` the health check (or the
decision to restart), `Lock`, `RecheckReuse`, `RecheckCreate`, `RecheckStale` and `Drop` the write lock and the look-up
repeated under it (the health check and the removal from the map are two steps: the child may answer
again in between), `WriteCode`, `WriteFails`, `PrepareFails`, `Spawn`, `Ready`, `WaitTimeout`,
`VerifyOK`, `VerifyFails` and `Discard` the creation, `Check2`, `Send`, `Answer`, `ExecFails` the
request, `RestartKill`, `RestartRemoveDir`, `RestartUnmap` the restart, and the `Gc...` actions the
collector. A member of `Procs` is a `ProcessInfo`, its child and the port it was
given; it can be taken again once nothing refers to it. `life` is the child's:
`hung` stands for a child that does not answer (it can recover). `code[h]`
says whether the code file is in the directory of spec `h`, `loaded[p]` whether
the child has imported it (`Import`, at its first request). `PortReuse` lets the kernel hand out a port an old
entry still names. `pm.lock`'s readers are one step, because nothing happens
while the read side is held.

`ProcessState` is always nil in the code, as nobody calls `Wait`, so `Healthy` is
"answers on the port". A request's context may be done at any time: the request to
the child and the wait for readiness use it, and the model lets either of them end
without an answer at any time. A health check has 5 s of its own, and is what the child
is at that moment.

### Executions

`work[p][r]` is the last request of call `r` at child `p`: waiting for the event
loop, executing, or settled with nobody having read the answer. The manager sees
none of it. `Start` imports the module and calls the function, whether the client
still waits or not; `TimeOut` is the executor's own timeout, after which the
function goes on in `late[p]`. `clientFirst` says which of the two timeouts is the
shorter: by default the client's (5 s to 25 s), but `nodeRequestTimeout` can be
set to more. `runs[r]` counts the starts of the current call's function.

### YarnQueue

`caller[j]`, `worker[j]` are the two goroutines of a job, `semaphore` the number of
elements in the channel, `cancelled[j]` the job's context. `InstallDependencies`
needs that no other caller waits, because callers hold `pm.lock`. A member
of `Jobs` is used again once caller and worker have forgotten it.

### NodeServer

An action of the child is one callback and needs the event loop. `Tick` is one
second and is possible only if no timer is overdue on a free loop. User code may
occupy the loop (`Block`), and a signal may come before the server listens. In
the sources an execution has 25 s, the forced exit and the forced close 5 s each, the delay
before the exit 1 s, and the Go client waits 5 s (the default of `nodeRequestTimeout`). The
constants of the run keep what is greater than, equal to and less than what.
`UserTexts` are words of the categories that may occur in a user error's message.
`Unreadable` is what user code can throw instead of an error: the executor reads
`.message` of whatever it caught, so `null` or `undefined` makes it throw another error.

### Configuration and ServerShutdown

`LoadConfig` reads any environment and validates it, `ParseFlags` takes the result
as the defaults of the flags, `Validate` is main's second validation, and
`NewProcessManager` may fail. What concerns TLS is kept apart, with
`XFUNCJS_INSECURE`, which envconfig reads like any other field; addresses,
durations and sizes are one setting, valid or not. `main`, `httpd`, `grpcd` are
the goroutines, with the order of main's stops. The two values named
`ErrServerClosed` are kept apart as they are in the code. A signal may come at any
moment: before `signal.Notify` it ends the process (`EarlySignal`), and it may
come before a `Start` has set the field that `Stop` reads.

### RunFunction

A value is represented by who wrote it: an earlier function of the pipeline or
this one. `rsp` is the response, `dxr` and `desired` the resource bundle;
`rsp.details` and `dxr.details` are one map, as in the SDK, when the request's map is not
nil (`Aliased`). The loops over resources (in any order, Go's map iteration), over events and
over conditions are one step per element, because each can fail.

### Workspaces and GenManifests

`Workspaces` has the workspace map, read when the first child is created, and what
each child's `package.json` says in the end. `GenManifests` comes before and after
it: a run of the tool removes `manifests/` and then writes a composition for one
function after the other. Its template is the function's `composition.yaml`, the
`composition.default.yaml` of the directory the tool is run in, or the one that comes with the tool; what
it leaves open is taken from the files of the function's directory or, part for
part, those of the working directory. The nearest file is taken even if it is empty or
cannot be read, and the placeholder then stays. The tool may skip a function or
exit at any moment. `CreateChild` is a call with any composition that is there,
at any moment: `Create` of `Workspaces`, and the lock and the tsconfig written to
the child's directory. A text is represented by whose file it is and as of which run.

### LogWriter, ErrorContext, Redaction

What becomes of what is logged, the first two together in `Logging`. `LogWriter` has a stream of symbols, some of which
end lines, and the partial line that waits. `Redaction` has trees of maps
and arrays whose keys are the two names the code knows, a fragment it looks for,
the name protojson gives the field of connection details, or another key. In `ErrorContext` an error is never changed, as in the code, and refers to a
map of fields that several may share; `fmt.Errorf` with `%w` may come in between.

### FieldRefs, ObservedErrors, Versions

The TypeScript libraries. `FieldRefs` has trees of objects and arrays with leaves
that are values, nulls or references. `ObservedErrors` has one reconciliation
after the other, each given any failing conditions and any kind of resource,
and keeps `status.errors`, which the composite carries to the next one.
`Versions` has an XRD's list of versions that its author adds to.

The code is recursive on trees. The trees of `FieldRefs` and `Redaction` are built in
levels (`Level`, `Nested`): a node of a level has nodes of the level below it, at
most as many as `Widths` or `Entries` says for that level, innermost first. An
operator such as `Process`, `Verdict` or `Redact` is the body of one call, given `of`, the
results of the calls it makes; the function that applies it from level to level is
the recursion.

## 3. Runs

Distinct states are those of the run as configured; a run takes from a second to
about three minutes.

| run | question | bounds | states |
|---|---|---|---|
| `pm_core` | locks, handles and lives of processes; at most one child per spec; attempts and executions; refinement of `FunctionCalls` | 2 requests, 1 spec, 4 processes, 2 attempts, no hang | 739,313 |
| `pm_live` | every call returns, every round ends, a restart takes out what it killed; which children are lost, whose answers a call gets, whose directory is there | 2 requests for 1 spec, or 1 request over 2 specs with ports handed out again; 2 processes, 1 attempt, 1 hang | 351,325 |
| `pm_directory` | does a live child keep its directory with two requests? (no) | 2 requests, 1 spec, 3 processes | |
| `pm_orphan` | does the manager know every child that runs? (no) | 2 requests, 1 spec, 2 processes, 1 hang | |
| `pm_port` | is a call answered by its own code? (no) | 1 request, 2 specs, 2 processes, ports handed out again | |
| `yarn` | slots, the limit, directories; cancelled calls and workers end, the queue drains | 3 jobs, 2 slots | 43,211 |
| `node` | one answer, timers, codes, clean exit; requests are answered, shutdowns end | 2 requests, times 4, 2, 2, 1, 2 | 174,630 |
| `shut` | nothing starts with an invalid configuration, an exit with 0 has drained, the process ends | 3 calls, any environment and flags | 9,315 |
| `shut_cut` | is a shutdown on a signal graceful? (no) | 2 calls | |
| `rf` | what a response holds, after a success and after a failure, and which condition decides | 2 names, 1 key, 3 condition types, 1 event, 2 conditions | 3,816,799 |
| `data` | which resources are paused, what is resolved; the report of errors; redaction at any depth; order and choice of versions; independence of the cuts; what an error tells; equal resolution for all children; whose files a child gets | trees of 3 levels with 2, 2 and 1 entries, innermost first; 2 resources with 2 conditions, 2 calls; payloads of 3 levels with 1, 2 and 1 entries; 4 versions with numbers 1 and 2; 5 symbols, writes of 3, 2 flushes, both streams; 4 errors; 4 packages, 2 creations; 2 functions, 7 kinds of directories, 2 runs of the tool, 1 child | 368,876 |
| `secrets` | are connection details hidden? (no) | as `data` | |

Why the bounds are enough to be of interest. The races of the process manager
need two goroutines that hold the same handle and a successor: two requests with
one retry, four processes so that two dead ones can still be named while a third
and fourth are born. Two specs matter only when an entry could name a process of
another one: `pm_live` has them, with a request that calls again and again. Liveness is checked without a retry and with two
processes, one of which can hang: a retry repeats the same steps `MaxRetries`
times, and what could keep a call from returning, a lock, is in each of them. A hang is bounded by `MaxHangs` because a
recovering child can hang for ever. In the queue two slots and three jobs let the
queue be full of abandoned jobs while a live one waits. In `NodeServer` one
request blocks the loop of the other. In `RunFunction` each value of a part
occurs with each value of every other, a result has a part that is taken over
before and one after a broken one, and two conditions have the same type or not
and each is forced or not. The trees of `FieldRefs` hold
each kind of node in each kind of node, those of `Redaction` each kind below each
key and through an array. The seven
directories of `data` have each file there, missing and of no use, with and without a
template that leaves it open, for the function and for the working directory. Four errors are enough for two that are made of a third and
one that is made of one of them, with `fmt.Errorf` at any place. Three versions
are compared by transitivity, and a fourth replaces the latest or not. In
`data` the tool runs again with other files while compositions of an earlier run can
still be used, so a child mixed of two runs would be seen; since children do not
influence each other's sources (`SameDependencies` covers the resolution), a
behaviour with generated compositions ends with its first child.

`CHECK_DEADLOCK FALSE` is set where the system may really stop: after the exit
of a process (`node`, `shut`, `shut_cut`), after an error thrown in a user's function, its
last call, the one payload, the last version, the end of an output, the last error or the last
creation (`data`, `secrets`), and in `yarn`, where clients may stop calling while the last
install, which nobody cancels, goes on; what must not stop there are the three
liveness properties. All other runs check for deadlock.

Some promises hold under conditions only, and a run shows what happens without them.
Every child that runs is known to the manager (`NoOrphan`) as long as none hangs: `pm_orphan` loses one, and
`LostByHang`, without any condition, says that each loss takes a hang of its own. An answer comes
from the code of the call's own spec (`OwnInstance`) as long as no port is handed out
again: `pm_port` gets a wrong answer, and `OwnChildAnswers`, without any condition, says
that only a call whose own child is dead can get one. The directory of a child
that has yet to import its module is there (`OwnDirectory`) with one request at a time
(`DirectoryOfOne`, whatever hangs and whatever ports are handed out) and not with two (`pm_directory`).
`pm_core` has no hang and no port twice: `OneServerPerSpec` needs the one,
`OneRequestPerChild`, the attempts and the refinement the other, because a request to a dead child whose
port is taken is a request to another spec's child. `OverlapIsDoomed` speaks
of the default order of the two timeouts (`clientFirst`); with the other order a
function that was timed out goes on in a child that keeps serving. These are the
conditions under which the design works.

## 4. Fairness

* `ProcessManager`: strong fairness of each request's next step and of a
  collection round. Go's mutexes hand over to a waiter that has starved (1 ms
  for `Mutex`; an `RWMutex` queues writers and lets waiting readers in first), so
  an acquisition that is possible again and again happens. HTTP exchanges and the
  readiness wait have timeouts. An install is assumed to end: nothing in the
  code bounds yarn, but the caller's context ends it (`CancelledCallReturns`).
  Nothing is assumed of callers, the ticker or children.
* `YarnQueue`: callers that can go on do; a worker that finds slots again and
  again gets one (a Go channel wakes its senders in order); a yarn whose context is
  done is killed. No install that is not cancelled is assumed to end.
* `NodeServer`: time passes; a callback that is due on a loop that is free again
  and again runs (strong fairness of `Callback`, and of `Tick`, which other steps can
  disable for a moment); the Go client keeps its timeout; the collector's `SIGKILL`
  follows its `SIGTERM`. User code need not return. That it gives the loop back
  is no fairness but the premise `LoopReturns` of the two liveness properties:
  without it they are false, because the execution timeout runs on the loop it
  is to protect.
* `ServerShutdown`: runnable goroutines run and calls end. The latter is
  `CallReturns`, checked in `pm_live`.

## 5. What is proved

Every invariant and every action property of the passing runs, and the
refinement of `FunctionCalls`, for every value of the constants that satisfies the
modules' assumptions. The constants that bound a run (`MaxCalls`, `Widths`, `MaxOutput`, ...)
are among them: what is proved for any bound holds of every behaviour, because a
behaviour of any length fits into some bound. What remains is liveness (section 6).

`ProcessManagerProofs`. Type correctness (`TypeCorrect`) needs two facts that types do not tell
(`SpecsKnown`). `Owners` adds `Locks` (the program counters tell exactly who holds
which lock) and `Pointers` (a goroutine's process belongs to its spec, an entry to its hash, a creator's process is installed); it is
inductive by itself and gives `LocksInOrder` and `CollectorSparesBusy`. `IndInv` (`IndInvInvariant`) adds `Lifecycle`: a process is never started twice, and until it has
answered only its creator knows it, because until then nobody else can have its
port. It needs no assumption either, and gives `CreationIsPrivate`,
`RestartKeepsSuccessor` and `OnlyOwnChildAnswers`: while the child of a call is alive no
other one is bound to its port, whatever is handed out again, so another spec's code
answers only where the own child is dead. With `~PortReuse` a port is one process
(`OwnPorts`), and `RequestsExcludeEachOther` and `ManagerImplementsCalls` follow, which
maps each action of the manager to a step of `FunctionCalls` or to a stutter.
Each is one lemma for the steps of a request and one for the collector and the children.
That children are lost by hangs only is a matter of counting: those that hang, and those
that answer and are not the installed one of their spec or about to be dropped (`Strayed`), are never more
than there were hangs (`StrayInv`), because a child enters that set by a hang and in
no other way. It gives `ChildrenAreLostByHangs`, for any `MaxHangs`, and for
`MaxHangs = 0`, where the set is empty, `OneServerForSpec`, for any number of
requests. For one request, `DirectoryKept`: while the call holds a process, no other one is
installed for its spec (`NoSuccessorYet`), so the directory it removes is not that of a
successor (`CodeInPlace`). It needs neither condition.

With the executors in view (`Executions`), every step is one of the manager's or leaves it alone
(`ManagerStep`), so `IndInv` carries over. `ExecInv` adds that a request is under
way only at the process its call points at, until that is killed (`WorkInv`), how
the number of runs compares with the number of attempts at each program counter
(`CallsInv`), and that nothing executes late if the client's timeout is the shorter
one (`LateInv`). From it and from `Locks`: `AttemptsStayApart`, `RunsAreBounded`,
`OnlyDoomedOverlap`, without port reuse.

`YarnQueueProofs`. `IndInv` says that the semaphore counts exactly the workers
between acquire and release, that a result in the channel is a worker's last act,
and who may be behind whom; the counting uses the library's theorems on
cardinality. From it follow `InstallsWithinLimit`, `CallerWaitsForInstall` and
`OthersAreAbandoned`.

`NodeServerProofs`. `IndInv` is the types, `TimerPending` (a timer exactly while an
execution is open and unanswered), `Progress` (how far a request and a shutdown
have got) and `CutByForce`. It gives `CodesTell`, for any texts in user errors and
whatever is thrown instead of one, and, while `ForceExit <= CloseTimeout`, `CleanExit`: the only way to an exit with 0 is
the delay that follows the close, and the timeout of the close, which would cut connections,
is never due before the forced exit with 1.

`ServerShutdownProofs`. `StartsValid` from `StartInv`: until the second validation
has passed, no server goroutine does anything, and
where the validation was passed without files (`insecure`), the gRPC server fails before it takes a call. `CleanExit` from `DrainInv`: after `GracefulStop` was
called no call begins, main returns only when none is left, and only the end of
the process cuts one off. It speaks of an exit after a drain: a signal that
comes before `Start` has set the server finds nothing to drain.

`RunFunctionProofs`. `MergeInv`: until the context and the desired state are
set, which nothing can follow but success, the response's object, resources and
context are the request's, and a fatal response is on its way out. It is
inductive and gives `FailuresKeepState`. `DeliverInv` says for each stage how much
of the function's result has been merged (`ResourcesMerged`, `EventsMerged`, `ConditionsLawful`),
for any order of the resources; at the last stage that is `Delivered`. `ForceInv`
says which condition counts after the first n have been merged: of a type, the last
one that was forced, or the first if none was. At the end it gives `ForceWins`.

`SourcesProofs`. Every manifest was resolved with the present map, because the
map changes at the first creation only (`IInv`); `ResolutionStays` and `VersionsStay` follow.
They speak of any creations, of dependencies that came from `gen-manifests` or not
(`ResolutionStaysForCompositions` is the same where the tool runs too). A composition
in `manifests/`, and the record of what a child was made of, say of which function and
of which run of the tool each part is (`Made`). `SourcesInv` says that of all of them, whatever runs
have come between, and gives `SourcesReach`.

`LoggingProofs`. An error is linked to those it wraps. `ErrorInv` says that each one
tells, of its code, its resource and every field, what was said last on the way
down its links; that the walk is defined is `WayExists`, because a link leads to
an earlier error. It gives `ContextStays`. In `WriterInv` the buffer is what the
stream received after its last line end or flush, and each line that is not empty is
logged once, at the place that the number of such lines before it gives it. That
a write keeps it is proved along the scan of the buffer, symbol by symbol;
`LinesAreLogged` follows.

`AlgorithmsProofs` is about functions on data. The comparison of versions is that of
three numbers, the second of which is a rank of the stability (`Lexicographic`); hence it
changes its sign with its arguments (`SignChanges`) and is transitive (`Transitive`,
`SortIsDefined`). So a list of any length has a sorting permutation, the chosen version is
one that no other exceeds (`ChoiceInv`), and `LatestFollows`. The errors
stored after a call that failed are those of what it observed (`ReportInv`); the number of
times one occurs in a flattened list, compared with the conditions that fail, gives
`ReportComplete`. For
trees, `GoesUp` is what a recursion from level to level satisfies and
`RecursionExists` that there is such a function. What it computes is proved by induction over
the levels: resolving keeps the shape of a tree and replaces exactly the references
(`ProcessResolves`), the walk that looks for a fallback finds it wherever there are only keys of
objects above it (`Judged`), and `ResourceInv` with `PausedFollows` and `ResolvedFollows`
puts the two together in the order in which `updateResource` calls them. A payload
is taken as the set of its paths: `RedactionKeeps` says that a copy has those that are
not below a sensitive key, each with its own leaf unless it ends at such a key (`CopyInv`,
`RedactionFollowsKeys`).

Some results state properties that no run checks by themselves, because a run of
the module already checks an inductive invariant that implies them:
`HalfStartedHidden`, `InstallsBounded`, `NoInstallBehindCaller`,
`OnlyAbandonedInTheWay`, `DrainInv`, `MergeInv` and `UserVersionsStay` are there for the proofs and
the reader.

## 6. What is only model-checked

Liveness: `CallReturns`, `RoundEnds`, `CancelledCallReturns`, `CancelledWorkerEnds`, `JobGetsSlot`,
`EveryRequestAnswered` and both `ShutdownEnds`. They rest on fairness, and so on ENABLED, which
is beyond the prover.

The library's induction theorems take an operator as a parameter, which no installed
backend can instantiate. The proofs above do without: a set of numbers has a least
member (`LeastNumber`, from `WFMin`, which has no such parameter), so a recursive
function that is wrong somewhere is wrong first somewhere, where one step of its
definition leads to a contradiction. That is why no module declares a RECURSIVE operator.

## 7. Findings

Five runs end in a violation of what the repository says; `PROJECT.json` quotes the lines.

* `pm_directory`: a late `restartProcess` of a dead process removes the directory
  its successor, of the same spec, has just been given (`health.go:81`). The successor is
  healthy and stays installed, and every call is answered with an import error.
* `pm_orphan`: a process that does not answer the health check is taken out of the map without
  being killed (`process.go:104` and `:296`). A child that was only busy goes on, and the collector, which finds children
  through the map, never ends it.
* `pm_port`: `ProcessState` is never set, so a dead child's entry is healthy when its port
  answers for another spec (`health.go:36`), and `getAvailablePort` gives ports back before they are bound. A call is
  then answered by another spec's code.
* `secrets`: payloads are marshalled with proto names (`crossplaneio.go:46`), and `connection_details` is
  neither the "connectiondetails" that is compared with nor a key with a fragment: connection details are logged
  (the fragments of `looksSensitiveKey` still apply below it).
* `shut_cut`: `pkg/http` declares an `ErrServerClosed` of its own, so the
  comparison at `cmd/server/main.go:134` never succeeds: stopping the health check server
  makes its goroutine exit the process with 1 while calls are in flight.

Other places where the code differs from what a comment or a name says. The modules do
what the code does; the properties above are stated so that they are true of it.

| where | what the code does |
|---|---|
| `execution.go:46` | "up to maxRetries times" is maxRetries + 1 |
| `client.go:159` | a child that exits early "to avoid long waits" (`server.ts:141`) is waited for until the deadline |
| `executor.ts:19` | the timeout "to prevent infinite loops" cannot fire while user code loops (`LoopReturns`) |
| `executor.ts:20` | 25 s is "less than the 30s in Go", whose client waits 5 s by default |
| `executor.ts:127` | the category of an error is read from a message that ends in the user's own text (`UserTexts`) |
| `executor.ts:45`, `:87` | an import or a function that fails with `null` or `undefined` is answered with 500, not with 400 or 422: reading its `.message` throws in the handler of the error (`Unreadable`) |
| `garbage.go:65` | "kill the process if it doesn't exit gracefully": SIGKILL follows SIGTERM at once |
| `server.ts:167` | the forced close never comes before the forced exit, which is set first and as long |
| `index.ts:39` | a signal during start-up closes nothing; main goes on to listen, and the exit is with 0 |
| `cmd/server/main.go:144` | a signal before `Notify` ends the process without any of the stops (`EarlySignal`) |
| `config.go:24` | `XFUNCJS_INSECURE` sets `Insecure`, whose comment says "Disable TLS", as `main.go:85` logs; but only the flag turns `TLSEnabled` off. The variable alone leaves TLS on and both validations without a look at its files; the gRPC server then serves TLS, or fails where there are none (`GrpcCreate`) |
| `config.go:64` | the environment is validated before the flags are read, so no flag, `--insecure` included, makes up for an environment that is invalid |
| `README.md:13` | "based on the hash of the inline code": the hash is of the whole spec, dependencies and parameters included, so equal code can run in several children |
| `executor.ts:20` and `execution.go:82` | when the client waits longer than the executor, the function that was answered with a timeout goes on in a child that keeps serving (`late`); in the default order the child is killed, and only then may two functions have executed in it together (`OverlapIsDoomed`) |
| `pkg/grpc/server.go:79` | `Stop` before `Start` has set the server does nothing |
| `localresource.go:158` | connection details are written into a map the response shares, so a fatal response carries those of the function that failed (`Aliased`; that is why `FatalKeepsState` leaves them out) |
| `localresource.go:64` | the namespace is forwarded although the comment says it cannot be (`SetRequirements`) |
| `responseUtils.ts:46` | the references of a model are resolved before they are looked for, so a fallback does not pause it |
| `FieldRef.ts:191` | a reference that is an element of an array is not noticed (`UnderKeys` leaves arrays out) |
| `responseUtils.ts:149` | `status.errors` is set when something fails and never cleared; the composite carries it to the calls after (`ReportIsWhole` speaks of failures) |
| `responseUtils.ts:125` | the manifest of an `Object` that was never synced is not there, and reading it makes `buildResponse` throw |
| `version-utils.ts:33` | the major number counts before the stability: v2beta1 is later than v1, against Kubernetes' order |
| `errors.go` | a contextual error found through `fmt.Errorf` is copied without the text of what was around it |
| `gen-manifests/index.ts:443` | a function's own `composition.yaml` counts as a default template, so its `compositeTypeRef` is taken from the XRD although the comment keeps that to default ones |
| `gen-manifests/index.ts:609`, `:651` | a nearest `yarn.lock` or `tsconfig.json` that is empty or cannot be read leaves the placeholder, although the working directory has a good one (`Usable`) |
| `gen-manifests/index.ts`, `yarn.go` | a placeholder stays where there is nothing to put: `__YARN_LOCK__` and `__TSCONFIG__` are written to a child's disk as text, `__DEPENDENCIES__` makes `parseInput` fail |
| `gen-manifests/index.ts` | a function's `package.json` without dependencies hides the root's; manifests of the run before are removed first, so a failure leaves some compositions only |
| `logwriter.go:159` | `Flush` logs a partial line of stderr at level info, while whole lines of stderr are errors |

## 8. What is not modelled

* the hash of a spec: taken as injective, distinct members of `Hashes`;
* loggers and the interceptor with its fields: output only (`Fatal`, which exits, is
  in `ServerShutdown`). `extractResourceInfoFromProto` mixes fields of the input and of
  the observed composite; only log lines depend on it;
* building and parsing of JSON bodies, `copyDir`, `.yarnrc.yml` and `.yarn`: sequential input
  and output; their failures are steps of `ProcessManager`;
* `/healthz` of a child: the manager does not use it;
* the SDK's accessors of `Model` and the look-ups of claims and secrets: pure functions
  without state;
* `gen-models`, `xrd2crd` and the bundling of a function's code: they turn
  files into files; that bundling fails is a step of `GenManifests`;
* `pkg/resource` and `pkg/node/resource.go`: nothing uses them;
* generated gRPC code, charts, tests.

## 9. Next

1. `RunFunction` composed with `FunctionCalls`: several calls, one response each.
2. `xrd2crd` and `Model`'s accessors as operators, checked against a schema's meaning.
3. `Executions` with a child that shuts down by itself (`NodeServer`) while the
   manager still sends to it.
