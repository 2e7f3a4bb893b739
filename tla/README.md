# Formal models of xk6-otel-gen

xk6-otel-gen is a k6 extension that generates OpenTelemetry traces, metrics,
logs and profiles for a simulated system described by a topology file. This
directory holds TLA+ modules for the parts of it whose correctness depends on
concurrency, on the order of calls, or on bookkeeping over many steps, the TLC
configurations that check them on small instances, and TLAPS proofs of the
properties that matter most.

## 1. The system

| part | state it keeps | operations | what makes it correct |
|---|---|---|---|
| `topology` (parse, validate, lint) | none after parsing; a `Schema` that is read-only from then on | `Parse`, `Validate`, `ApplyFaults` | accepts only acyclic call graphs with resolvable references |
| `journey` plan and engine (`plan.go`, `engine.go`) | one immutable `Plan` tree per journey, fault intensities (atomics, `sync.Map`), one random source behind a mutex | `NewEngine`, `BuildPlan`, `PickJourney`, `SetFaultIntensity` | a plan is a finite tree; draws are safe from parallel branches |
| `journey` executor (`executor.go`, `recovery.go`, `messaging.go`, `fault.go`) | the call stack of `executeNodeAt`, one goroutine per branch of a parallel group, simulated time | `Execute` | every span begun is finished; spans nest and are contained in time; the outcome is independent of the interleaving; retries, timeouts, recovery and cascades report what happened |
| `synth` | tracers, loggers and instruments cached behind mutexes, `ObservableState` accumulators updated by compare-and-swap | `BeginSpan` and its finish function, `RecordMetric`, `EmitLog`, `UpdateState` | a span is finished once, active-request counters balance, no accumulator update is lost |
| `exporter` | a process-wide pipeline (`GetShared`), one provider per service, counters | `New`, `TracerProviderForService`, `ForceFlush`, `Shutdown`, `Stats` | telemetry accepted before the end of the run is delivered, exporters are closed once |
| `k6output` | a bounded queue of samples, one flush goroutine, drop counter | `Start`, `AddMetricSamples`, `Stop` | no sample is lost without being counted, order is kept, `Stop` ends and delivers |
| `k6otelgen` | process-wide `RootModule` (schema, configuration, both set once), one instance per VU | `configure`, `load`, `runJourney`, `flush`, `stats` | one schema and one pipeline for all VUs, statistics reported once |
| `cmd`, `testutil`, `*/integration` | none | one-shot programs, test inputs, test containers | not modelled |

How the parts meet: k6 creates one `k6otelgen` instance per VU. A VU's `runJourney`
calls the engine, which calls the synthesizer for every span; the synthesizer
writes to providers owned by the exporter pipeline. k6 also feeds its own metric
samples to `k6output`, from one goroutine, and calls its `Stop` when the test is
over; `Stop` is the only caller of the pipeline's `Shutdown`.

The hard behaviours: branches of a journey running in parallel goroutines while
they share a random source and a context that can be canceled; failures that pass
through retries, timeouts, fallbacks, default responses and cascades while time is
added up by hand; the bounded queue between k6 and the flush goroutine, with
eviction of the oldest sample in two separate channel operations; the shutdown of
queue, flush goroutine, meter provider and pipeline; process-wide `sync.Once`
state shared by all VUs. `PROJECT.json` lists each hazard at its line.

## 2. Modules

| module | models |
|---|---|
| `JourneyExec` | one run of a plan by `Engine.Execute` |
| `JourneyBigStep` | the same engine as the sequential recursive function it is written as; the reference the interleaved executions are compared with |
| `MCJourney` | the plan on which TLC checks both |
| `SpanAttributes` | the kind, namespace, side, attributes and status the synthesizer gives an operation |
| `SynthSpans` | parallel branches that fold faults and open, finish and report spans with one engine and synthesizer, while intensities change |
| `MCSpans` | a topology with each protocol and kind of service, for TLC |
| `ObservableState` | accumulators, their compare-and-swap loops and the collection callback |
| `MCObservable` | two accumulators and three metrics for it |
| `AtomicAdds` | what an accumulator promises: an add takes effect at one moment of its call |
| `K6Module` | the process-wide `RootModule` and the VUs' instances, with the k6 output as one more user of the pipeline |
| `MCModule` | three kinds of test script for it |
| `K6Output` | queue, flush goroutine, `Start` and `Stop` of the k6 output |
| `ExportPipeline` | construction, providers per service, `ForceFlush`, `Shutdown` and counters of the exporter pipeline |
| `MCPipeline` | bounds by order of calls, for TLC |
| `Topology` | schemas, their operations, calls, faults and the rules of `Validate` |
| `TopologyParse` | `Parse` from the decoded document on, and `Lint` |
| `TopologyMarshal` | `MarshalYAML` and `Equal` |
| `JourneyPlan` | `buildPlan` of the journey engine |
| `TopologyLoad` | one document through `Lint`, `Parse`, `NewEngine`, `MarshalYAML` and `Parse` again, and the reference definitions it is compared with |
| `MCTopology` | the documents for it |
| `KahnSort` | the loop of `validateDAG`, step by step |
| `JourneyExecProofs`, `SynthSpansProofs`, `ObservableStateProofs`, `K6ModuleProofs`, `K6OutputProofs`, `ExportPipelineProofs`, `KahnSortProofs` | the theorems about the modules they are named after |
| `TopologyProofs` | those about `TopologyLoad`, and the lemmas about the functions of the modules it extends |

Compositions: `SynthSpans` joins fault folding (`fault.go`), what the executor reports of an
attempt (`finishAndEmitAt`), and the synthesizer; `K6Module` joins the VUs, the output and the
pipeline's `GetShared`; `TopologyLoad` joins parser, linter, validator, marshaller and plan
builder; `KahnSort` details one function of `Topology`; `ObservableState` implements
`AtomicAdds`.

### JourneyExec

`executeNodeAt` is recursive and a parallel group runs one goroutine per branch.
The model gives every node of the plan one frame, the local variables of the call
that runs the node: `pc`, the arguments `start`, `ctx`, `up`, and `attempt`,
`total`, `elapsed`, `idx`, `die`, `out`. A node is never run by two calls at once,
because its only caller waits for it. A step belongs to one frame, and the
interleaving of the frames of parallel branches is that of their goroutines.

| code | action |
|---|---|
| `executeNodeAt` of the next child, step, fallback or skipped child | `Call` |
| `executeParallelGroupAt`: `go` per branch, `wg.Wait`, `aggregateParallelOutcomes` | `StartGroup`, `JoinGroup` |
| `executeSequentialVirtualAt` | `StartSequence`, `StepReturned`, `EndSequence` |
| `executeCascadeAt` | `Skip` |
| `executeSingleAttempt`: draws, publish span, `BeginSpan` | `BeginAttempt` |
| its checks before any child runs (crash, canceled, timeout, disconnected) | `AbortAttempt`, `StartChildren` |
| its loop over children and its end | `Call`, `ChildReturned`, `FinishAttempt` |
| `executeAttemptSequence` | `AttemptSucceeded`, `Retry`, `GiveUp` |
| `applyRecoveryAt`, `executeFallbackAt` | `Call`, `FallbackReturned`, `Exhaust` |
| `shouldCascadeChildren`, `executeChildrenAt` | `StartCascade`, `Call`, `SkippedReturned`, `Return` |
| the caller of `Execute` cancels its context | `Cancel` |

Data is abstracted to what the properties tell apart. What `foldFaults`,
`sampleEdgeLatency` and the error-rate draw yield for one attempt is a record
(`Die`) drawn from the constant `Dice[n]`, so every order in which parallel branches
draw from the shared random source is covered. Latencies are small numbers.
`grpc.deadline_exceeded` counts as `timeout`, and the error types an error rate
yields as `fault`: both pairs take the same paths. Metrics, logs and profiles sent
when a span finishes do not influence the engine and are left out.

Assumptions on the constants (`PlanShape`, `PlanIsTree`, `PlanPolicies`, `PlanNumbers`) say what `buildPlan`
produces: a finite tree, given by `Depth`, in which only operations have recovery policies and a fallback has no
children, only the root stands for the steps of a journey, and a group has a branch. `DelaysDoNotWrap` excludes
retry counts for which the doubling delay overflows.

### JourneyBigStep

`RunNode` and the operators below it evaluate a plan in one go, branches one after
the other, replaying the draws recorded in the spans of a finished execution. The
property `InterleavingInvisible` compares outcome and all spans with the finished
execution of `JourneyExec`. The operators are recursive, so the module is used by TLC
only.

### SpanAttributes and SynthSpans

`SpanAttributes` translates the pure part of `synth/attributes.go`: an input is an operation and the
edge that is followed; `PolicyFor`, `BuildStaticSet`, `CacheKeyFor`, `StatusFor` and
`DynamicOutcomeAttrs` are functions of it. An attribute set is a set of pairs, and a value computed
from a name alone is that name. A name is a sequence of `Parts`, and `OperationID` and `EdgeID` join
names with the parts `.`, `->` and `/` as the code joins strings: two inputs may have one key.

A worker of `SynthSpans` is a goroutine of one VU: each VU has an engine and a synthesizer of its own
(`k6otelgen/instance.go:254`), shared by the parallel branches of its journey.

| code | action |
|---|---|
| `Engine.SetFaultIntensity`, `SetFaultTargetIntensity`, the clock of schedules | `SetFaultIntensity`, `SetFaultTargetIntensity`, `Tick` |
| `executeSingleAttempt` and `executeCascadeAt` begin | `BeginAttempt`, `BeginCascade` |
| one round of the loops of `foldFaults` | `FoldFault` |
| `staticAttrs`: look up, build and store; `BeginSpan` | `LookupAttrs`, `PutAttrs`, `StartSpan` |
| `emitMessagingProducerSpan` | `StartSpan` with `publishing`, `FinishProducer` |
| the outcome, and the profile chosen from it | `DecideOutcome` |
| the finish function, also called again | `FinishSpan` |
| `RecordMetric`, `EmitLog` | `Report` |
| declared metrics; state updates and profile | `RecordCustom`, `UpdateState`, `ReturnOutcome` |

An intensity is read once per fault, between other goroutines' steps. The engine allows that
(`journey/engine.go:166`: "Safe for concurrent use"). A second call of a finish function is what
`TestFinishSpanFunc_DoubleCall_NoOp` (`synth/synthesizer_test.go:302`) is about. `hit` and `muted` are
history. Probabilities are multiples of 1/`Whole`. Which attempt follows which is left to `JourneyExec`:
a worker goes on with any operation of the plan. Left out are `network.peer.address`, the caches of
providers and tracers, the cache of declared instruments, log bodies, and how profiles are encoded.

### ObservableState and AtomicAdds

`Add` is the look-up of a key's cell (`ValueFor`), and rounds of load and compare-and-swap. The callback
goes through the metrics in order; for each it reads the accumulator (`ReadAccumulator`), and then the one to
subtract, adds the baseline and applies `when_fault` (`Observe`). Deltas may be negative, since validation asks
for finite ones only (`topology/validate.go:444`). `lag`, `since` and `counted` are history. `AtomicAdds` has
one step per add. The refinement mapping takes a key without a cell for a total of 0, and an add for pending
until its swap succeeds. Values are integers: the rounding of floats is not modelled.

### K6Module

`load()` is split where another VU can come between: entering `schemaOnce`, the assignments of schema and
overlay inside it, waiting for it, `GetOrBuildPipeline`, the registration of the observable metrics, the
engine. `NewModuleInstance` reads the schema outside the once, as the code does. A topology is its path, a
configuration the set of sources it was merged from. `Scripts` says what kind of test runs: where
`load()` and `configure()` are called, which VUs come late, whether the output is used, and how much is
exported. `RunJourney` always takes the new snapshot of the counters; it pushes the difference unless the VU is
in its init context or its context is done. `answers`, `acks`, `reported` and `muted` (some difference
was not pushed) are history.

### K6Output

A sample is the number of its push. `AddMetricSamples` is split where the code has
separate channel operations (`Push`, `FindFull`, `EvictOldest`, second `Push` or
`Reject`), `flushLoop` where `select` chooses (`TakeSample`, `FlushOnTick`, `SeeDone`,
`FinishLoop`), `Stop` at each of its waits (`StopCancel`, `StopWait`,
`StopForceFlush`, `StopPipeline`). `StopWait` may give up at any time: the five seconds
of `flushStopTimeout` are not measured. `Collect` is a collection by the periodic
reader. The calls may come in any order; the history variables `orderly` (Stop came when Start and
every `AddMetricSamples` had returned, as k6 does it) and `overlapped` (two producers were inside a call)
let a property speak of k6's lifecycle only. `offered`, `pushed`, `evicted`, `rejected`, `timedOut` and
`flushError` are history, too. A batch is recorded in one step, because only `flushLoop` records and an
observer between two recordings sees a prefix that another step also offers.

### ExportPipeline

All spans and logs of the generator go to the providers made per service
(`TracerProviderForService`, `LoggerProviderForService`); each has a batch processor
of its own over the signal's one exporter. The default providers own the same exporters and
receive nothing but metrics. A record is accepted into a bounded queue and taken from it in
batches, in order, so a queue is three counters: `accepted`, `taken`, and `lost` of those
taken. `ForceFlush` is a snapshot, the default providers, and one wait per provider until
what was ahead of the call has been taken; `Shutdown` is a snapshot, three closings, and per
provider a stop and a wait. `flushing`, `todo`, `at`, `goal` are the locals of a
`ForceFlush`; `mark`, `covered` and `refused` are history. The SDK's processors and exporters are
external: a full queue drops the record, a processor exports at the latest on its timeout, a
closed exporter delivers nothing and returns an error or, for the signals in `Silent`, none.
A collection and an export are one step each. `New` goes through its stages and may fail at
each. `order` is drawn initially: `"k6"`, where `Shutdown` comes last, or `"any"`. The profile client is not
part of it: it has nothing to flush or close.

### Topology, TopologyParse, TopologyMarshal, JourneyPlan, TopologyLoad

These are functions, translated stage by stage: `buildSchema`, `resolveReferences` with its error paths,
defaults, every rule of `Validate`, `Lint`, `MarshalYAML`, `Equal`, `ApplyFaults` and `buildPlan`. Pointers are
places: an operation is the pair of its service and name, an edge the place where it is declared, so sharing and
identity are kept. An error is the rule it breaks, or the reason; its text is left out. The YAML decoder is
external, one of five outcomes with the document it fills; `RawSchema` says which documents those are. A name is
a sequence of short pieces where it is cut or joined (`service.operation`, fault targets), and a separator is a
piece that may stand inside a name as well. Trees of calls and of steps are flat tables of their nodes, keyed by
the way to the node, and lists whose order nothing depends on are sets, so that no traversal needs a recursion.
The two that the code does over a graph, `validateDAG` and `buildOperationNode`, are recursive functions. A map
of attributes or of a default response is a member of `Attributes`, `Nil` if it is not there; `Empty` is left
out when written (`omitempty`) and read back as `Nil`, and `Reread` says what becomes of the others. What the
code carries along without a condition on it is `rest`, a string. `TopologyLoad` sends one document of `Docs`
through the public functions, each in one step, since none of them keeps state.

### KahnSort

The loop of `validateDAG`: a counter per operation, the queue as a set because it is filled in map order,
and the removal of one edge per step. Parallel edges count one by one.

## 3. Runs

| run | instance | shows |
|---|---|---|
| `journey` | two steps: a group of two branches, one retried under a timeout and with a child reached by messaging, the other with a fallback; a chain of calls with a fallback of a fallback and a default response; cancellation at any moment | `CallDiscipline`, `SpansNest`, `TimesAddUp`, `FailuresExplained`, `InterleavingInvisible`, `Termination` |
| `spans` | two branches, six edges of every protocol and kind of service, two callees with the same dotted name, four faults, one scheduled; three attempts, changes of an intensity and ticks together | `CacheSound`, `ActiveExact`, `VerdictsAgree`, `IncidentsAgree`, `SilencedStaysSilent` |
| `spans_grpc_doc` | one branch | violation: a successful gRPC call whose span has the status Error |
| `observable_adds` | two goroutines, an accumulator that rises and one that goes up and down, two gauges and a counter, the callback at any time | `AddsAreAtomic` (refinement), `ReportsExplained`, `AddsMakeProgress` |
| `module` | three VUs, a valid and an invalid topology, three kinds of test | `LoadSafe`, `ConfigureTrue`, `SameAnswer`, `DeltasAddUp`, `LoadReturns` |
| `module_late_doc` | the same | violation of `EnginesHaveOverlay`: a VU initialised during the test builds an engine without the fault overlay, which panics |
| `output` | two producers, queue and batch of 2, calls of up to 2 samples, 5 samples, calls in any order | `DropsAccounted`, `SamplesInOrder`, `LoneProducerNeverRejected`, `StopServes`, `FlusherServes` |
| `output_stop_race` | one producer | violation: a push that had passed the context check is overtaken by the drain, and `Stop` leaves the sample behind |
| `pipeline` | both signals, one service, queue and batch of 2, both orders of calls | `ExportersClosedOnce`, `StatsExact`, `FlushServes`, `ShutdownServes`, `PipelineMoves` |
| `pipeline_shutdown_doc` | one signal | violation: records lost by `Shutdown` |
| `topology` | 4573 documents over three operations | `GraphsServed`, `LintAgrees`, `SchemaWhole`, `RoundTrip` |
| `kahn_sort` | every multigraph of five edges over three operations | `Counted`, `VerdictJustified`, `TopologicalOrder` |

The runs of `journey`, `spans`, `output` and `pipeline` also check the module's type invariant, and
`Counted` contains that of `KahnSort`; that of `ObservableState` is proved only; the functions of
`topology` have none, and that of `K6Module` (`Typed` of `K6ModuleProofs`) is proved only.

Several properties are conjunctions of named parts, each with a comment of its own in the module:

| property | parts |
|---|---|
| `SpansNest` | `NothingOutlivesJourney`, `OpenSpansNest` |
| `TimesAddUp` | `TimeMonotone`, `SpansContained`, `RetriesSeparated` |
| `FailuresExplained` | `SuccessExplained`, `SkipsInheritError`, `NoWorkAfterFailedStep` |
| `ConfigureTrue` | `ConfigureWins`, `AcksTrue` |
| `StopServes` | `StopDrains`, `StopDelivers` |
| `FlusherServes` | `PushedIsServed`, `FlusherEnds` |
| `FlushServes` | `FlushCovers`, `FlushedIsDelivered` |
| `ShutdownServes` | `MetricsSurviveShutdown`, `ShutdownStopsProviders` |
| `PipelineMoves` | `RecordsLeave`, `CallsReturn` |
| `GraphsServed` | `CyclesRejected`, `EngineBuilds`, `PlanComplete` |
| `SchemaWhole` | `NothingDropped`, `TargetsReadBack`, `PointersClosed` |
| `Counted` | `TypeOK`, `DegreesExact`, `VisitedOnce` |
| `VerdictJustified` | `RefusalJustified`, `RefusedIffCyclic` |

Why the bounds are enough. The plan of `journey` contains each construct of the engine at least once, each
combination that shares state (a group inside an attempt, a retry inside a branch, a fallback inside a branch, a
fallback with a fallback, a cascade below a retried call), and dice for every early exit. In `spans`, three
events are two overlapping attempts and a change between any two of their steps, or an attempt before and one
after a target is set to 0; each protocol, kind of service and kind of fault occurs, one fault in each way its
intensity is found. Two goroutines that add again and again lose every race of a compare-and-swap, also
repeatedly. With three VUs one can be inside `schemaOnce`, one wait for it and one be made meanwhile. In the
output, a queue and a batch of two fill, overflow and wrap within 5 samples, and two producers are enough for
one to take the room the other made. In the pipeline, two records fill the queue and make a full batch, one a
partial batch, and one provider is made, flushed or stopped while the other is busy. The documents of `topology`
are every graph of a kind, so self-calls, cycles of two and three operations, diamonds and cycles only over
fallbacks all occur; malformed documents have one or two defects; names have separators inside; each optional
key is left out, at its default, at another value and out of range, a map absent, empty, kept and changed by a
round trip. Five edges over three operations contain parallel edges and every cycle. `MaxSamples`, `MaxRecords`,
`MaxPoints`, `MaxTotal`, `MaxEvents` and the `exports` of a script are bounds of the models and not of the code.
`MaxTotal` bounds the value of an accumulator (an `Add` that would lead beyond it is not called) but not the
number of adds, so that no goroutine runs out of competitors.

Deadlock is checked for the journeys (a returned journey stutters by `Finished`). The other systems stop
for good: the output and the pipeline after `Stop` and `Shutdown`, the functions after their result, the
others at their bound.

Fairness. In `JourneyExec` each frame is weakly fair: its goroutine is runnable unless it waits for a callee or
in `wg.Wait`, and nobody has to cancel. In `K6Module` a VU inside `load()` is weakly fair: it waits for nothing
but `schemaOnce`; and so is a goroutine inside `Add` in `ObservableState`. That does not make one `Add` return,
since each of its swaps may fail because another succeeded: the loop is lock-free and not wait-free, and
`AddsMakeProgress` says that some `Add` or other returns. Nobody has to make a call. In `K6Output` the
goroutines inside a call are weakly fair, and so is each case of `flushLoop`'s `select` that stays ready, the
ticker's included; noticing the canceled context is strongly fair, because `select` chooses at random among its
ready cases and each return to it finds the context done. Nobody has to call `AddMetricSamples` or `Stop`, and
`Collect` is not fair. In `ExportPipeline` each processor exports in the end (its batch timeout), and the calls
of `ForceFlush` and `Shutdown` that are under way go on; no context has to expire, so both return without the
help of their timeouts. `SynthSpans`, `TopologyLoad` and `KahnSort` state no liveness.

## 4. Proofs

`K6OutputProofs` proves, for every number of producers and all sizes:
`TypeCorrect`; `DropsAccountedCorrect`, inductive together with the type invariant;
`LoneProducerCorrect`, from `RoomKept` (a lone producer between its eviction and its second
send still finds room: only it adds to the queue); `StopDrainsCorrect` and `StopDeliversCorrect`
(together `StopServesCorrect`) from `LifecycleAlways` (after an orderly Stop has begun every producer is idle, and a
finished flush loop has left queue and batch empty; what the final collection covered); and
`SamplesInOrderCorrect`, inductive once it also says that only pushed samples are evicted: each send appends
a number above all others, an eviction removes the one element that every recorded or taken sample precedes and
every queued one follows. The type invariant needs `Busy`, that a producer inside a call has a
sample left, to keep `left` a natural number.

`JourneyExecProofs` proves, for every plan that satisfies the assumptions:
`TypeCorrect`, where `TypeOK` alone is not inductive: finishing a span updates the
last element of a sequence, so `HasSpan` says that the sequence of a node that is inside an
attempt is not empty; and `CallDisciplineCorrect`, by the inductive invariant `Linked` (a
frame that is not idle is the one its caller's loop or group stands at) and
`RootFree` (the root is never idle), using that a node has one caller.

The second part of `JourneyExecProofs` proves, for every plan, die, interleaving and moment of cancellation,
what the spans of a journey tell. Each of the three properties speaks of finished calls, whose frames are gone,
so each needs an invariant that carries what a frame knows to its caller:

- `SpansNestCorrect`, from `Nested`: the open spans are the last ones of the frames inside an attempt
  (`OpenSpans`), a running frame's context names an open span (`OpenContexts`), and a frame inside an attempt has
  that context as its span's parent (`OwnParents`). `OpenContexts` is kept because a frame under a span is below a
  callee its owner waits for, by `Linked` and the plan being a tree, so the owner does not end the span.
- `TimesAddUpCorrect`, from `Accounted`. It joins `Given` (a running callee still has the start and the outcome
  above it that its caller's frame says), `Attempts` (the last span of a frame is the one of the attempt it makes or
  made last, from `AttemptStart` and with the outcome), `Monotone`, `Doomed` and `Cascades` (below a failed
  call everything is skipped and no time passes), `Quick` (what a call with a timeout, but neither retries nor
  children, has added up) and `AllWithin`: what was made under a span ended before the span did or, while it is
  open, before what its frame has added up or before `Reach` of a frame that still runs under it. Containment alone
  is not inductive: a caller extends its own sum only when a child returns, and until then nothing in its
  frame covers the child's spans.
- `FailuresExplainedCorrect`, from `Accounted`, `Told` and `StepsTold`: where the outcome of a frame comes from after
  its last attempt (its failure or the timeout), while it recovers (every fallback before the one at hand
  failed) and when it has returned; a step not reached has no span, a failure stays the outcome above all later
  steps, and those only skip.

`K6ModuleProofs` proves for any number of VUs, any paths and any kind of test: `DeltasCorrect`, inductive with
the types (what a VU has pushed is at most its last snapshot, and equal to it while nothing was muted);
`SameAnswerCorrect`, from `OnceHolds` (one VU at most is inside `schemaOnce`, which publishes schema, overlay
and path in this order), `CallsKnow` (a VU inside `load()` has got no further than what has been settled) and
`AnswersBacked` (every answer given is the one those facts dictate), because what is settled stays so
(`SettledStays`); `ConfigureCorrect`, from `BeforeLoad` (nobody has entered `schemaOnce` before the iterations,
unless the script loads in its init code) and `PipelineFollows` (in the documented script the pipeline is built
from the configuration, which no longer changes then); and `LoadSafeCorrect`, from `NoLateVUs`: every VU exists
before the iterations begin, and whoever builds its engine finds the overlay set.

`ExportPipelineProofs` proves, for any set of services and callers and all sizes: `TypeCorrect`, where `TypeOK`
is inductive because a batch is never larger than what is pending; `ClosedOnceCorrect`, for every order of
calls, from `ClosesBy` (how often each exporter has been closed is a function of where `New` and `Shutdown`
stand) and `StoppingLate` (no provider stops before the default ones have closed the exporters);
`FlushCoversCorrect` from `FlushInv`: in k6's order of calls, for each call under way a provider's records from
before the call have been taken or the provider is still in the call's `todo`; `FlushedIsDeliveredCorrect` from
that and `LossExplained`: without a failed export nothing is lost before `Shutdown` begins, when no flush is
under way any more. `FlushServesCorrect` is the two together. `ShutdownServesCorrect` follows from
`LastCollection` (once the meter provider is shut down, every measurement is collected unless the context
expired or an export failed) and `Stopped` (a provider in use that is not closed is still in `stopTodo`, unless
the context expired, and a closed one has an empty queue). `StatsExactCorrect` rests on `TotalCounts`: the sum
over services, a recursion, is the cardinality of the set `Units` of all units counted, since that cardinality
satisfies the recursion and, services being finite, nothing else does; `TotalGrows` then gives what a batch
adds.

`SynthSpansProofs` proves, for every topology, every sequence of faults and any number of branches:
`TypeCorrect`, inductive as it stands once it says that the input of each worker is one of `Inputs`;
`CacheSoundCorrect`, whose heart is `KeysTellApart`: inputs with the same cache key are of the same operation,
side and protocol, and the callees of their edges have the same dotted name - so the attributes are the same but
for the callee's address on the calling end, where two callees of one dotted name share an entry;
`SilencedStaysSilentCorrect` from `Silent` (the targets in `muted` are still at 0, and an intensity of 0 draws
nothing); `IncidentsAgreeCorrect` from `Explained` (every incident told is the value of `ActiveForKind` for what
the attempt has folded, and what it has folded was a hit), by which no later reading of an intensity can matter;
`ActiveExactCorrect`, by the cardinality of the set of open server spans, and `VerdictsAgreeCorrect` from
`Verdict` (what is told is a function of node and outcome). The last two rest on `Progress` - a producer's span
ends before the operation's begins, `finished` is true exactly after the finish function's first call, and from
the lookup on the cache has the entry - and on the cache being sound: otherwise a counter could go up under one
attribute set and down under another.

`ObservableStateProofs` proves for any number of goroutines, keys and deltas: `TypeCorrect`; `Refinement`, that
`ObservableState` implements `AtomicAdds`, each step of an `Add` being a stutter but the successful swap;
`ReportsExplainedCorrect`, from `LoadsExplained` (between the two loads, what is in the second accumulator is
the first load, less the true difference of that moment, and what was added since); and `CounterMonotone`
(`CounterGrows`: a counter whose key has no negative delta never goes down between collections; for one with a
negative delta nothing is claimed, and it can).

`KahnSortProofs` proves for every finite graph: `CountersExact` and `VisitsAreTopological`, from one inductive
invariant: a counter is the number of incoming edges whose caller is not visited or that are still in
`todo`, and an operation is queued exactly when it is not visited and its counter is 0. `VerdictCorrect` adds that a
schema is refused exactly if some operation reaches itself. What an operation reaches is the least closed set
with its callees, so no induction over paths is needed: a visited operation is on no cycle because
the operations not visited when it was taken are a closed set with its callees but not with itself (`OffCycles`), and
among finitely many operations each called by another of them, the one reached from the fewest of them has a
caller on a cycle (`CallersMakeCycle`).

`TopologyProofs` proves for every set of documents that a decoder can produce (`DocsDecoded`), of any size. The
state is simple: each variable, once set, holds what its function returns for the document (`Answers`). What has
to be proved is about the functions:

- `LintAgreesCorrect`: `Lint` and `Parse` run the same stages, and the issues of severity error are what `Parse`
  returns.
- `SchemaWholeCorrect`: of operations with the same name the last one has its calls kept (`ShadowedIs`), and an
  error anywhere in a table of calls or steps is reported, since the topmost of its branch is
  (`NothingReported`), so in a document without errors every node was resolved (`TablesSound`, `CallsIs`,
  `SchemaIs`), to an operation that is there (`CallPointers`, `StepPointers`). A fault target is cut at its
  first separators, and joining the parts of what it was resolved to gives the text again (`CutIs`, `TargetIs`,
  `TargetWritten`); two texts of one operation have the same parts if there is no dot in the service's name
  (`SeparatedOnce`, `IdentityOnce`).
- `GraphsServedCorrect`: what `validateDAG` leaves is the largest set of operations that are all called from
  within it (`UnvisitedIs`), and there is one exactly if an operation reaches itself (`CalledWithin`,
  `LoopCalls`), over the same edges as those the definition of a cycle speaks of (`EdgesAre`). Without a cycle
  the equation of `buildOperationNode` has one solution where nothing is built again on the way to itself, the
  set of paths from the operation (`BuildingUnique`, `OperationNodeIs`), and those paths lead to what can be
  reached (`InvokedAll`). A journey has a step because a node on the lowest level of its tree is one
  (`JourneySteps`).
- `RoundTripCorrect`: the argument goes record by record, since what `MarshalYAML` leaves out of a record is
  what the parser puts in its place (`ServiceAgain`, `ScheduleAgain`, `FaultAgain`). Where a default is not what
  was left out, as for the latency whose p95 of 0 is read as the median (`LatencyAgain`), what is read still
  keeps the rules of `Validate`, and `Writable` names the case; a map is read back as it was unless it is empty
  or changed by the text (`MapAgain`). A written operation stands at the position of its name among the sorted
  ones, so every path into a service's calls moves to one path and back (`PlacedAgain`, `KeysAgain`,
  `CallsAgain`); journeys keep theirs (`StepsAgain`). A fault's target is resolved to the same object, by
  `TargetWritten` (`FaultsAgain`). Hence nothing is wrong when the text is read (`ReadOnceMore`), the rules of
  `Validate` hold of the second schema as of the first (`ValidAgain`; the graph is the same, so is the verdict
  on it, `UnvisitedSame`), and by name the two are equal (`NamedSame`).

A recursion over sets is reasoned about by choosing a least counterexample (`LeastNat`, `LeastSubset`), which
needs no induction scheme. The assumptions are `NilApart` (nil is none of the values that can stand in its
place), `NamespaceNotEmpty` (`DefaultNamespace` is a non-empty string), `MapsRead` (what is read of a map is a
map, and none is read as none) and `DocsDecoded`.

The constants' assumptions are named ASSUMEs, evaluated by TLC in every passing run.

Only model-checked: all liveness (`Termination`, `FlusherServes`, `PipelineMoves`, `AddsMakeProgress`,
`LoadReturns`), which is beyond the prover; and `InterleavingInvisible`, whose reference is a set of mutually RECURSIVE
operators, about which the provers cannot reason. Every
other invariant and action property of a passing run, and the refinement, is a theorem.

## 5. Findings

Four places where the code does other than a document or comment says, each with a run that shows it
(`PROJECT.json`, `findings`):

- A `Stop` concurrent with an `AddMetricSamples` that has passed its check of the context can leave a sample
  uncounted in the queue: it is pushed after the drain. k6 itself does not call it so.
- A VU that k6 initialises while another's first `load()` is between two assignments of `schemaOnce` sees a
  schema without its fault overlay, and its engine panics (`EnginesHaveOverlay`). In the same window the
  observable metrics can be registered without the overlay; `LoadSafe` excludes both where no VU comes late.
- `Shutdown` loses the spans and logs that wait in the services' queues, because the default providers close the
  shared exporters first. A `flush()` before it avoids the loss, which is proved.
- The span of a successful gRPC call has the status Error: the engine reports the code 200, and any code but 0
  of an rpc operation counts as an error.

Smaller differences met while reading; the models follow the code, and no run is spent on them. Paths
are under `src/`; uN is `aidlc-docs/construction/uN-*`.

- Journey: the timeout of an edge bounds the operation's own latency, not its children's
  (`docs/content/en/reference/topology.md:168`, `journey/executor.go:170`); a cascade stops at direct children
  (u2 `business-rules.md:147`, `executor.go:232`); a recovered operation's children never run (u2
  `business-rules.md:146`, `executor.go:122`).
- Synthesizer: the callee's span of a call within one service is a Client or Producer, because the caller's side
  is tried first (u3 `business-rules.md` section 2.2, `synth/synthesizer.go:475`); a caller's span may get the
  address of another callee if services `a.b` and `a` have operations `c` and `b.c` (`synth/attributes.go:308`);
  a negative delta lowers an observable counter (`topology/validate.go:444`).
- Output: `Stop` before `Start` leaves the flush loop running, since the context it would cancel does not exist
  yet (`k6output/output.go:170`).
- Module: `configure` is ignored when the output has built the pipeline (`configuration.md:10`,
  `k6otelgen/instance.go:236`) or after `load` (u5 `business-rules.md:56`, `instance.go:245`); the environment
  is not read without `configure` (u5 `business-rules.md:48`, `instance.go:237`); each VU reports the process's
  exports (`configuration.md:291`, `k6otelgen/metrics.go:79`).
- Topology: fallbacks of fallbacks are not range-checked (u1 `business-rules.md:62`,
  `topology/validate.go:643`); a fault link with both delta and value loses one in a round trip (u1
  `business-rules.md:282`, `marshal.go:244`), a disabled profile its sample rate of 0 (`marshal.go:132`), an
  empty map itself (`raw.go:58`, `equal.go:112`), a whole float or a NaN in one its type or its equality with
  itself; operations with the same name are accepted, and the calls of all but the last are lost
  (`reference/topology.md:67` and `:136`, `parse.go:116`); a NaN weight is not equal to itself (`equal.go:275`);
  a weight of 0 is refused (`parse.go:163`); a group of one gets no warning (`lint.go:102`); a cycle's error
  also names the operations below it (`validate.go:192`).

## 6. Not modelled, and what is left

- The delay `1<<(attempt-1)` times the base wraps for large retry counts; `JourneyExec` assumes it does
  not (`DelaysDoNotWrap`), and nothing in `validate.go` bounds the retries.
- Latency distributions and the random source behind its mutex (`replica.go`): draws are
  nondeterministic, so reproducibility for a seed is not expressed. `PickJourney` and the map of plans.
- The recovery from a panic in a branch: nothing the engine calls panics for a valid topology.
- `emitSample` and the instruments of the output; metric names and units (`params.go`, `convert.go`).
- Exporter configuration, TLS, endpoints, the profile client: records, files and one HTTP client.
- The conversion of JS values and options in `k6otelgen`, and its wrapper of the intensity setters.
- A branch of `Lint` that no document reaches (`lint.go:68`). All floats that are not finite are one value, `NaN`. The
  definition of a cycle follows first-level fallbacks only, as the code's edges do (`validate.go:633`).
- The JSON schema, texts of errors, the commands, the generators of test inputs and the containers for
  integration tests: they keep no state and run no concurrent code.

Left for proofs: on the way to `InterleavingInvisible`, that the steps of two branches of a group commute.
