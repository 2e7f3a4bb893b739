--------------------------- MODULE ExportPipeline ---------------------------
(***************************************************************************)
(* The process-wide OTLP pipeline (exporter/pipeline.go, stats.go): its    *)
(* staged construction, one provider with a batch processor of its own per *)
(* signal and synthetic service, all of them over one exporter per signal, *)
(* ForceFlush, Shutdown and the export counters.                           *)
(*                                                                         *)
(* The batch processors and the OTLP exporters belong to the SDK.  A       *)
(* processor is seen as a bounded queue whose records leave it in order,   *)
(* so counting what entered and what left is enough.  Nothing is written   *)
(* to the default tracer and logger provider: their queues stay empty.     *)
(***************************************************************************)
EXTENDS Integers, FiniteSets, FiniteSetsExt

CONSTANTS
  Services,      \* service instances, the keys of svcTracers and svcLoggers
  Signals,       \* the signals with a queue: "trace", "log" or both
  Silent,        \* the signals whose exporter, once closed, takes a batch
                 \* without an error and drops it; the others return one
  Callers,       \* goroutines that call ForceFlush
  MaxQueueSize,  \* Config.MaxQueueSize
  BatchSize,     \* Config.BatchSize
  MaxRecords,    \* bound of the model: records each provider accepts, by order
  MaxPoints      \* bound of the model: measurements made, by order

Orders == {"k6", "any"}

ASSUME PipelineAssumption ==
  /\ Signals \subseteq {"trace", "log"}
  /\ Silent \subseteq Signals
  /\ IsFiniteSet(Services)
  /\ MaxQueueSize \in Nat \ {0}
  /\ BatchSize \in Nat \ {0}
  /\ MaxRecords \in [Orders -> Nat]
  /\ MaxPoints \in [Orders -> Nat]

Key == Signals \X Services
NoKey == <<"none", "none">>
NoRecords == [k \in Key |-> 0]
Exporter == {"trace", "metric", "log"}

VARIABLES
  order,      \* of the calls: "k6", Shutdown comes last; "any", at any time
  stage,      \* progress of New
  made,       \* exporters it has made
  closes,     \* how often each exporter has been closed
  \* the providers of the services, by signal and service
  provider,   \* "none", "live", "stopping" or "closed"
  accepted,   \* records that entered the queue
  taken,      \* records that have left it with a batch
  lost,       \* those of them that no collector received
  \* the default meter provider, whose reader exports cumulative values
  points,     \* measurements made
  collected,  \* how many of them the last successful collection covered
  \* pipelineStats
  exported,
  failed,
  \* ForceFlush, by caller
  flushing,   \* where the call stands
  todo,       \* providers of its snapshot that are still to be flushed
  at,         \* the provider being flushed
  goal,       \* how much of that one's queue was ahead of the call
  \* Shutdown
  stopping,   \* where it stands
  stopTodo,   \* providers of its snapshot that are still to be shut down
  late,       \* its context has expired
  \* what the properties speak of
  refused,    \* an export to an open exporter has failed
  mark,       \* by caller, the records accepted before its call
  covered     \* the records accepted before a call that returned in time

queues == <<provider, accepted, taken, lost>>
meter == <<points, collected>>
stats == <<exported, failed>>
flush == <<flushing, todo, at, goal, mark, covered>>
shutdown == <<stopping, stopTodo, late>>
vars == <<order, stage, made, closes, provider, accepted, taken, lost, points,
          collected, exported, failed, flushing, todo, at, goal, mark, covered,
          stopping, stopTodo, late, refused>>

Init ==
  /\ order \in Orders
  /\ stage = "config"
  /\ made = {}
  /\ closes = [x \in Exporter |-> 0]
  /\ provider = [k \in Key |-> "none"]
  /\ accepted = NoRecords
  /\ taken = NoRecords
  /\ lost = NoRecords
  /\ points = 0
  /\ collected = 0
  /\ exported = [s \in Signals |-> 0]
  /\ failed = [s \in Signals |-> 0]
  /\ flushing = [c \in Callers |-> "no"]
  /\ todo = [c \in Callers |-> {}]
  /\ at = [c \in Callers |-> NoKey]
  /\ goal = [c \in Callers |-> 0]
  /\ mark = [c \in Callers |-> NoRecords]
  /\ covered = NoRecords
  /\ stopping = "no"
  /\ stopTodo = {}
  /\ late = FALSE
  /\ refused = FALSE

Open(x) == closes[x] = 0
Pending(k) == accepted[k] - taken[k]

-----------------------------------------------------------------------------
(***************************************************************************)
(* New.                                                                    *)
(***************************************************************************)
\* A stage is named by the step that comes next, "ready" when the pipeline is
\* there.  Validation, resource and TLS come before the first exporter.
NextStage ==
  [config |-> "trace", trace |-> "metric", metric |-> "log", log |-> "profile",
   profile |-> "ready"]

\* The exporters New closes when a stage fails.
Cleanup ==
  [config |-> {}, trace |-> {}, metric |-> {"trace"}, log |-> {"trace", "metric"},
   profile |-> Exporter]

BuildStage ==
  /\ stage \in DOMAIN NextStage
  /\ stage' = NextStage[stage]
  /\ made' = made \cup ({stage} \cap Exporter)
  /\ UNCHANGED <<order, closes, queues, meter, stats, flush, shutdown, refused>>

\* A stage fails: its exporters are closed, whatever that returns.
BuildFails ==
  /\ stage \in DOMAIN NextStage
  /\ stage' = "failed"
  /\ closes' = [x \in Exporter |-> IF x \in Cleanup[stage] THEN closes[x] + 1
                                                           ELSE closes[x]]
  /\ UNCHANGED <<order, made, queues, meter, stats, flush, shutdown, refused>>

Ready == stage = "ready"
MayUse == Ready /\ (order = "k6" => stopping = "no")

-----------------------------------------------------------------------------
(***************************************************************************)
(* What the synthesizer does: providers made on first use, records, and    *)
(* measurements.                                                           *)
(***************************************************************************)
\* TracerProviderForService and LoggerProviderForService, for a key that is not
\* cached; for one that is they change nothing.
ProviderForService(k) ==
  /\ MayUse
  /\ provider[k] = "none"
  /\ provider' = [provider EXCEPT ![k] = "live"]
  /\ UNCHANGED <<order, stage, made, closes, accepted, taken, lost, meter, stats,
                 flush, shutdown, refused>>

\* A span ends or a log record is emitted, and the queue has room.  A record
\* that finds the queue full, or its provider shut down, leaves no trace.
Accept(k) ==
  /\ MayUse
  /\ provider[k] = "live"
  /\ Pending(k) < MaxQueueSize
  /\ accepted[k] < MaxRecords[order]
  /\ accepted' = [accepted EXCEPT ![k] = @ + 1]
  /\ UNCHANGED <<order, stage, made, closes, provider, taken, lost, meter, stats,
                 flush, shutdown, refused>>

\* A measurement into an instrument of the default meter provider.
Measure ==
  /\ MayUse
  /\ points < MaxPoints[order]
  /\ points' = points + 1
  /\ UNCHANGED <<order, stage, made, closes, queues, collected, stats, flush,
                 shutdown, refused>>

-----------------------------------------------------------------------------
(***************************************************************************)
(* The batch processors and the exporters behind them.                     *)
(***************************************************************************)
BatchOf_whole(k) == BatchSize  \* mutant
BatchOf(k) == IF Pending(k) < BatchSize THEN Pending(k) ELSE BatchSize

\* The processor of k hands a batch to the exporter of its signal, because the
\* batch is full, its timeout has passed, or a flush or shutdown waits for it.
\* tracingExporter and loggingExporter count records that went out, but failed
\* calls.
Delivered(k) ==
  /\ Open(k[1])
  /\ exported' = [exported EXCEPT ![k[1]] = @ + BatchOf(k)]
  /\ UNCHANGED <<failed, lost, refused>>

Refused_counts_both(k) ==  \* mutant
  /\ Open(k[1])
  /\ lost' = [lost EXCEPT ![k] = @ + BatchOf(k)]
  /\ failed' = [failed EXCEPT ![k[1]] = @ + 1]
  /\ exported' = [exported EXCEPT ![k[1]] = @ + BatchOf(k)]
  /\ refused' = TRUE
Refused(k) ==
  /\ Open(k[1])
  /\ lost' = [lost EXCEPT ![k] = @ + BatchOf(k)]
  /\ failed' = [failed EXCEPT ![k[1]] = @ + 1]
  /\ refused' = TRUE
  /\ UNCHANGED exported

AfterClose(k) ==
  /\ ~Open(k[1])
  /\ lost' = [lost EXCEPT ![k] = @ + BatchOf(k)]
  /\ IF k[1] \in Silent
       THEN /\ exported' = [exported EXCEPT ![k[1]] = @ + BatchOf(k)]
            /\ UNCHANGED failed
       ELSE /\ failed' = [failed EXCEPT ![k[1]] = @ + 1]
            /\ UNCHANGED exported
  /\ UNCHANGED refused

ExportBatch_until_stopped(k) ==  \* mutant
  /\ Pending(k) > 0 /\ provider[k] = "live"
  /\ Delivered(k) \/ Refused(k) \/ AfterClose(k)
  /\ taken' = [taken EXCEPT ![k] = @ + BatchOf(k)]
  /\ UNCHANGED <<order, stage, made, closes, provider, accepted, meter, flush,
                 shutdown>>
ExportBatch(k) ==
  /\ Pending(k) > 0
  /\ Delivered(k) \/ Refused(k) \/ AfterClose(k)
  /\ taken' = [taken EXCEPT ![k] = @ + BatchOf(k)]
  /\ UNCHANGED <<order, stage, made, closes, provider, accepted, meter, flush,
                 shutdown>>

\* A collection by the reader of the default meter provider, on its interval,
\* by ForceFlush or by Shutdown.
Collect ==
  \/ Open("metric") /\ collected' = points /\ UNCHANGED refused
  \/ Open("metric") /\ refused' = TRUE /\ UNCHANGED collected

ReaderTick ==
  /\ Ready /\ collected # points
  /\ Collect
  /\ UNCHANGED <<order, stage, made, closes, queues, points, stats, flush, shutdown>>

-----------------------------------------------------------------------------
(***************************************************************************)
(* ForceFlush.                                                             *)
(***************************************************************************)
\* svcProviderSnapshot, under svcMu.
Snapshot == {k \in Key : provider[k] # "none"}

BeginFlush(c) ==
  /\ MayUse
  /\ flushing[c] = "no"
  /\ flushing' = [flushing EXCEPT ![c] = "defaults"]
  /\ todo' = [todo EXCEPT ![c] = Snapshot]
  /\ mark' = [mark EXCEPT ![c] = accepted]
  /\ UNCHANGED <<order, stage, made, closes, queues, meter, stats, at, goal, covered,
                 shutdown, refused>>

\* The default providers: only the meter provider has anything to send.
FlushDefaults(c) ==
  /\ flushing[c] = "defaults"
  /\ flushing' = [flushing EXCEPT ![c] = "providers"]
  /\ Collect \/ (~Open("metric") /\ UNCHANGED <<collected, refused>>)
  /\ UNCHANGED <<order, stage, made, closes, queues, points, stats, todo, at, goal,
                 mark, covered, shutdown>>

\* Tracers come before loggers.
Earlier(j, k) == j[1] = "trace" /\ k[1] = "log"
Foremost(k, S) == k \in S /\ \A j \in S : ~Earlier(j, k)

FlushProvider(c, k) ==
  /\ flushing[c] = "providers" /\ at[c] = NoKey
  /\ Foremost(k, todo[c])
  /\ at' = [at EXCEPT ![c] = k]
  /\ goal' = [goal EXCEPT ![c] = accepted[k]]
  /\ UNCHANGED <<order, stage, made, closes, queues, meter, stats, flushing, todo,
                 mark, covered, shutdown, refused>>

\* All that was queued ahead of the call has gone to the exporter, or the
\* provider is being shut down and the call returns at once.
ProviderFlushed(c) ==
  /\ at[c] # NoKey
  /\ taken[at[c]] >= goal[c] \/ provider[at[c]] # "live"
  /\ todo' = [todo EXCEPT ![c] = @ \ {at[c]}]
  /\ at' = [at EXCEPT ![c] = NoKey]
  /\ goal' = [goal EXCEPT ![c] = 0]
  /\ UNCHANGED <<order, stage, made, closes, queues, meter, stats, flushing, mark,
                 covered, shutdown, refused>>

FlushReturns_after_defaults(c) ==  \* mutant
  /\ flushing[c] = "providers"
  /\ flushing' = [flushing EXCEPT ![c] = "no"]
  /\ covered' = [k \in Key |-> IF mark[c][k] > covered[k] THEN mark[c][k]
                                                          ELSE covered[k]]
  /\ mark' = [mark EXCEPT ![c] = NoRecords]
  /\ UNCHANGED <<order, stage, made, closes, queues, meter, stats, todo, at, goal,
                 shutdown, refused>>
FlushReturns(c) ==
  /\ flushing[c] = "providers" /\ todo[c] = {}
  /\ flushing' = [flushing EXCEPT ![c] = "no"]
  /\ covered' = [k \in Key |-> IF mark[c][k] > covered[k] THEN mark[c][k]
                                                          ELSE covered[k]]
  /\ mark' = [mark EXCEPT ![c] = NoRecords]
  /\ UNCHANGED <<order, stage, made, closes, queues, meter, stats, todo, at, goal,
                 shutdown, refused>>

\* flushTimeout has passed: each remaining provider returns the context's error.
FlushExpires(c) ==
  /\ flushing[c] # "no"
  /\ flushing' = [flushing EXCEPT ![c] = "no"]
  /\ todo' = [todo EXCEPT ![c] = {}]
  /\ at' = [at EXCEPT ![c] = NoKey]
  /\ goal' = [goal EXCEPT ![c] = 0]
  /\ mark' = [mark EXCEPT ![c] = NoRecords]
  /\ UNCHANGED <<order, stage, made, closes, queues, meter, stats, covered, shutdown,
                 refused>>

-----------------------------------------------------------------------------
(***************************************************************************)
(* Shutdown.                                                               *)
(***************************************************************************)
\* onceShutdownSpanExporter and onceShutdownLogExporter.  The metric exporter has
\* no such wrapper: only the default meter provider closes it.
CloseOnce_each_time(x) == [closes EXCEPT ![x] = @ + 1]  \* mutant
CloseOnce(x) == [closes EXCEPT ![x] = IF @ = 0 THEN 1 ELSE @]

BeginShutdown_defaults_only ==  \* mutant
  /\ Ready /\ stopping = "no"
  /\ order = "k6" => \A c \in Callers : flushing[c] = "no"
  /\ stopping' = "tracer"
  /\ stopTodo' = {}
  /\ UNCHANGED <<order, stage, made, closes, queues, meter, stats, flush, late,
                 refused>>
BeginShutdown ==
  /\ Ready /\ stopping = "no"
  /\ order = "k6" => \A c \in Callers : flushing[c] = "no"
  /\ stopping' = "tracer"
  /\ stopTodo' = Snapshot
  /\ UNCHANGED <<order, stage, made, closes, queues, meter, stats, flush, late,
                 refused>>

\* The default tracer provider has nothing to export; it closes the exporter it
\* shares with the tracer providers of the services.
ShutdownTracer ==
  /\ stopping = "tracer"
  /\ stopping' = "meter"
  /\ closes' = CloseOnce("trace")
  /\ UNCHANGED <<order, stage, made, queues, meter, stats, flush, stopTodo, late,
                 refused>>

ShutdownMeter ==
  /\ stopping = "meter"
  /\ stopping' = "logger"
  /\ \/ Collect
     \/ late /\ UNCHANGED <<collected, refused>>
  /\ closes' = [closes EXCEPT !["metric"] = @ + 1]
  /\ UNCHANGED <<order, stage, made, queues, points, stats, flush, stopTodo, late>>

ShutdownLogger ==
  /\ stopping = "logger"
  /\ stopping' = "providers"
  /\ closes' = CloseOnce("log")
  /\ UNCHANGED <<order, stage, made, queues, meter, stats, flush, stopTodo, late,
                 refused>>

\* A provider of the snapshot stops accepting, drains its queue, and closes its
\* exporter unless that was done before.
StopProvider(k) ==
  /\ stopping = "providers"
  /\ Foremost(k, stopTodo)
  /\ \A j \in stopTodo : provider[j] # "stopping"
  /\ provider' = [provider EXCEPT ![k] = "stopping"]
  /\ UNCHANGED <<order, stage, made, closes, accepted, taken, lost, meter, stats,
                 flush, shutdown, refused>>

ProviderStopped(k) ==
  /\ provider[k] = "stopping" /\ Pending(k) = 0
  /\ provider' = [provider EXCEPT ![k] = "closed"]
  /\ closes' = CloseOnce(k[1])
  /\ stopTodo' = stopTodo \ {k}
  /\ UNCHANGED <<order, stage, made, accepted, taken, lost, meter, stats, flush,
                 stopping, late, refused>>

\* The context expires; the call goes on to the next provider while the draining
\* continues behind it.
ShutdownExpires ==
  /\ stopping \notin {"no", "done"} /\ ~late
  /\ late' = TRUE
  /\ UNCHANGED <<order, stage, made, closes, queues, meter, stats, flush, stopping,
                 stopTodo, refused>>

GiveUpProvider(k) ==
  /\ late /\ k \in stopTodo /\ provider[k] = "stopping"
  /\ stopTodo' = stopTodo \ {k}
  /\ UNCHANGED <<order, stage, made, closes, queues, meter, stats, flush, stopping,
                 late, refused>>

ShutdownReturns ==
  /\ stopping = "providers" /\ stopTodo = {}
  /\ stopping' = "done"
  /\ UNCHANGED <<order, stage, made, closes, queues, meter, stats, flush, stopTodo,
                 late, refused>>

-----------------------------------------------------------------------------
Build == BuildStage \/ BuildFails

Synthesizer ==
  \/ Measure
  \/ \E k \in Key : ProviderForService(k) \/ Accept(k)

Processors ==
  \/ ReaderTick
  \/ \E k \in Key : ExportBatch(k) \/ ProviderStopped(k)

ForceFlush(c) ==
  \/ BeginFlush(c) \/ FlushDefaults(c) \/ ProviderFlushed(c)
  \/ FlushReturns(c) \/ FlushExpires(c)
  \/ \E k \in Key : FlushProvider(c, k)

Shutdown ==
  \/ BeginShutdown \/ ShutdownTracer \/ ShutdownMeter \/ ShutdownLogger
  \/ ShutdownExpires \/ ShutdownReturns
  \/ \E k \in Key : StopProvider(k) \/ GiveUpProvider(k)

Next ==
  \/ Build \/ Synthesizer \/ Processors \/ Shutdown
  \/ \E c \in Callers : ForceFlush(c)

\* A processor exports what it holds at the latest when its batch timeout has
\* passed, and a ForceFlush or Shutdown that is under way goes on.  Nobody has
\* to write records or to call ForceFlush or Shutdown, and no context has to
\* expire.
Fairness ==
  /\ \A k \in Key : WF_vars(ExportBatch(k)) /\ WF_vars(ProviderStopped(k))
  /\ \A c \in Callers :
       /\ WF_vars(FlushDefaults(c)) /\ WF_vars(ProviderFlushed(c))
       /\ WF_vars(FlushReturns(c)) /\ WF_vars(\E k \in Key : FlushProvider(c, k))
  /\ WF_vars(ShutdownTracer) /\ WF_vars(ShutdownMeter) /\ WF_vars(ShutdownLogger)
  /\ WF_vars(\E k \in Key : StopProvider(k)) /\ WF_vars(ShutdownReturns)

Spec == Init /\ [][Next]_vars /\ Fairness

-----------------------------------------------------------------------------
\* The types of the pipeline's state: no queue gives out more than it took in and
\* no more is lost than was given out.
QueuesOK ==
  /\ provider \in [Key -> {"none", "live", "stopping", "closed"}]
  /\ accepted \in [Key -> Nat]
  /\ taken \in [Key -> Nat]
  /\ lost \in [Key -> Nat]
  /\ \A k \in Key : lost[k] <= taken[k] /\ taken[k] <= accepted[k]

FlushOK ==
  /\ flushing \in [Callers -> {"no", "defaults", "providers"}]
  /\ todo \in [Callers -> SUBSET Key]
  /\ at \in [Callers -> Key \cup {NoKey}]
  /\ goal \in [Callers -> Nat]
  /\ mark \in [Callers -> [Key -> Nat]]
  /\ covered \in [Key -> Nat]

TypeOK ==
  /\ order \in Orders
  /\ stage \in {"config", "trace", "metric", "log", "profile", "ready", "failed"}
  /\ made \in SUBSET Exporter
  /\ closes \in [Exporter -> Nat]
  /\ QueuesOK
  /\ points \in Nat
  /\ collected \in Nat
  /\ exported \in [Signals -> Nat]
  /\ failed \in [Signals -> Nat]
  /\ FlushOK
  /\ stopping \in {"no", "tracer", "meter", "logger", "providers", "done"}
  /\ stopTodo \in SUBSET Key
  /\ late \in BOOLEAN
  /\ refused \in BOOLEAN

\* Every exporter is closed at most once, although each provider of a signal
\* closes the one it shares; and none that was made is left open, neither by a
\* construction that failed nor by a Shutdown.
ExportersClosedOnce ==
  /\ \A x \in Exporter : closes[x] <= 1
  /\ stage = "failed" => \A x \in made : ~Open(x)
  /\ stopping = "done" => \A x \in Exporter : ~Open(x)

\* A ForceFlush that returned before its context expired has handed every record
\* to the exporter that any service had queued before the call, whichever
\* providers were made, flushed or written to meanwhile.
FlushCovers ==
  order = "k6" => \A k \in Key : covered[k] <= taken[k]

\* What a ForceFlush covered is delivered unless an export failed, and a later
\* Shutdown, which does lose records, loses none of these: a flush() in teardown is
\* enough (docs/content/en/usage: "makes trace, metric, and log delivery independent
\* of whether the otel-gen output is enabled").
FlushedIsDelivered ==
  order = "k6" /\ ~refused => \A k \in Key : covered[k] + lost[k] <= taken[k]

\* A count f of records by provider, over all providers of signal s.
Total(s, f) == MapThenSumSet(LAMBDA j : f[<<s, j>>], Services)

\* Until an exporter is closed the counters of its signal are exact: what is
\* counted as exported went out, and what was lost is at least one and at most a
\* batch of records for each failed call.
StatsExact ==
  \A s \in Signals : Open(s) =>
    /\ exported[s] = Total(s, taken) - Total(s, lost)
    /\ failed[s] <= Total(s, lost) /\ Total(s, lost) <= failed[s] * BatchSize

\* Shutdown collects the default meter provider's measurements once more before
\* it closes the metric exporter, so none is missing if no export failed.
MetricsSurviveShutdown ==
  order = "k6" /\ stopping = "done" /\ ~late /\ ~refused => collected = points

\* A Shutdown that had the time leaves no provider with a running processor and
\* nothing in a queue.
ShutdownStopsProviders ==
  order = "k6" /\ stopping = "done" /\ ~late =>
    \A k \in Key : provider[k] \in {"none", "closed"} /\ Pending(k) = 0

\* What aidlc-docs/inception/application-design/services.md (contract O-6) says of
\* Shutdown: pending batches are flushed and sent without loss.
ShutdownDelivers ==
  order = "k6" /\ stopping = "done" /\ ~late /\ ~refused =>
    \A k \in Key : lost[k] = 0

\* A record that was accepted leaves its queue.
RecordsLeave == \A k \in Key : Pending(k) > 0 ~> Pending(k) = 0

\* A call of ForceFlush returns, and so does Shutdown, also when providers are
\* made and written to all the time.
CallsReturn ==
  /\ \A c \in Callers : flushing[c] # "no" ~> flushing[c] = "no"
  /\ stopping # "no" ~> stopping = "done"

\* What a caller of ForceFlush is promised: the records queued before are exported,
\* and stay delivered.
FlushServes == FlushCovers /\ FlushedIsDelivered

\* What a caller of Shutdown is promised: a last collection, and no provider left.
ShutdownServes == MetricsSurviveShutdown /\ ShutdownStopsProviders

\* The pipeline does not stand still: its processors work off their queues, and its
\* calls return.
PipelineMoves == RecordsLeave /\ CallsReturn

=============================================================================
