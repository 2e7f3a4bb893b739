------------------------ MODULE ExportPipelineProofs ------------------------
(***************************************************************************)
(* Proofs about ExportPipeline, for any set of services, any number of     *)
(* callers and every size of queues and batches.                           *)
(***************************************************************************)
EXTENDS ExportPipeline, FiniteSetTheorems, TLAPS

LEMMA InitTyped == Init => TypeOK
<1>1. Init => late \in BOOLEAN /\ refused \in BOOLEAN
  BY Zenon DEF Init
<1>2. Init => QueuesOK /\ FlushOK
  BY DEF Init, QueuesOK, FlushOK, NoRecords
<1> QED
  BY <1>1, <1>2 DEF Init, TypeOK

LEMMA BuildTyped == TypeOK /\ Build => TypeOK'
<1> SUFFICES ASSUME TypeOK, Build PROVE TypeOK'
  OBVIOUS
<1>1. UNCHANGED <<order, queues, meter, stats, flush, shutdown, refused>>
  BY DEF Build, BuildStage, BuildFails
<1>2. stage' \in {"config", "trace", "metric", "log", "profile", "ready", "failed"}
  BY DEF Build, BuildStage, BuildFails, NextStage
<1>3. closes' \in [Exporter -> Nat] /\ made' \in SUBSET Exporter
  BY DEF TypeOK, Build, BuildStage, BuildFails
<1> QED
  BY <1>1, <1>2, <1>3
  DEF TypeOK, QueuesOK, FlushOK, queues, meter, stats, flush, shutdown

LEMMA SynthesizerTyped == TypeOK /\ Synthesizer => TypeOK'
<1> SUFFICES ASSUME TypeOK, Synthesizer PROVE TypeOK'
  OBVIOUS
<1>1. UNCHANGED <<order, stage, made, closes, collected, stats, flush, shutdown,
                  refused>>
  BY DEF Synthesizer, Measure, ProviderForService, Accept, meter
<1>2. points' \in Nat
  BY DEF TypeOK, Synthesizer, Measure, ProviderForService, Accept, meter
<1>3. QueuesOK'
  <2>1. CASE Measure
    BY <2>1 DEF TypeOK, QueuesOK, Measure, queues
  <2>2. ASSUME NEW k \in Key, ProviderForService(k)
        PROVE  QueuesOK'
    BY <2>2 DEF TypeOK, QueuesOK, ProviderForService
  <2>3. ASSUME NEW k \in Key, Accept(k)
        PROVE  QueuesOK'
    BY <2>3 DEF TypeOK, QueuesOK, Accept
  <2> QED
    BY <2>1, <2>2, <2>3 DEF Synthesizer
<1> QED
  BY <1>1, <1>2, <1>3 DEF TypeOK, FlushOK, stats, flush, shutdown

\* What a batch does to the queue it is taken from.
LEMMA BatchTyped ==
  ASSUME TypeOK, NEW k \in Key, Pending(k) > 0
  PROVE  /\ k[1] \in Signals
         /\ BatchOf(k) \in Nat \ {0}
         /\ BatchOf(k) <= Pending(k)
  BY PipelineAssumption DEF TypeOK, QueuesOK, Pending, BatchOf, Key

LEMMA ExportTyped ==
  ASSUME TypeOK, NEW k \in Key, ExportBatch(k)
  PROVE  TypeOK'
<1>1. Pending(k) > 0 /\ taken' = [taken EXCEPT ![k] = @ + BatchOf(k)]
  BY DEF ExportBatch
<1>2. UNCHANGED <<order, stage, made, closes, provider, accepted, meter, flush,
                  shutdown>>
  BY DEF ExportBatch
<1>3. \/ lost' = lost
      \/ lost' = [lost EXCEPT ![k] = @ + BatchOf(k)]
  BY DEF ExportBatch, Delivered, Refused, AfterClose
<1>4. \/ exported' = exported
      \/ exported' = [exported EXCEPT ![k[1]] = @ + BatchOf(k)]
  BY DEF ExportBatch, Delivered, Refused, AfterClose
<1>5. \/ failed' = failed
      \/ failed' = [failed EXCEPT ![k[1]] = @ + 1]
  BY DEF ExportBatch, Delivered, Refused, AfterClose
<1>6. refused' = refused \/ refused' = TRUE
  BY DEF ExportBatch, Delivered, Refused, AfterClose
<1>7. refused' \in BOOLEAN
  BY <1>6, Zenon DEF TypeOK
<1>8. QueuesOK'
  <2> DEFINE n == BatchOf(k)
  <2>1. n \in Nat /\ n <= accepted[k] - taken[k]
    BY <1>1, BatchTyped DEF Pending
  <2> HIDE DEF n
  <2>2. taken' = [taken EXCEPT ![k] = @ + n]
    BY <1>1 DEF n
  <2>3. \/ lost' = lost
        \/ lost' = [lost EXCEPT ![k] = @ + n]
    BY <1>3 DEF n
  <2>4. UNCHANGED <<provider, accepted>>
    BY <1>2
  <2> QED
    BY <2>1, <2>2, <2>3, <2>4 DEF TypeOK, QueuesOK
<1>9. exported' \in [Signals -> Nat] /\ failed' \in [Signals -> Nat]
  <2> DEFINE n == BatchOf(k)
  <2>1. n \in Nat /\ k[1] \in Signals
    BY <1>1, BatchTyped
  <2>2. \/ exported' = exported
        \/ exported' = [exported EXCEPT ![k[1]] = @ + n]
    BY <1>4
  <2> HIDE DEF n
  <2> QED
    BY <2>1, <2>2, <1>5 DEF TypeOK
<1> QED
  BY <1>2, <1>7, <1>8, <1>9 DEF TypeOK, FlushOK, meter, flush, shutdown

LEMMA CollectTyped == TypeOK /\ Collect => collected' \in Nat /\ refused' \in BOOLEAN
<1> SUFFICES ASSUME TypeOK, Collect
             PROVE  collected' \in Nat /\ refused' \in BOOLEAN
  OBVIOUS
<1>1. refused' = refused \/ refused' = TRUE
  BY DEF Collect
<1>2. refused' \in BOOLEAN
  BY <1>1, Zenon DEF TypeOK
<1>3. collected' \in Nat
  BY DEF Collect, TypeOK
<1> QED
  BY <1>2, <1>3

LEMMA CloseTyped ==
  ASSUME TypeOK, NEW x \in Exporter, closes' = CloseOnce(x)
  PROVE  closes' \in [Exporter -> Nat]
BY DEF TypeOK, CloseOnce

LEMMA ProcessorsTyped == TypeOK /\ Processors => TypeOK'
<1> SUFFICES ASSUME TypeOK, Processors PROVE TypeOK'
  OBVIOUS
<1>1. CASE ReaderTick
  <2>1. collected' \in Nat /\ refused' \in BOOLEAN
    BY <1>1, CollectTyped DEF ReaderTick
  <2>2. UNCHANGED <<order, stage, made, closes, queues, points, stats, flush,
                    shutdown>>
    BY <1>1 DEF ReaderTick
  <2> QED
    BY <2>1, <2>2 DEF TypeOK, QueuesOK, FlushOK, queues, stats, flush, shutdown
<1>2. ASSUME NEW k \in Key, ProviderStopped(k)
      PROVE  TypeOK'
  <2>1. k[1] \in Exporter /\ closes' = CloseOnce(k[1])
    BY <1>2, PipelineAssumption DEF ProviderStopped, Key, Exporter
  <2>2. closes' \in [Exporter -> Nat]
    BY <2>1, CloseTyped
  <2>3. UNCHANGED <<order, stage, made, accepted, taken, lost, meter, stats, flush,
                    stopping, late, refused>>
    BY <1>2 DEF ProviderStopped
  <2>4. QueuesOK'
    BY <1>2, <2>3 DEF ProviderStopped, TypeOK, QueuesOK
  <2>5. stopTodo' \in SUBSET Key
    BY <1>2 DEF ProviderStopped, TypeOK
  <2> QED
    BY <2>2, <2>3, <2>4, <2>5 DEF TypeOK, FlushOK, meter, stats, flush
<1> QED
  BY <1>1, <1>2, ExportTyped DEF Processors

LEMMA ForceFlushTyped ==
  ASSUME TypeOK, NEW c \in Callers, ForceFlush(c)
  PROVE  TypeOK'
<1>1. UNCHANGED <<order, stage, made, closes, queues, points, stats, shutdown>>
  BY DEF ForceFlush, BeginFlush, FlushDefaults, ProviderFlushed, FlushReturns,
         FlushExpires, FlushProvider, meter
<1>2. collected' \in Nat /\ refused' \in BOOLEAN
  <2>1. CASE UNCHANGED <<collected, refused>>
    BY <2>1 DEF TypeOK
  <2>2. CASE Collect
    BY <2>2, CollectTyped
  <2> QED
    BY <2>1, <2>2 DEF ForceFlush, BeginFlush, FlushDefaults, ProviderFlushed,
                      FlushReturns, FlushExpires, FlushProvider, meter
<1>3. FlushOK'
  <2> USE DEF TypeOK, QueuesOK, FlushOK
  <2>1. CASE BeginFlush(c)
    BY <2>1 DEF BeginFlush, Snapshot
  <2>2. CASE FlushDefaults(c)
    BY <2>2 DEF FlushDefaults
  <2>3. ASSUME NEW k \in Key, FlushProvider(c, k)
        PROVE  FlushOK'
    BY <2>3 DEF FlushProvider
  <2>4. CASE ProviderFlushed(c)
    BY <2>4 DEF ProviderFlushed
  <2>5. CASE FlushReturns(c)
    <3>1. mark[c] \in [Key -> Nat] /\ NoRecords \in [Key -> Nat]
      BY DEF NoRecords
    <3>2. mark' \in [Callers -> [Key -> Nat]]
      BY <2>5, <3>1 DEF FlushReturns
    <3>3. covered' \in [Key -> Nat]
      BY <2>5, <3>1 DEF FlushReturns
    <3>4. flushing' \in [Callers -> {"no", "defaults", "providers"}]
      BY <2>5 DEF FlushReturns
    <3> QED
      BY <2>5, <3>2, <3>3, <3>4 DEF FlushReturns
  <2>6. CASE FlushExpires(c)
    BY <2>6 DEF FlushExpires, NoRecords
  <2> QED
    BY <2>1, <2>2, <2>3, <2>4, <2>5, <2>6 DEF ForceFlush
<1> QED
  BY <1>1, <1>2, <1>3 DEF TypeOK, QueuesOK, queues, stats, shutdown

LEMMA ShutdownTyped == TypeOK /\ Shutdown => TypeOK'
<1> SUFFICES ASSUME TypeOK, Shutdown PROVE TypeOK'
  OBVIOUS
<1>0. {"trace", "metric", "log"} \subseteq Exporter
  BY DEF Exporter
<1>1. UNCHANGED <<order, stage, made, accepted, taken, lost, points, stats, flush>>
  BY DEF Shutdown, BeginShutdown, ShutdownTracer, ShutdownMeter, ShutdownLogger,
         ShutdownExpires, ShutdownReturns, StopProvider, GiveUpProvider, queues, meter
<1>2. collected' \in Nat /\ refused' \in BOOLEAN
  <2>1. CASE UNCHANGED <<collected, refused>>
    BY <2>1 DEF TypeOK
  <2>2. CASE Collect
    BY <2>2, CollectTyped
  <2> QED
    BY <2>1, <2>2
    DEF Shutdown, BeginShutdown, ShutdownTracer, ShutdownMeter, ShutdownLogger,
        ShutdownExpires, ShutdownReturns, StopProvider, GiveUpProvider, meter
<1>3. late' \in BOOLEAN
  <2>1. late' = late \/ late' = TRUE
    BY DEF Shutdown, BeginShutdown, ShutdownTracer, ShutdownMeter, ShutdownLogger,
           ShutdownExpires, ShutdownReturns, StopProvider, GiveUpProvider, shutdown
  <2> QED
    BY <2>1, Zenon DEF TypeOK
<1>4. closes' \in [Exporter -> Nat]
  <2>1. CASE UNCHANGED closes
    BY <2>1 DEF TypeOK
  <2>2. CASE ShutdownTracer
    BY <1>0, <2>2, CloseTyped DEF ShutdownTracer
  <2>3. CASE ShutdownMeter
    BY <1>0, <2>3 DEF ShutdownMeter, TypeOK
  <2>4. CASE ShutdownLogger
    BY <1>0, <2>4, CloseTyped DEF ShutdownLogger
  <2> QED
    BY <2>1, <2>2, <2>3, <2>4
    DEF Shutdown, BeginShutdown, ShutdownExpires, ShutdownReturns, StopProvider,
        GiveUpProvider
<1>5. stopping' \in {"no", "tracer", "meter", "logger", "providers", "done"}
  BY DEF Shutdown, BeginShutdown, ShutdownTracer, ShutdownMeter, ShutdownLogger,
         ShutdownExpires, ShutdownReturns, StopProvider, GiveUpProvider, shutdown,
         TypeOK
<1>6. stopTodo' \in SUBSET Key
  BY DEF Shutdown, BeginShutdown, ShutdownTracer, ShutdownMeter, ShutdownLogger,
         ShutdownExpires, ShutdownReturns, StopProvider, GiveUpProvider, shutdown,
         TypeOK, Snapshot
<1>7. QueuesOK'
  <2>1. CASE UNCHANGED provider
    BY <1>1, <2>1 DEF TypeOK, QueuesOK
  <2>2. ASSUME NEW k \in Key, StopProvider(k)
        PROVE  QueuesOK'
    BY <2>2 DEF StopProvider, TypeOK, QueuesOK
  <2> QED
    BY <2>1, <2>2
    DEF Shutdown, BeginShutdown, ShutdownTracer, ShutdownMeter, ShutdownLogger,
        ShutdownExpires, ShutdownReturns, GiveUpProvider, queues
<1> QED
  BY <1>1, <1>2, <1>3, <1>4, <1>5, <1>6, <1>7 DEF TypeOK, FlushOK, stats, flush

\* The order of the calls is chosen once.
LEMMA OrderKept == [Next]_vars => order' = order
BY DEF Next, Build, BuildStage, BuildFails, Synthesizer, Measure, ProviderForService,
       Accept, Processors, ReaderTick, ExportBatch, ProviderStopped, ForceFlush,
       BeginFlush, FlushDefaults, ProviderFlushed, FlushReturns, FlushExpires,
       FlushProvider, Shutdown, BeginShutdown, ShutdownTracer, ShutdownMeter,
       ShutdownLogger, ShutdownExpires, ShutdownReturns, StopProvider,
       GiveUpProvider, vars

LEMMA NextTyped == TypeOK /\ [Next]_vars => TypeOK'
<1>1. TypeOK /\ UNCHANGED vars => TypeOK'
  BY DEF TypeOK, QueuesOK, FlushOK, vars
<1> QED
  BY <1>1, BuildTyped, SynthesizerTyped, ProcessorsTyped, ForceFlushTyped,
     ShutdownTyped DEF Next

\* TypeOK of every reachable state: records leave a queue only after they entered.
THEOREM TypeCorrect == Spec => []TypeOK
BY InitTyped, NextTyped, PTL DEF Spec

-----------------------------------------------------------------------------
(***************************************************************************)
(* Exporters are closed once.  How often each has been closed follows from *)
(* where New and Shutdown stand: a provider of a service closes nothing,   *)
(* because the default provider of its signal was first.                   *)
(***************************************************************************)
ClosesBy ==
  IF stage = "ready"
    THEN /\ closes["trace"] = IF stopping \in {"no", "tracer"} THEN 0 ELSE 1
         /\ closes["metric"] = IF stopping \in {"no", "tracer", "meter"} THEN 0 ELSE 1
         /\ closes["log"] = IF stopping \in {"providers", "done"} THEN 1 ELSE 0
    ELSE /\ stopping = "no"
         /\ IF stage = "failed"
              THEN closes = [x \in Exporter |-> IF x \in made THEN 1 ELSE 0]
              ELSE made = Cleanup[stage] /\ closes = [x \in Exporter |-> 0]

StoppingLate ==
  \A k \in Key : provider[k] \in {"stopping", "closed"} => stopping \in {"providers", "done"}

ClosingInv == TypeOK /\ ClosesBy /\ StoppingLate

LEMMA InitClosing == Init => ClosingInv
BY InitTyped DEF Init, ClosingInv, ClosesBy, StoppingLate, Cleanup

LEMMA ClosesByStep ==
  ASSUME ClosingInv, [Next]_vars
  PROVE  ClosesBy'
<1> USE DEF ClosingInv
<1>1. CASE UNCHANGED <<stage, made, closes, stopping>>
  BY <1>1 DEF ClosesBy
<1>2. CASE BuildStage
  <2>1. stage # "ready" /\ stage # "failed" /\ stage' # "failed"
    BY <1>2 DEF BuildStage, NextStage
  <2>2. UNCHANGED <<closes, stopping>>
    BY <1>2 DEF BuildStage, shutdown
  <2>3. stage' # "ready" => made' = Cleanup[stage']
    <3>1. /\ stage' = NextStage[stage] /\ made' = made \cup ({stage} \cap Exporter)
          /\ made = Cleanup[stage]
      BY <1>2, <2>1 DEF BuildStage, ClosesBy
    <3>2. stage \in {"config", "trace", "metric", "log", "profile"}
      BY <2>1 DEF TypeOK
    <3>3. CASE stage = "config"
      BY <3>1, <3>3 DEF Cleanup, NextStage, Exporter
    <3>4. CASE stage = "trace"
      BY <3>1, <3>4 DEF Cleanup, NextStage, Exporter
    <3>5. CASE stage = "metric"
      BY <3>1, <3>5 DEF Cleanup, NextStage, Exporter
    <3>6. CASE stage = "log"
      BY <3>1, <3>6 DEF Cleanup, NextStage, Exporter
    <3>7. CASE stage = "profile"
      BY <3>1, <3>7 DEF NextStage
    <3> QED
      BY <3>2, <3>3, <3>4, <3>5, <3>6, <3>7
  <2>4. stopping' = "no" /\ closes' = [x \in Exporter |-> 0]
    BY <2>1, <2>2 DEF ClosesBy
  <2>5. CASE stage' = "ready"
    BY <2>4, <2>5 DEF ClosesBy, Exporter
  <2>6. CASE stage' # "ready"
    BY <2>1, <2>3, <2>4, <2>6 DEF ClosesBy
  <2> QED
    BY <2>5, <2>6
<1>3. CASE BuildFails
  <2>1. stage # "ready" /\ stage # "failed"
    BY <1>3 DEF BuildFails, NextStage
  <2>2. stage' = "failed" /\ stopping' = stopping /\ made' = made
    BY <1>3 DEF BuildFails, shutdown
  <2>3. closes = [x \in Exporter |-> 0] /\ made = Cleanup[stage]
    BY <2>1 DEF ClosesBy
  <2>4. closes' = [x \in Exporter |-> IF x \in made THEN 1 ELSE 0]
    BY <1>3, <2>3 DEF BuildFails
  <2> QED
    BY <2>1, <2>2, <2>3, <2>4 DEF ClosesBy
<1>4. CASE BeginShutdown
  BY <1>4 DEF BeginShutdown, Ready, ClosesBy
<1>5. ASSUME stopping # "no"
      PROVE  stage = "ready"
  BY <1>5 DEF ClosesBy
<1>6. CASE ShutdownTracer
  BY <1>5, <1>6 DEF ShutdownTracer, CloseOnce, ClosesBy, TypeOK, Exporter
<1>7. CASE ShutdownMeter
  BY <1>5, <1>7 DEF ShutdownMeter, ClosesBy, TypeOK, Exporter
<1>8. CASE ShutdownLogger
  BY <1>5, <1>8 DEF ShutdownLogger, CloseOnce, ClosesBy, TypeOK, Exporter
<1>9. CASE ShutdownReturns
  BY <1>5, <1>9 DEF ShutdownReturns, ClosesBy
<1>10. ASSUME NEW k \in Key, ProviderStopped(k)
       PROVE  ClosesBy'
  <2>1. provider[k] = "stopping"
    BY <1>10 DEF ProviderStopped
  <2>2. stopping \in {"providers", "done"}
    BY <2>1 DEF StoppingLate
  <2>3. stage = "ready" /\ \A x \in {"trace", "log"} : closes[x] = 1
    BY <1>5, <2>2 DEF ClosesBy
  <2>4. k[1] \in {"trace", "log"}
    BY PipelineAssumption DEF Key
  <2>5. closes' = closes
    BY <1>10, <2>3, <2>4 DEF ProviderStopped, CloseOnce, TypeOK, Exporter
  <2> QED
    BY <1>10, <2>5 DEF ProviderStopped, ClosesBy
<1>11. CASE Synthesizer
  BY <1>1, <1>11 DEF Synthesizer, Measure, ProviderForService, Accept, shutdown
<1>12. CASE Processors
  BY <1>1, <1>10, <1>12 DEF Processors, ReaderTick, ExportBatch, shutdown
<1>13. ASSUME NEW c \in Callers, ForceFlush(c)
       PROVE  ClosesBy'
  BY <1>1, <1>13
  DEF ForceFlush, BeginFlush, FlushDefaults, ProviderFlushed, FlushReturns,
      FlushExpires, FlushProvider, shutdown
<1>14. CASE Shutdown
  BY <1>1, <1>4, <1>6, <1>7, <1>8, <1>9, <1>14
  DEF Shutdown, ShutdownExpires, StopProvider, GiveUpProvider, shutdown
<1> QED
  BY <1>1, <1>2, <1>3, <1>11, <1>12, <1>13, <1>14 DEF Next, Build, vars

LEMMA StoppingLateStep ==
  ASSUME ClosingInv, [Next]_vars
  PROVE  StoppingLate'
<1> USE DEF ClosingInv
<1>1. \/ stopping' = stopping
      \/ stopping \notin {"providers", "done"}
      \/ stopping' = "done"
  BY DEF Next, Build, BuildStage, BuildFails, Synthesizer, Measure,
         ProviderForService, Accept, Processors, ReaderTick, ExportBatch,
         ProviderStopped, ForceFlush, BeginFlush, FlushDefaults, ProviderFlushed,
         FlushReturns, FlushExpires, FlushProvider, Shutdown, BeginShutdown,
         ShutdownTracer, ShutdownMeter, ShutdownLogger, ShutdownExpires,
         ShutdownReturns, StopProvider, GiveUpProvider, shutdown, vars
<1>2. CASE UNCHANGED provider
  BY <1>1, <1>2 DEF StoppingLate
<1>3. ASSUME NEW k \in Key, ProviderForService(k)
      PROVE  StoppingLate'
  BY <1>3 DEF ProviderForService, shutdown, StoppingLate, TypeOK, QueuesOK
<1>4. ASSUME NEW k \in Key, StopProvider(k)
      PROVE  StoppingLate'
  BY <1>4 DEF StopProvider, shutdown, StoppingLate, TypeOK, QueuesOK
<1>5. ASSUME NEW k \in Key, ProviderStopped(k)
      PROVE  StoppingLate'
  BY <1>5 DEF ProviderStopped, StoppingLate, TypeOK, QueuesOK
<1>6. CASE Synthesizer
  BY <1>2, <1>3, <1>6 DEF Synthesizer, Measure, Accept, queues
<1>7. CASE Processors
  BY <1>2, <1>5, <1>7 DEF Processors, ReaderTick, ExportBatch, queues
<1>8. CASE Shutdown
  BY <1>2, <1>4, <1>8
  DEF Shutdown, BeginShutdown, ShutdownTracer, ShutdownMeter, ShutdownLogger,
      ShutdownExpires, ShutdownReturns, GiveUpProvider, queues
<1>9. ASSUME NEW c \in Callers, ForceFlush(c)
      PROVE  StoppingLate'
  BY <1>2, <1>9
  DEF ForceFlush, BeginFlush, FlushDefaults, ProviderFlushed, FlushReturns,
      FlushExpires, FlushProvider, queues
<1>10. CASE Build
  BY <1>2, <1>10 DEF Build, BuildStage, BuildFails, queues
<1> QED
  BY <1>2, <1>6, <1>7, <1>8, <1>9, <1>10 DEF Next, vars

LEMMA ClosingAlways == Spec => []ClosingInv
<1>1. ClosingInv /\ [Next]_vars => ClosingInv'
  BY ClosesByStep, StoppingLateStep, NextTyped DEF ClosingInv
<1> QED
  BY <1>1, InitClosing, PTL DEF Spec

\* ExportersClosedOnce of every reachable state: however many providers share an
\* exporter, it is closed once, and after a failed New or a Shutdown none is open.
THEOREM ClosedOnceCorrect == Spec => []ExportersClosedOnce
<1>1. ClosingInv => ExportersClosedOnce
  BY DEF ClosingInv, ClosesBy, ExportersClosedOnce, TypeOK, Open, Exporter, NextStage
<1> QED
  BY <1>1, ClosingAlways, PTL

-----------------------------------------------------------------------------
(***************************************************************************)
(* What a ForceFlush covers, with the order of calls k6 keeps.  A provider *)
(* whose queue holds records from before the call is in the call's         *)
(* snapshot, and leaves it when they have been taken.                      *)
(***************************************************************************)
Quiescent ==
  /\ stopping # "no" => \A c \in Callers : flushing[c] = "no"
  /\ stopping = "no" => \A k \in Key : provider[k] \in {"none", "live"}
  /\ \A k \in Key : provider[k] = "none" => accepted[k] = 0

InFlight(c) ==
  /\ flushing[c] # "no" =>
       \A k \in Key : /\ mark[c][k] <= taken[k] \/ k \in todo[c]
                      /\ mark[c][k] <= accepted[k]
  /\ flushing[c] # "no" => \A k \in todo[c] : provider[k] # "none"
  /\ at[c] # NoKey =>
       /\ flushing[c] = "providers" /\ at[c] \in todo[c]
       /\ mark[c][at[c]] <= goal[c]

Covered == \A k \in Key : covered[k] <= taken[k]

FlushInv ==
  TypeOK /\ Quiescent /\ (\A c \in Callers : InFlight(c)) /\ Covered

LEMMA InitFlushInv == Init => FlushInv
BY InitTyped DEF Init, FlushInv, Quiescent, InFlight, Covered, NoRecords

\* A step of the processors or of the synthesizer takes and accepts, never less
\* than before, and leaves the calls of ForceFlush alone.
LEMMA CountsGrow ==
  ASSUME TypeOK, [Next]_vars
  PROVE  \A k \in Key : taken[k] <= taken'[k] /\ accepted[k] <= accepted'[k]
<1>1. CASE UNCHANGED <<taken, accepted>>
  BY <1>1 DEF TypeOK, QueuesOK
<1>2. ASSUME NEW k \in Key, Accept(k)
      PROVE  \A j \in Key : taken[j] <= taken'[j] /\ accepted[j] <= accepted'[j]
  BY <1>2 DEF Accept, TypeOK, QueuesOK
<1>3. ASSUME NEW k \in Key, ExportBatch(k)
      PROVE  \A j \in Key : taken[j] <= taken'[j] /\ accepted[j] <= accepted'[j]
  <2>1. BatchOf(k) \in Nat
    BY <1>3, BatchTyped DEF ExportBatch
  <2>2. taken' = [taken EXCEPT ![k] = @ + BatchOf(k)] /\ accepted' = accepted
    BY <1>3 DEF ExportBatch
  <2> QED
    BY <2>1, <2>2 DEF TypeOK, QueuesOK
<1> QED
  BY <1>1, <1>2, <1>3
  DEF Next, Build, BuildStage, BuildFails, Synthesizer, Measure,
      ProviderForService, Processors, ReaderTick, ProviderStopped, ForceFlush,
      BeginFlush, FlushDefaults, ProviderFlushed, FlushReturns, FlushExpires,
      FlushProvider, Shutdown, BeginShutdown, ShutdownTracer, ShutdownMeter,
      ShutdownLogger, ShutdownExpires, ShutdownReturns, StopProvider,
      GiveUpProvider, queues, vars

LEMMA QuiescentStep ==
  ASSUME FlushInv, order = "k6", [Next]_vars
  PROVE  Quiescent'
<1> USE DEF FlushInv, TypeOK, QueuesOK, FlushOK, MayUse
<1>1. CASE UNCHANGED <<stopping, flushing, provider, accepted>>
  BY <1>1 DEF Quiescent
<1>2. ASSUME NEW k \in Key, ProviderForService(k)
      PROVE  Quiescent'
  BY <1>2 DEF ProviderForService, Quiescent, flush, shutdown
<1>3. ASSUME NEW k \in Key, Accept(k)
      PROVE  Quiescent'
  BY <1>3 DEF Accept, Quiescent, flush, shutdown
<1>4. ASSUME NEW c \in Callers, ForceFlush(c)
      PROVE  Quiescent'
  <2>1. UNCHANGED <<stopping, provider, accepted>>
    BY <1>4 DEF ForceFlush, BeginFlush, FlushDefaults, ProviderFlushed,
                FlushReturns, FlushExpires, FlushProvider, queues, shutdown
  <2>2. stopping # "no" => flushing' = flushing
    BY <1>4 DEF ForceFlush, BeginFlush, FlushDefaults, ProviderFlushed,
                FlushReturns, FlushExpires, FlushProvider, Quiescent
  <2> QED
    BY <2>1, <2>2 DEF Quiescent
<1>5. CASE BeginShutdown
  BY <1>5 DEF BeginShutdown, Quiescent, flush, queues
<1>6. ASSUME NEW k \in Key, StopProvider(k)
      PROVE  Quiescent'
  BY <1>6 DEF StopProvider, Quiescent, flush, shutdown
<1>7. ASSUME NEW k \in Key, ProviderStopped(k)
      PROVE  Quiescent'
  BY <1>7 DEF ProviderStopped, Quiescent, flush
<1>8. ASSUME UNCHANGED <<flushing, provider, accepted>>, stopping # "no", stopping' # "no"
      PROVE  Quiescent'
  BY <1>8 DEF Quiescent
<1>9. CASE Shutdown
  <2>1. CASE ShutdownTracer \/ ShutdownMeter \/ ShutdownLogger
    BY <1>8, <2>1 DEF ShutdownTracer, ShutdownMeter, ShutdownLogger, flush, queues
  <2>2. CASE ShutdownExpires \/ ShutdownReturns
    BY <1>8, <2>2 DEF ShutdownExpires, ShutdownReturns, flush, queues
  <2>3. ASSUME NEW k \in Key, GiveUpProvider(k)
        PROVE  Quiescent'
    BY <1>1, <2>3 DEF GiveUpProvider, flush, queues
  <2> QED
    BY <1>5, <1>6, <1>9, <2>1, <2>2, <2>3 DEF Shutdown
<1>10. CASE Synthesizer
  BY <1>1, <1>2, <1>3, <1>10 DEF Synthesizer, Measure, flush, shutdown, queues
<1>11. CASE Processors
  BY <1>1, <1>7, <1>11 DEF Processors, ReaderTick, ExportBatch, flush, shutdown, queues
<1>12. CASE Build
  BY <1>1, <1>12 DEF Build, BuildStage, BuildFails, flush, shutdown, queues
<1> QED
  BY <1>1, <1>4, <1>9, <1>10, <1>11, <1>12 DEF Next, vars

\* A call that a step leaves alone.
LEMMA InFlightKept ==
  ASSUME TypeOK, [Next]_vars, NEW c \in Callers, InFlight(c),
         flushing'[c] = flushing[c], todo'[c] = todo[c], at'[c] = at[c],
         goal'[c] = goal[c], mark'[c] = mark[c],
         \A k \in Key : provider[k] # "none" => provider'[k] # "none"
  PROVE  InFlight(c)'
<1>1. \A k \in Key : taken[k] <= taken'[k] /\ accepted[k] <= accepted'[k]
  BY CountsGrow
<1>2. TypeOK'
  BY NextTyped
<1>3. /\ todo[c] \subseteq Key
      /\ \A k \in Key : /\ mark[c][k] \in Nat /\ taken[k] \in Nat /\ accepted[k] \in Nat
                        /\ taken'[k] \in Nat /\ accepted'[k] \in Nat
  BY <1>2 DEF TypeOK, QueuesOK, FlushOK
<1> QED
  BY <1>1, <1>3 DEF InFlight

LEMMA ProvidersStay ==
  ASSUME TypeOK, [Next]_vars
  PROVE  \A k \in Key : provider[k] # "none" => provider'[k] # "none"
<1>1. CASE UNCHANGED provider
  BY <1>1
<1>2. ASSUME NEW k \in Key, ProviderForService(k) \/ StopProvider(k) \/ ProviderStopped(k)
      PROVE  \A j \in Key : provider[j] # "none" => provider'[j] # "none"
  BY <1>2 DEF ProviderForService, StopProvider, ProviderStopped, TypeOK, QueuesOK
<1> QED
  BY <1>1, <1>2
  DEF Next, Build, BuildStage, BuildFails, Synthesizer, Measure, Accept,
      Processors, ReaderTick, ExportBatch, ForceFlush, BeginFlush, FlushDefaults,
      ProviderFlushed, FlushReturns, FlushExpires, FlushProvider, Shutdown,
      BeginShutdown, ShutdownTracer, ShutdownMeter, ShutdownLogger,
      ShutdownExpires, ShutdownReturns, GiveUpProvider, queues, vars

\* The steps of the call itself.
LEMMA InFlightOwn ==
  ASSUME FlushInv, order = "k6", NEW c \in Callers, ForceFlush(c)
  PROVE  InFlight(c)'
<1> USE DEF FlushInv, TypeOK, QueuesOK, FlushOK
<1>0. UNCHANGED <<provider, accepted, taken>>
  BY DEF ForceFlush, BeginFlush, FlushDefaults, ProviderFlushed, FlushReturns,
         FlushExpires, FlushProvider, queues
<1>1. CASE BeginFlush(c)
  <2>1. \A k \in Key : k \in Snapshot \/ accepted[k] = 0
    BY DEF Quiescent, Snapshot
  <2>2. at[c] = NoKey
    BY <1>1 DEF BeginFlush, InFlight
  <2> QED
    BY <1>0, <1>1, <2>1, <2>2 DEF BeginFlush, InFlight, Snapshot
<1>2. CASE FlushDefaults(c)
  BY <1>0, <1>2 DEF FlushDefaults, InFlight
<1>3. ASSUME NEW k \in Key, FlushProvider(c, k)
      PROVE  InFlight(c)'
  BY <1>0, <1>3 DEF FlushProvider, Foremost, InFlight
<1>4. CASE ProviderFlushed(c)
  <2> DEFINE k == at[c]
  <2>1. k \in Key /\ k \in todo[c] /\ mark[c][k] <= goal[c] /\ flushing[c] = "providers"
    BY <1>4 DEF ProviderFlushed, InFlight
  <2>2. provider[k] = "live"
    BY <2>1 DEF Quiescent, InFlight
  <2>3. taken[k] >= goal[c]
    BY <1>4, <2>2 DEF ProviderFlushed
  <2>4. mark[c] \in [Key -> Nat] /\ goal[c] \in Nat
    OBVIOUS
  <2>5. mark[c][k] <= taken[k]
    BY <2>1, <2>3, <2>4
  <2>6. /\ todo'[c] = todo[c] \ {k} /\ at'[c] = NoKey
        /\ UNCHANGED <<flushing, mark>>
    BY <1>4 DEF ProviderFlushed
  <2> QED
    BY <1>0, <2>1, <2>5, <2>6 DEF InFlight
<1>5. CASE FlushReturns(c)
  <2>1. at[c] = NoKey
    BY <1>5 DEF FlushReturns, InFlight
  <2> QED
    BY <1>0, <1>5, <2>1 DEF FlushReturns, InFlight
<1>6. CASE FlushExpires(c)
  BY <1>0, <1>6 DEF FlushExpires, InFlight
<1> QED
  BY <1>1, <1>2, <1>3, <1>4, <1>5, <1>6 DEF ForceFlush

LEMMA InFlightStep ==
  ASSUME FlushInv, order = "k6", [Next]_vars, NEW c \in Callers
  PROVE  InFlight(c)'
<1>1. TypeOK /\ InFlight(c)
  BY DEF FlushInv
<1>2. CASE UNCHANGED <<flushing, todo, at, goal, mark>>
  BY <1>1, <1>2, InFlightKept, ProvidersStay
<1>3. ASSUME NEW d \in Callers, ForceFlush(d)
      PROVE  InFlight(c)'
  <2>1. CASE c = d
    BY <1>3, <2>1, InFlightOwn
  <2>2. CASE c # d
    <3>1. /\ flushing'[c] = flushing[c] /\ todo'[c] = todo[c] /\ at'[c] = at[c]
          /\ goal'[c] = goal[c] /\ mark'[c] = mark[c]
      BY <1>1, <1>3, <2>2
      DEF ForceFlush, BeginFlush, FlushDefaults, ProviderFlushed, FlushReturns,
          FlushExpires, FlushProvider, TypeOK, FlushOK
    <3> QED
      BY <1>1, <3>1, InFlightKept, ProvidersStay
  <2> QED
    BY <2>1, <2>2
<1> QED
  BY <1>2, <1>3
  DEF Next, Build, BuildStage, BuildFails, Synthesizer, Measure,
      ProviderForService, Accept, Processors, ReaderTick, ExportBatch,
      ProviderStopped, Shutdown, BeginShutdown, ShutdownTracer, ShutdownMeter,
      ShutdownLogger, ShutdownExpires, ShutdownReturns, StopProvider,
      GiveUpProvider, flush, vars

LEMMA CoveredStep ==
  ASSUME FlushInv, [Next]_vars
  PROVE  Covered'
<1>1. TypeOK /\ TypeOK'
  BY NextTyped DEF FlushInv
<1>2. \A k \in Key : /\ taken[k] \in Nat /\ taken'[k] \in Nat /\ covered[k] \in Nat
                     /\ taken[k] <= taken'[k]
  BY <1>1, CountsGrow DEF TypeOK, QueuesOK, FlushOK
<1>3. CASE UNCHANGED covered
  BY <1>2, <1>3 DEF FlushInv, Covered
<1>4. ASSUME NEW c \in Callers, FlushReturns(c)
      PROVE  Covered'
  <2>1. mark[c] \in [Key -> Nat]
    BY <1>1 DEF TypeOK, FlushOK
  <2>2. \A k \in Key : mark[c][k] <= taken[k]
    BY <1>4 DEF FlushReturns, FlushInv, InFlight
  <2>3. covered' = [k \in Key |-> IF mark[c][k] > covered[k] THEN mark[c][k]
                                                             ELSE covered[k]]
    BY <1>4 DEF FlushReturns
  <2> QED
    BY <1>2, <2>1, <2>2, <2>3 DEF FlushInv, Covered
<1> QED
  BY <1>3, <1>4
  DEF Next, Build, BuildStage, BuildFails, Synthesizer, Measure,
      ProviderForService, Accept, Processors, ReaderTick, ExportBatch,
      ProviderStopped, ForceFlush, BeginFlush, FlushDefaults, ProviderFlushed,
      FlushExpires, FlushProvider, Shutdown, BeginShutdown, ShutdownTracer,
      ShutdownMeter, ShutdownLogger, ShutdownExpires, ShutdownReturns,
      StopProvider, GiveUpProvider, flush, vars

InK6 == order = "k6" => FlushInv

LEMMA InK6Always == Spec => []InK6
<1>1. Init => InK6
  BY InitFlushInv DEF InK6
<1>2. InK6 /\ [Next]_vars => InK6'
  BY OrderKept, NextTyped, QuiescentStep, InFlightStep, CoveredStep DEF InK6, FlushInv
<1> QED
  BY <1>1, <1>2, PTL DEF Spec

\* FlushCovers of every reachable state: a ForceFlush that returned in time left no
\* record queued that any provider had accepted before the call.
THEOREM FlushCoversCorrect == Spec => []FlushCovers
<1>1. InK6 => FlushCovers
  BY DEF InK6, FlushInv, Covered, FlushCovers
<1> QED
  BY <1>1, InK6Always, PTL

-----------------------------------------------------------------------------
(***************************************************************************)
(* Delivery.  As long as no export failed, records are lost only after     *)
(* Shutdown has begun, when the calls of ForceFlush are over.              *)
(***************************************************************************)
LossExplained ==
  ~refused => \A k \in Key : /\ stopping = "no" => lost[k] = 0
                             /\ covered[k] + lost[k] <= taken[k]

NothingEarly == stage # "ready" => \A k \in Key : accepted[k] = 0

DeliveryInv == ClosingInv /\ FlushInv /\ NothingEarly /\ LossExplained

LEMMA NothingEarlyStep == NothingEarly /\ [Next]_vars => NothingEarly'
<1> SUFFICES ASSUME NothingEarly, [Next]_vars PROVE NothingEarly'
  OBVIOUS
<1>1. stage = "ready" => stage' = "ready"
  BY DEF Next, Build, BuildStage, BuildFails, Synthesizer, Measure, NextStage,
         ProviderForService, Accept, Processors, ReaderTick, ExportBatch,
         ProviderStopped, ForceFlush, BeginFlush, FlushDefaults, ProviderFlushed,
         FlushReturns, FlushExpires, FlushProvider, Shutdown, BeginShutdown,
         ShutdownTracer, ShutdownMeter, ShutdownLogger, ShutdownExpires,
         ShutdownReturns, StopProvider, GiveUpProvider, vars
<1>2. stage # "ready" => accepted' = accepted
  BY DEF Next, Build, BuildStage, BuildFails, Synthesizer, Measure, MayUse, Ready,
         ProviderForService, Accept, Processors, ReaderTick, ExportBatch,
         ProviderStopped, ForceFlush, BeginFlush, FlushDefaults, ProviderFlushed,
         FlushReturns, FlushExpires, FlushProvider, Shutdown, BeginShutdown,
         ShutdownTracer, ShutdownMeter, ShutdownLogger, ShutdownExpires,
         ShutdownReturns, StopProvider, GiveUpProvider, queues, vars
<1> QED
  BY <1>1, <1>2 DEF NothingEarly

LEMMA LossExplainedStep ==
  ASSUME DeliveryInv, order = "k6", [Next]_vars
  PROVE  LossExplained'
<1> USE DEF DeliveryInv
<1>1. TypeOK /\ TypeOK'
  BY NextTyped DEF FlushInv
<1>3. ASSUME stopping # "no"
      PROVE  stopping' # "no" /\ covered' = covered /\ accepted' = accepted
  <2>1. \A c \in Callers : flushing[c] = "no"
    BY <1>3 DEF FlushInv, Quiescent
  <2>2. stage = "ready"
    BY <1>3 DEF ClosingInv, ClosesBy
  <2> QED
    BY <1>3, <2>1, <2>2
    DEF Next, Build, BuildStage, BuildFails, Synthesizer, Measure, MayUse, NextStage,
        ProviderForService, Accept, Processors, ReaderTick, ExportBatch,
        ProviderStopped, ForceFlush, BeginFlush, FlushDefaults, ProviderFlushed,
        FlushReturns, FlushExpires, FlushProvider, Shutdown, BeginShutdown,
        ShutdownTracer, ShutdownMeter, ShutdownLogger, ShutdownExpires,
        ShutdownReturns, StopProvider, GiveUpProvider, queues, flush, shutdown, vars
<1>4. ASSUME refused
      PROVE  refused'
  BY <1>4
  DEF Next, Build, BuildStage, BuildFails, Synthesizer, Measure, Collect,
      ProviderForService, Accept, Processors, ReaderTick, ExportBatch, Delivered,
      Refused, AfterClose, ProviderStopped, ForceFlush, BeginFlush, FlushDefaults,
      ProviderFlushed, FlushReturns, FlushExpires, FlushProvider, Shutdown,
      BeginShutdown, ShutdownTracer, ShutdownMeter, ShutdownLogger,
      ShutdownExpires, ShutdownReturns, StopProvider, GiveUpProvider, vars
<1>5. CASE UNCHANGED lost
  <2> SUFFICES ASSUME ~refused', NEW k \in Key
               PROVE  /\ stopping' = "no" => lost'[k] = 0
                      /\ covered'[k] + lost'[k] <= taken'[k]
    BY DEF LossExplained
  <2>1. ~refused
    BY <1>4
  <2>2. /\ taken[k] \in Nat /\ taken'[k] \in Nat /\ lost[k] \in Nat
        /\ covered[k] \in Nat /\ covered'[k] \in Nat
        /\ taken[k] <= taken'[k] /\ covered'[k] <= taken'[k]
    BY <1>1, CountsGrow, CoveredStep DEF TypeOK, QueuesOK, FlushOK, FlushInv, Covered
  <2>3. CASE stopping = "no"
    BY <1>5, <2>1, <2>2, <2>3 DEF LossExplained
  <2>4. CASE stopping # "no"
    BY <1>3, <1>5, <2>1, <2>2, <2>4 DEF LossExplained
  <2> QED
    BY <2>3, <2>4
<1>6. ASSUME NEW k \in Key, ExportBatch(k)
      PROVE  LossExplained'
  <2>1. UNCHANGED <<stopping, covered, accepted>>
    BY <1>6 DEF ExportBatch, flush, shutdown
  <2>2. CASE Delivered(k)
    BY <1>5, <2>2 DEF Delivered
  <2>3. CASE Refused(k)
    BY <2>3 DEF Refused, LossExplained
  <2>4. CASE AfterClose(k)
    <3>1. k[1] \in {"trace", "log"}
      BY PipelineAssumption DEF Key
    <3>2. stopping # "no"
      <4>1. accepted[k] > 0
        BY <1>1, <1>6 DEF ExportBatch, Pending, TypeOK, QueuesOK
      <4>2. stage = "ready"
        BY <1>1, <4>1 DEF NothingEarly, TypeOK, QueuesOK
      <4> QED
        BY <2>4, <3>1, <4>2 DEF AfterClose, Open, ClosingInv, ClosesBy
    <3> DEFINE n == BatchOf(k)
    <3>3. n \in Nat
      BY <1>1, <1>6, BatchTyped DEF ExportBatch
    <3>4. /\ lost' = [lost EXCEPT ![k] = @ + n]
          /\ taken' = [taken EXCEPT ![k] = @ + n]
          /\ refused' = refused
      BY <1>6, <2>4 DEF AfterClose, ExportBatch
    <3> HIDE DEF n
    <3>5. \A j \in Key : /\ covered[j] \in Nat /\ lost[j] \in Nat /\ taken[j] \in Nat
                         /\ j # k => lost'[j] = lost[j] /\ taken'[j] = taken[j]
      BY <1>1, <3>4 DEF TypeOK, QueuesOK, FlushOK
    <3>6. lost'[k] = lost[k] + n /\ taken'[k] = taken[k] + n
      BY <1>1, <3>4 DEF TypeOK, QueuesOK
    <3>7. ASSUME ~refused', NEW j \in Key
          PROVE  covered'[j] + lost'[j] <= taken'[j]
      <4>1. covered[j] + lost[j] <= taken[j] /\ covered'[j] = covered[j]
        BY <2>1, <3>4, <3>7 DEF LossExplained
      <4>2. covered[j] \in Nat /\ lost[j] \in Nat /\ taken[j] \in Nat
        BY <3>5, <3>7
      <4>3. CASE j = k
        <5>1. lost'[j] = lost[j] + n /\ taken'[j] = taken[j] + n
          BY <3>6, <4>3
        <5> QED
          BY <3>3, <4>1, <4>2, <5>1
      <4>4. CASE j # k
        <5>1. lost'[j] = lost[j] /\ taken'[j] = taken[j]
          BY <3>5, <3>7, <4>4
        <5> QED
          BY <4>1, <4>2, <5>1
      <4> QED
        BY <4>3, <4>4
    <3> QED
      BY <2>1, <3>2, <3>7 DEF LossExplained
  <2> QED
    BY <1>6, <2>2, <2>3, <2>4 DEF ExportBatch
<1> QED
  BY <1>5, <1>6
  DEF Next, Build, BuildStage, BuildFails, Synthesizer, Measure,
      ProviderForService, Accept, Processors, ReaderTick, ProviderStopped,
      ForceFlush, BeginFlush, FlushDefaults, ProviderFlushed, FlushReturns,
      FlushExpires, FlushProvider, Shutdown, BeginShutdown, ShutdownTracer,
      ShutdownMeter, ShutdownLogger, ShutdownExpires, ShutdownReturns,
      StopProvider, GiveUpProvider, queues, vars

InK6Delivery == order = "k6" => DeliveryInv

LEMMA InK6DeliveryAlways == Spec => []InK6Delivery
<1>1. Init => InK6Delivery
  BY InitClosing, InitFlushInv
  DEF InK6Delivery, DeliveryInv, NothingEarly, LossExplained, Init, NoRecords
<1>2. InK6Delivery /\ ClosingInv' /\ InK6' /\ [Next]_vars => InK6Delivery'
  BY OrderKept, LossExplainedStep, NothingEarlyStep DEF InK6Delivery, DeliveryInv, InK6
<1> QED
  BY <1>1, <1>2, ClosingAlways, InK6Always, PTL DEF Spec

\* FlushedIsDelivered of every reachable state: unless an export failed, no record
\* that a ForceFlush covered is lost, whatever Shutdown does afterwards.
THEOREM FlushedIsDeliveredCorrect == Spec => []FlushedIsDelivered
<1>1. InK6Delivery => FlushedIsDelivered
  BY DEF InK6Delivery, DeliveryInv, LossExplained, FlushedIsDelivered
<1> QED
  BY <1>1, InK6DeliveryAlways, PTL

\* FlushServes of every reachable state: what a ForceFlush covered has been exported,
\* and delivered unless an export failed.
THEOREM FlushServesCorrect == Spec => []FlushServes
<1>1. FlushCovers /\ FlushedIsDelivered => FlushServes
  BY DEF FlushServes
<1> QED
  BY FlushCoversCorrect, FlushedIsDeliveredCorrect, <1>1, PTL

-----------------------------------------------------------------------------
(***************************************************************************)
(* Shutdown.  As long as its context has not expired, a provider that has  *)
(* not been closed is among those still to be shut down, and a closed one  *)
(* has an empty queue; the last collection comes before the exporter is    *)
(* closed, and nobody measures any more.                                   *)
(***************************************************************************)
LastCollection ==
  stopping \in {"logger", "providers", "done"} /\ ~late /\ ~refused => collected = points

Stopped ==
  /\ stopping # "no" /\ ~late =>
       \A k \in Key : provider[k] \in {"none", "closed"} \/ k \in stopTodo
  /\ stopping = "done" => stopTodo = {}
  /\ \A k \in Key : provider[k] = "closed" => Pending(k) = 0

ShutdownInv == FlushInv /\ LastCollection /\ Stopped

LEMMA LastCollectionStep ==
  ASSUME ShutdownInv, order = "k6", [Next]_vars
  PROVE  LastCollection'
<1> USE DEF ShutdownInv, meter, shutdown
<1>1. CASE UNCHANGED <<stopping, late, refused, meter>>
  BY <1>1 DEF LastCollection
<1>2. ASSUME Collect, UNCHANGED <<points, stopping, late>>
      PROVE  LastCollection'
  BY <1>2 DEF Collect, LastCollection
<1>3. CASE Measure
  BY <1>3 DEF Measure, MayUse, LastCollection
<1>4. CASE ReaderTick
  BY <1>2, <1>4 DEF ReaderTick
<1>5. ASSUME NEW c \in Callers, ForceFlush(c)
      PROVE  LastCollection'
  <2>1. CASE FlushDefaults(c) /\ Collect
    BY <1>2, <2>1 DEF FlushDefaults
  <2>2. CASE UNCHANGED <<collected, refused>>
    BY <1>1, <1>5, <2>2 DEF ForceFlush, BeginFlush, FlushDefaults, ProviderFlushed, FlushReturns,
                            FlushExpires, FlushProvider
  <2> QED
    BY <1>5, <2>1, <2>2 DEF ForceFlush, BeginFlush, FlushDefaults, ProviderFlushed, FlushReturns,
                            FlushExpires, FlushProvider
<1>6. CASE ShutdownMeter
  <2>1. late' = late /\ points' = points
    BY <1>6 DEF ShutdownMeter
  <2>2. ~late => collected' = points \/ refused'
    BY <1>6 DEF ShutdownMeter, Collect
  <2> QED
    BY <2>1, <2>2 DEF LastCollection
<1>7. CASE Shutdown /\ ~ShutdownMeter
  <2>1. /\ UNCHANGED <<meter, refused>>
        /\ late => late'
        /\ stopping' \in {"logger", "providers", "done"} => stopping \in {"logger", "providers", "done"}
    BY <1>7 DEF Shutdown, BeginShutdown, ShutdownTracer, ShutdownLogger, ShutdownExpires,
                ShutdownReturns, StopProvider, GiveUpProvider
  <2> QED
    BY <2>1 DEF LastCollection
<1>8. ASSUME NEW k \in Key, ExportBatch(k)
      PROVE  LastCollection'
  <2>1. /\ UNCHANGED <<stopping, late, meter>> /\ (refused => refused')
    BY <1>8 DEF ExportBatch, Delivered, Refused, AfterClose
  <2> QED
    BY <2>1 DEF LastCollection
<1>9. ASSUME NEW k \in Key, ProviderStopped(k) \/ ProviderForService(k) \/ Accept(k)
      PROVE  UNCHANGED <<stopping, late, refused, meter>>
  BY <1>9 DEF ProviderStopped, ProviderForService, Accept
<1>10. CASE Build \/ UNCHANGED vars
  BY <1>1, <1>10 DEF Build, BuildStage, BuildFails, vars
<1> QED
  BY <1>1, <1>3, <1>4, <1>5, <1>6, <1>7, <1>8, <1>9, <1>10 DEF Next, Synthesizer, Processors

LEMMA StoppedStep ==
  ASSUME ShutdownInv, order = "k6", [Next]_vars
  PROVE  Stopped'
<1> USE DEF ShutdownInv, FlushInv, TypeOK, QueuesOK, shutdown, queues
<1>1. CASE UNCHANGED <<stopping, stopTodo, late, provider, accepted, taken>>
  BY <1>1 DEF Stopped, Pending
<1>2. ASSUME NEW k \in Key, ProviderForService(k)
      PROVE  Stopped'
  BY <1>2 DEF ProviderForService, MayUse, Stopped, Pending
<1>3. ASSUME NEW k \in Key, Accept(k)
      PROVE  Stopped'
  BY <1>3 DEF Accept, MayUse, Stopped, Pending
<1>4. ASSUME NEW k \in Key, ExportBatch(k)
      PROVE  Stopped'
  <2>1. /\ provider[k] # "closed" /\ UNCHANGED <<provider, accepted, stopping, stopTodo, late>>
        /\ \A j \in Key : j # k => taken'[j] = taken[j]
    BY <1>4 DEF ExportBatch, Stopped
  <2> QED
    BY <2>1 DEF Stopped, Pending
<1>5. ASSUME NEW k \in Key, ProviderStopped(k)
      PROVE  Stopped'
  BY <1>5 DEF ProviderStopped, Stopped, Pending
<1>6. CASE BeginShutdown
  BY <1>6 DEF BeginShutdown, Snapshot, Stopped, Pending
<1>7. CASE ShutdownTracer \/ ShutdownMeter \/ ShutdownLogger \/ ShutdownExpires \/ ShutdownReturns
  <2>1. /\ UNCHANGED <<provider, accepted, taken, stopTodo>>
        /\ stopping # "no" /\ (late => late')
        /\ stopping' = "done" => stopTodo = {}
    BY <1>7 DEF ShutdownTracer, ShutdownMeter, ShutdownLogger, ShutdownExpires, ShutdownReturns, Stopped
  <2> QED
    BY <2>1 DEF Stopped, Pending
<1>8. ASSUME NEW k \in Key, StopProvider(k)
      PROVE  Stopped'
  BY <1>8 DEF StopProvider, Foremost, Stopped, Pending
<1>9. ASSUME NEW k \in Key, GiveUpProvider(k)
      PROVE  Stopped'
  BY <1>9 DEF GiveUpProvider, Stopped, Pending
<1>10. ASSUME NEW c \in Callers, ForceFlush(c)
       PROVE  UNCHANGED <<stopping, stopTodo, late, provider, accepted, taken>>
  BY <1>10 DEF ForceFlush, BeginFlush, FlushDefaults, ProviderFlushed, FlushReturns,
               FlushExpires, FlushProvider
<1>11. CASE Build \/ Measure \/ ReaderTick \/ UNCHANGED vars
  BY <1>1, <1>11 DEF Build, BuildStage, BuildFails, Measure, ReaderTick, vars
<1> QED
  BY <1>1, <1>2, <1>3, <1>4, <1>5, <1>6, <1>7, <1>8, <1>9, <1>10, <1>11
  DEF Next, Synthesizer, Processors, Shutdown

InK6Shutdown == order = "k6" => ShutdownInv

LEMMA InK6ShutdownAlways == Spec => []InK6Shutdown
<1>1. Init => InK6Shutdown
  BY InitFlushInv DEF InK6Shutdown, ShutdownInv, LastCollection, Stopped, Init
<1>2. InK6Shutdown /\ InK6' /\ [Next]_vars => InK6Shutdown'
  BY OrderKept, LastCollectionStep, StoppedStep DEF InK6Shutdown, ShutdownInv, InK6
<1> QED
  BY <1>1, <1>2, InK6Always, PTL DEF Spec

\* ShutdownServes of every reachable state: a Shutdown that had the time has collected
\* every measurement, unless a collection failed, and closed every provider with
\* nothing left in its queue.
THEOREM ShutdownServesCorrect == Spec => []ShutdownServes
<1>1. ASSUME InK6Shutdown PROVE MetricsSurviveShutdown
  BY <1>1 DEF InK6Shutdown, ShutdownInv, LastCollection, MetricsSurviveShutdown
<1>2. ASSUME InK6Shutdown PROVE ShutdownStopsProviders
  <2> SUFFICES ASSUME order = "k6", stopping = "done", ~late, NEW k \in Key
               PROVE  provider[k] \in {"none", "closed"} /\ Pending(k) = 0
    BY DEF ShutdownStopsProviders
  <2>1. TypeOK /\ Quiescent /\ Stopped
    BY <1>2 DEF InK6Shutdown, ShutdownInv, FlushInv
  <2>2. provider[k] \in {"none", "closed"}
    BY <2>1 DEF Stopped
  <2>3. provider[k] = "none" => Pending(k) = 0
    BY <2>1 DEF Quiescent, TypeOK, QueuesOK, Pending
  <2> QED
    BY <2>1, <2>2, <2>3 DEF Stopped
<1>3. InK6Shutdown => ShutdownServes
  BY <1>1, <1>2 DEF ShutdownServes
<1> QED
  BY <1>3, InK6ShutdownAlways, PTL

-----------------------------------------------------------------------------
(***************************************************************************)
(* The counters.  A sum over services is the number of units it counts:    *)
(* that number satisfies the recursion of the sum, and so does nothing     *)
(* else.                                                                   *)
(***************************************************************************)
\* Counts of records by provider, and one of them with n more for k.
Counts == [Key -> Nat]
Plus(f, k, n) == [f EXCEPT ![k] = @ + n]

\* Unit i of provider <<s, j>>, for j in T: pairs <<j, i>> with i < f[<<s, j>>].
Units(s, f, T) == {u \in T \X Nat : u[2] < f[<<s, u[1]>>]}

LEMMA UnitsStep ==
  ASSUME NEW s \in Signals, NEW f \in Counts, NEW T \in SUBSET Services, NEW x \in T,
         IsFiniteSet(Units(s, f, T \ {x}))
  PROVE  /\ IsFiniteSet(Units(s, f, T))
         /\ Cardinality(Units(s, f, T)) = f[<<s, x>>] + Cardinality(Units(s, f, T \ {x}))
<1> DEFINE n == f[<<s, x>>]
           U == Units(s, f, T \ {x})
           V == {x} \X (0 .. n - 1)
<1>1. n \in Nat
  BY DEF Key, Counts
<1>2. IsFiniteSet({x}) /\ Cardinality({x}) = 1
  BY FS_Singleton
<1>3. IsFiniteSet(0 .. n - 1) /\ Cardinality(0 .. n - 1) = n
  <2>1. n - 1 \in Int /\ 0 \in Int
    BY <1>1
  <2> HIDE DEF n
  <2> QED
    BY <1>1, <2>1, FS_Interval
<1>4. IsFiniteSet(V) /\ Cardinality(V) = n
  <2>1. IsFiniteSet(V) /\ Cardinality(V) = 1 * n
    BY <1>2, <1>3, FS_Product, Zenon
  <2> HIDE DEF V, n
  <2> QED
    BY <1>1, <2>1
<1>5. Units(s, f, T) = U \cup V
  <2>1. ASSUME NEW u \in T \X Nat, u[2] < f[<<s, u[1]>>]
        PROVE  u \in U \cup V
    BY <1>1, <2>1 DEF Units
  <2>2. ASSUME NEW u \in V
        PROVE  u \in T \X Nat /\ u[2] < f[<<s, u[1]>>]
    BY <1>1, <2>2
  <2>3. U \subseteq Units(s, f, T)
    BY DEF Units
  <2> QED
    BY <2>1, <2>2, <2>3 DEF Units
<1>6. U \cap V = {}
  BY DEF Units
<1> HIDE DEF U, V, n
<1>7. /\ IsFiniteSet(U \cup V)
      /\ Cardinality(U \cup V) = Cardinality(U) + Cardinality(V) - Cardinality(U \cap V)
  BY <1>4, FS_Union DEF U
<1>8. Cardinality(U \cap V) = 0 /\ Cardinality(U) \in Nat
  BY <1>6, FS_EmptySet, FS_CardinalityType DEF U
<1> QED
  BY <1>1, <1>4, <1>5, <1>7, <1>8 DEF U, n

\* Sets of services are well-founded: a family of them has a least member.
LEMMA LeastServices ==
  ASSUME NEW B, B \subseteq SUBSET Services, B # {}
  PROVE  \E T \in B : \A x \in T : T \ {x} \notin B
<1> DEFINE R == StrictSubsetOrdering(Services)
           F == FiniteSubsetsOf(Services)
<1>1. B \subseteq F
  BY PipelineAssumption, FS_Subset DEF FiniteSubsetsOf
<1>2. IsWellFoundedOn(R, F)
  BY FS_StrictSubsetOrderingWellFounded
<1>3. \A T \in B : \A x \in T : <<T \ {x}, T>> \in R
  BY DEF StrictSubsetOrdering
<1> HIDE DEF R, F
<1>4. PICK T \in B : \A y \in B : ~(<<y, T>> \in R)
  BY <1>1, <1>2, WFMin, Zenon
<1> QED
  BY <1>3, <1>4

LEMMA UnitsFinite ==
  ASSUME NEW s \in Signals, NEW f \in Counts, NEW T \in SUBSET Services
  PROVE  IsFiniteSet(Units(s, f, T))
<1> DEFINE B == {S \in SUBSET Services : ~IsFiniteSet(Units(s, f, S))}
<1> SUFFICES ASSUME B # {} PROVE FALSE
  OBVIOUS
<1>1. PICK S \in B : \A x \in S : S \ {x} \notin B
  BY LeastServices
<1>2. CASE S = {}
  <2>1. Units(s, f, S) = {}
    BY <1>2 DEF Units
  <2> QED
    BY <1>1, <2>1, FS_EmptySet
<1>3. ASSUME NEW x \in S PROVE FALSE
  <2>1. IsFiniteSet(Units(s, f, S \ {x}))
    BY <1>1, <1>3
  <2> QED
    BY <1>1, <2>1, UnitsStep
<1> QED
  BY <1>2, <1>3

\* The recursion behind Total(s, f): g[T] is the sum over the services in T.
Adds(s, f, g) ==
  g = [T \in SUBSET Services |->
         IF T = {} THEN 0
                   ELSE LET x == CHOOSE x \in T : TRUE IN f[<<s, x>>] + g[T \ {x}]]

LEMMA UnitsAdd ==
  ASSUME NEW s \in Signals, NEW f \in Counts
  PROVE  Adds(s, f, [T \in SUBSET Services |-> Cardinality(Units(s, f, T))])
<1> DEFINE g == [T \in SUBSET Services |-> Cardinality(Units(s, f, T))]
<1>1. ASSUME NEW T \in SUBSET Services, T = {}
      PROVE  g[T] = 0
  <2>1. Units(s, f, T) = {}
    BY <1>1 DEF Units
  <2> QED
    BY <2>1, FS_EmptySet
<1>2. ASSUME NEW T \in SUBSET Services, NEW x \in T
      PROVE  g[T] = f[<<s, x>>] + g[T \ {x}]
  <2>1. IsFiniteSet(Units(s, f, T \ {x})) /\ T \ {x} \in SUBSET Services
    BY UnitsFinite
  <2> QED
    BY <2>1, UnitsStep
<1>3. g = [T \in SUBSET Services |-> g[T]]
  OBVIOUS
<1> HIDE DEF g
<1>4. ASSUME NEW T \in SUBSET Services
      PROVE  g[T] = IF T = {} THEN 0
                    ELSE LET x == CHOOSE x \in T : TRUE IN f[<<s, x>>] + g[T \ {x}]
  <2>1. CASE T = {}
    BY <1>1, <2>1
  <2>2. CASE T # {}
    <3> DEFINE x == CHOOSE x \in T : TRUE
    <3>1. x \in T
      BY <2>2
    <3>2. g[T] = f[<<s, x>>] + g[T \ {x}]
      BY <1>2, <3>1
    <3> QED
      BY <2>2, <3>2
  <2> QED
    BY <2>1, <2>2
<1>5. g = [T \in SUBSET Services |->
             IF T = {} THEN 0
                       ELSE LET x == CHOOSE x \in T : TRUE IN f[<<s, x>>] + g[T \ {x}]]
  BY <1>3, <1>4
<1> QED
  BY <1>5 DEF Adds, g

LEMMA AddsUnique ==
  ASSUME NEW s \in Signals, NEW f \in Counts,
         NEW g, Adds(s, f, g), NEW h, Adds(s, f, h)
  PROVE  g[Services] = h[Services]
<1> DEFINE B == {T \in SUBSET Services : g[T] # h[T]}
<1> SUFFICES ASSUME B # {} PROVE FALSE
  OBVIOUS
<1>1. PICK T \in B : \A x \in T : T \ {x} \notin B
  BY LeastServices
<1> DEFINE y == CHOOSE x \in T : TRUE
<1>2. /\ g[T] = IF T = {} THEN 0 ELSE f[<<s, y>>] + g[T \ {y}]
      /\ h[T] = IF T = {} THEN 0 ELSE f[<<s, y>>] + h[T \ {y}]
  BY <1>1 DEF Adds
<1>3. T # {}
  BY <1>1, <1>2
<1>4. y \in T
  BY <1>3
<1> HIDE DEF y
<1>5. g[T \ {y}] = h[T \ {y}]
  BY <1>1, <1>4
<1> QED
  BY <1>1, <1>2, <1>3, <1>5

LEMMA TotalCounts ==
  ASSUME NEW s \in Signals, NEW f \in Counts
  PROVE  /\ Total(s, f) = Cardinality(Units(s, f, Services))
         /\ Total(s, f) \in Nat
<1> DEFINE g == CHOOSE g : Adds(s, f, g)
           h == [T \in SUBSET Services |-> Cardinality(Units(s, f, T))]
<1>1. Adds(s, f, h)
  BY UnitsAdd
<1>2. Adds(s, f, g)
  <2>1. \E e : Adds(s, f, e)
    BY <1>1, Zenon
  <2> QED
    BY <2>1, Zenon
<1>3. Total(s, f) = g[Services]
  BY DEF Total, MapThenSumSet, MapThenFoldSet, Adds
<1>4. h[Services] = Cardinality(Units(s, f, Services))
  OBVIOUS
<1> HIDE DEF g, h
<1>5. g[Services] = h[Services]
  BY <1>1, <1>2, AddsUnique
<1>6. IsFiniteSet(Units(s, f, Services))
  BY UnitsFinite
<1> QED
  BY <1>3, <1>4, <1>5, <1>6, FS_CardinalityType

\* A sum grows by what is added to one of its terms.
LEMMA TotalWithout ==
  ASSUME NEW s \in Signals, NEW f \in Counts, NEW j \in Services
  PROVE  /\ Total(s, f) = f[<<s, j>>] + Cardinality(Units(s, f, Services \ {j}))
         /\ Cardinality(Units(s, f, Services \ {j})) \in Nat
<1> DEFINE T == Services \ {j}
<1>1. IsFiniteSet(Units(s, f, T))
  BY UnitsFinite
<1>2. Cardinality(Units(s, f, Services)) = f[<<s, j>>] + Cardinality(Units(s, f, T))
  BY <1>1, UnitsStep
<1> QED
  BY <1>1, <1>2, TotalCounts, FS_CardinalityType

LEMMA TotalGrows ==
  ASSUME NEW s \in Signals, NEW f \in Counts, NEW k \in Key, NEW n \in Nat
  PROVE  Total(s, Plus(f, k, n)) = Total(s, f) + IF k[1] = s THEN n ELSE 0
<1> DEFINE e == Plus(f, k, n)
           j == k[2]
<1> SUFFICES Total(s, e) = Total(s, f) + IF k[1] = s THEN n ELSE 0
  OBVIOUS
<1>1. e \in Counts /\ f[k] \in Nat /\ k \in DOMAIN f
  BY DEF Counts, Plus
<1>2. \A i \in Key : e[i] = IF i = k THEN f[k] + n ELSE f[i]
  BY <1>1 DEF Counts, Plus
<1>3. k = <<k[1], j>> /\ j \in Services
  BY DEF Key
<1> HIDE DEF e, j
<1>4. CASE k[1] # s
  <2>1. \A x \in Services : e[<<s, x>>] = f[<<s, x>>]
    BY <1>2, <1>3, <1>4 DEF Key
  <2>2. Units(s, e, Services) = Units(s, f, Services)
    BY <2>1 DEF Units
  <2>3. Total(s, e) = Total(s, f)
    BY <1>1, <2>2, TotalCounts
  <2>4. Total(s, f) \in Nat
    BY TotalCounts
  <2> QED
    BY <1>4, <2>3, <2>4
<1>5. CASE k[1] = s
  <2> DEFINE T == Services \ {j}
  <2>1. \A x \in T : e[<<s, x>>] = f[<<s, x>>]
    BY <1>2, <1>3 DEF Key
  <2>2. Units(s, e, T) = Units(s, f, T)
    BY <2>1 DEF Units
  <2>3. Total(s, e) = e[<<s, j>>] + Cardinality(Units(s, e, T))
    BY <1>1, <1>3, TotalWithout
  <2>4. /\ Total(s, f) = f[<<s, j>>] + Cardinality(Units(s, f, T))
        /\ Cardinality(Units(s, f, T)) \in Nat
    BY <1>3, TotalWithout
  <2>5. e[<<s, j>>] = f[<<s, j>>] + n /\ f[<<s, j>>] \in Nat
    BY <1>1, <1>2, <1>3, <1>5
  <2> HIDE DEF T
  <2> QED
    BY <1>5, <2>2, <2>3, <2>4, <2>5
<1> QED
  BY <1>4, <1>5

LEMMA TotalZero ==
  ASSUME NEW s \in Signals
  PROVE  Total(s, NoRecords) = 0
<1>1. NoRecords \in Counts
  BY DEF NoRecords, Counts
<1>2. Units(s, NoRecords, Services) = {}
  <2>1. \A x \in Services : NoRecords[<<s, x>>] = 0
    BY DEF NoRecords, Key
  <2> QED
    BY <2>1 DEF Units
<1> QED
  BY <1>1, <1>2, TotalCounts, FS_EmptySet

\* The counters move only with a batch.
LEMMA CountersStay ==
  ASSUME [Next]_vars, \A k \in Key : ~ExportBatch(k)
  PROVE  UNCHANGED <<taken, lost, exported, failed>>
<1> USE DEF queues, stats
<1>1. CASE Build \/ Synthesizer
  BY <1>1 DEF Build, BuildStage, BuildFails, Synthesizer, Measure, ProviderForService, Accept
<1>2. CASE Processors
  BY <1>2 DEF Processors, ReaderTick, ProviderStopped
<1>3. ASSUME NEW c \in Callers, ForceFlush(c)
      PROVE  UNCHANGED <<taken, lost, exported, failed>>
  BY <1>3 DEF ForceFlush, BeginFlush, FlushDefaults, ProviderFlushed, FlushReturns,
              FlushExpires, FlushProvider
<1>4. CASE Shutdown
  BY <1>4 DEF Shutdown, BeginShutdown, ShutdownTracer, ShutdownMeter, ShutdownLogger,
              ShutdownExpires, ShutdownReturns, StopProvider, GiveUpProvider
<1> QED
  BY <1>1, <1>2, <1>3, <1>4 DEF Next, vars

\* A closed exporter stays closed.
LEMMA ClosedStays ==
  ASSUME TypeOK, [Next]_vars, NEW s \in Signals, Open(s)'
  PROVE  Open(s)
<1>1. s \in Exporter /\ closes \in [Exporter -> Nat]
  BY PipelineAssumption DEF TypeOK, Exporter
<1>2. ASSUME NEW x, closes' = CloseOnce(x) PROVE Open(s)
  BY <1>1, <1>2 DEF CloseOnce, Open
<1>3. CASE BuildFails
  BY <1>1, <1>3 DEF BuildFails, Open
<1>4. CASE UNCHANGED closes
  BY <1>4 DEF Open
<1>5. CASE BuildStage \/ Synthesizer
  BY <1>4, <1>5 DEF BuildStage, Synthesizer, Measure, ProviderForService, Accept
<1>6. CASE Processors
  BY <1>2, <1>4, <1>6 DEF Processors, ReaderTick, ProviderStopped, ExportBatch
<1>7. ASSUME NEW c \in Callers, ForceFlush(c) PROVE Open(s)
  BY <1>4, <1>7 DEF ForceFlush, BeginFlush, FlushDefaults, ProviderFlushed, FlushReturns,
                    FlushExpires, FlushProvider
<1>8. CASE ShutdownMeter
  BY <1>1, <1>8 DEF ShutdownMeter, Open
<1>9. CASE Shutdown /\ ~ShutdownMeter
  BY <1>2, <1>4, <1>9
  DEF Shutdown, BeginShutdown, ShutdownTracer, ShutdownLogger, ShutdownExpires,
      ShutdownReturns, StopProvider, GiveUpProvider
<1> QED
  BY <1>3, <1>4, <1>5, <1>6, <1>7, <1>8, <1>9 DEF Next, Build, vars

LEMMA StatsStep ==
  ASSUME TypeOK, StatsExact, [Next]_vars
  PROVE  StatsExact'
<1> SUFFICES ASSUME NEW s \in Signals, Open(s)'
             PROVE  /\ exported'[s] = Total(s, taken') - Total(s, lost')
                    /\ failed'[s] <= Total(s, lost')
                    /\ Total(s, lost') <= failed'[s] * BatchSize
  BY DEF StatsExact
<1>1. /\ exported[s] = Total(s, taken) - Total(s, lost)
      /\ failed[s] <= Total(s, lost) /\ Total(s, lost) <= failed[s] * BatchSize
      /\ Open(s)
  BY ClosedStays DEF StatsExact
<1>2. CASE \A k \in Key : ~ExportBatch(k)
  BY <1>1, <1>2, CountersStay
<1>3. ASSUME NEW k \in Key, ExportBatch(k)
      PROVE  /\ exported'[s] = Total(s, taken') - Total(s, lost')
             /\ failed'[s] <= Total(s, lost')
             /\ Total(s, lost') <= failed'[s] * BatchSize
  <2> DEFINE n == BatchOf(k)
  <2>1. n \in Nat /\ 1 <= n /\ n <= BatchSize /\ k[1] \in Signals /\ BatchSize \in Nat
    BY <1>3, BatchTyped, PipelineAssumption DEF ExportBatch, BatchOf, TypeOK, QueuesOK, Pending
  <2>2. taken' = [taken EXCEPT ![k] = @ + n]
    BY <1>3 DEF ExportBatch
  <2>3. /\ taken \in [Key -> Nat] /\ lost \in [Key -> Nat]
        /\ exported \in [Signals -> Nat] /\ failed \in [Signals -> Nat]
    BY DEF TypeOK, QueuesOK
  <2>4. \/ Open(k[1]) /\ exported' = [exported EXCEPT ![k[1]] = @ + n] /\ UNCHANGED <<failed, lost>>
        \/ /\ Open(k[1]) /\ UNCHANGED exported
           /\ lost' = [lost EXCEPT ![k] = @ + n] /\ failed' = [failed EXCEPT ![k[1]] = @ + 1]
        \/ /\ ~Open(k[1]) /\ lost' = [lost EXCEPT ![k] = @ + n]
           /\ exported' \in {exported, [exported EXCEPT ![k[1]] = @ + n]}
           /\ failed' \in {failed, [failed EXCEPT ![k[1]] = @ + 1]}
    BY <1>3 DEF ExportBatch, Delivered, Refused, AfterClose
  <2> HIDE DEF n
  <2>5. /\ Total(s, taken') = Total(s, taken) + (IF k[1] = s THEN n ELSE 0)
        /\ lost' = [lost EXCEPT ![k] = @ + n] =>
             Total(s, lost') = Total(s, lost) + (IF k[1] = s THEN n ELSE 0)
        /\ Total(s, taken) \in Nat /\ Total(s, lost) \in Nat
    <3>1. n \in Nat /\ taken \in Counts /\ lost \in Counts
      BY <2>1, <2>3 DEF Counts
    <3>2. Total(s, Plus(taken, k, n)) = Total(s, taken) + (IF k[1] = s THEN n ELSE 0)
      BY <3>1, TotalGrows
    <3>3. Total(s, Plus(lost, k, n)) = Total(s, lost) + (IF k[1] = s THEN n ELSE 0)
      BY <3>1, TotalGrows
    <3>4. Total(s, taken) \in Nat /\ Total(s, lost) \in Nat
      BY <3>1, TotalCounts
    <3> QED
      BY <2>2, <3>2, <3>3, <3>4 DEF Plus
  <2>6. CASE k[1] # s
    <3>1. exported'[s] = exported[s] /\ failed'[s] = failed[s]
      BY <2>1, <2>3, <2>4, <2>6
    <3> QED
      BY <1>1, <2>4, <2>5, <2>6, <3>1
  <2>7. CASE k[1] = s /\ UNCHANGED <<failed, lost>>
    BY <1>1, <2>1, <2>3, <2>4, <2>5, <2>7
  <2>8. CASE k[1] = s /\ lost' = [lost EXCEPT ![k] = @ + n]
    <3>1. exported' = exported \/ Total(s, lost') = Total(s, lost)
      BY <1>1, <2>4, <2>8
    <3>2. CASE exported' = exported /\ failed' = [failed EXCEPT ![s] = @ + 1]
      <4>1. failed'[s] = failed[s] + 1 /\ failed[s] \in Nat
        BY <2>3, <3>2
      <4>2. failed'[s] * BatchSize = failed[s] * BatchSize + BatchSize
        BY <2>1, <4>1
      <4>3. failed[s] * BatchSize \in Nat
        BY <2>1, <4>1
      <4>4. Total(s, lost') = Total(s, lost) + n /\ Total(s, taken') = Total(s, taken) + n
        BY <2>5, <2>8
      <4> QED
        BY <1>1, <2>1, <2>3, <2>5, <3>2, <4>1, <4>2, <4>3, <4>4
    <3> QED
      BY <1>1, <2>1, <2>3, <2>4, <2>5, <2>8, <3>1, <3>2
  <2> QED
    BY <1>1, <2>4, <2>6, <2>7, <2>8
<1> QED
  BY <1>2, <1>3

\* StatsExact of every reachable state: while an exporter is open, the counters of
\* its signal (tracingExporter, loggingExporter in stats.go) say exactly how many
\* records of all services went out, and bound how many did not.
THEOREM StatsExactCorrect == Spec => []StatsExact
<1>1. Init => StatsExact
  <2> SUFFICES ASSUME Init, NEW s \in Signals
               PROVE  /\ exported[s] = Total(s, taken) - Total(s, lost)
                      /\ failed[s] <= Total(s, lost) /\ Total(s, lost) <= failed[s] * BatchSize
    BY DEF StatsExact
  <2>1. exported[s] = 0 /\ failed[s] = 0 /\ taken = NoRecords /\ lost = NoRecords
    BY DEF Init
  <2> QED
    BY <2>1, TotalZero, PipelineAssumption
<1> QED
  BY <1>1, StatsStep, TypeCorrect, PTL DEF Spec

=============================================================================
