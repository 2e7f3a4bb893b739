----------------------------- MODULE SynthSpans -----------------------------
(***************************************************************************)
(* The telemetry of attempts that run at the same time: the parallel       *)
(* branches of a VU's journey each fold the faults of an operation         *)
(* (journey/fault.go), begin its span, and finish and report it            *)
(* (journey/executor.go, messaging.go, synth/synthesizer.go) with the one  *)
(* engine and synthesizer of that VU.  Meanwhile the schedules of faults   *)
(* go on, and intensities are set: the engine allows that from any         *)
(* goroutine (journey/engine.go: "Safe for concurrent use").               *)
(*                                                                         *)
(* What follows an attempt - retries, recovery, the next operation - is    *)
(* the business of JourneyExec: here a worker goes on with any operation,  *)
(* and what runs below an open span is another worker's.                   *)
(***************************************************************************)
EXTENDS SpanAttributes, FiniteSets

CONSTANTS
  Workers,     \* goroutines that execute the branches
  Faults,      \* Schema.Faults, a sequence
  ErrorRate,   \* of each edge, in units of 1/Whole
  Timed,       \* edges with a timeout
  Cascades,    \* failures that a skipped operation takes over
  Telemetry,   \* of each place: events, metrics, updates and profile
  Whole,       \* a probability of 1
  MaxIntensity,
  MaxEvents    \* bound of the model: attempts begun, changes of an intensity and
               \* ticks of the clock, together

FaultKinds == {"crash", "latency_inflation", "disconnect", "error_rate_override"}
Conditions == {"always", "on_success", "on_error"}
Unset == -1

\* faultTargetString: the name a script uses, which for an edge leaves out the
\* protocol.
TargetName(t) ==
  <<t[1], CASE t[1] = "node" -> t[2]
            [] t[1] = "operation" -> OperationID(t[2])
            [] t[1] = "edge" -> EdgeName(t[2])>>
FaultSet == {Faults[i] : i \in DOMAIN Faults}
Targets == {TargetName(f.target) : f \in FaultSet}

FaultType ==
  [kind : FaultKinds, probability : 0..Whole, value : Nat, inflates : BOOLEAN,
   target : ({"node"} \X Services) \cup ({"operation"} \X Places)
              \cup ({"edge"} \X Edges),
   schedule : Seq([from : Nat, intensity : 0..MaxIntensity])]

ASSUME SynthAssumption ==
  /\ IsFiniteSet(Workers)
  /\ Whole \in Nat \ {0} /\ MaxIntensity \in Nat \ {0} /\ MaxEvents \in Nat
  /\ ErrorRate \in [Edges -> 0..Whole]
  /\ Timed \subseteq Edges
  /\ Cascades \subseteq [success : {FALSE}, code : Codes \ {200}, error : ErrorTypes]
  /\ Faults \in Seq(FaultType)
  /\ Telemetry \in
       [Places -> LET Item == [condition : Conditions, whenFault : FaultKinds]
                  IN [events : SUBSET Conditions, metrics : SUBSET Item,
                      updates : SUBSET Item, profile : SUBSET FaultKinds]]

VARIABLES
  \* the engine's
  intensity,   \* faultIntensity
  overrides,   \* targetFaultIntensities
  elapsed,     \* time since the engine started
  \* the synthesizer's
  cache,       \* staticSetCache, {} for a key it does not hold
  active,      \* the active-request counters, by attribute set
  work,        \* what each worker is at
  count        \* how many of the events of MaxEvents there were

engine == <<intensity, overrides, elapsed>>
vars == <<intensity, overrides, elapsed, cache, active, work, count>>

NoFault == [crashed |-> FALSE, disconnected |-> FALSE, errorRate |-> 0,
            inflated |-> FALSE]

\* What has been told of an operation: the status, exception event and attributes of
\* its span, its duration's point, its logs, and the custom telemetry of the
\* operation, each with the fault it watches and whether it took that as active.
NoSignals ==
  [status |-> "none", exception |-> FALSE, attrs |-> {}, point |-> {},
   pointAttrs |-> {}, severity |-> "none", logException |-> FALSE, events |-> {},
   metrics |-> {}, updates |-> {}, profile |-> {}]

Success == [success |-> TRUE, code |-> 200, error |-> ""]
Nodes ==
  [place : Entries, edge : {NoEdge}] \cup {[place |-> To[e], edge |-> e] : e \in Edges}
StaticSets == {BuildStaticSet(in) : in \in Inputs}
CacheKeys == {CacheKeyFor(in) : in \in Inputs}

\* A worker between two operations.  hit and muted are what the properties speak of:
\* the faults that affect its attempt, and the targets that have been at 0 since it
\* began.
Idle ==
  [pc |-> "idle", node |-> CHOOSE n \in Nodes : TRUE, publishing |-> FALSE,
   cascaded |-> FALSE, todo |-> {}, folded |-> NoFault, outcome |-> Success,
   finished |-> FALSE, signals |-> NoSignals, hit |-> {}, muted |-> {}]

Init ==
  /\ intensity = 1
  /\ overrides = [t \in Targets |-> Unset]
  /\ elapsed = 0
  /\ cache = [k \in CacheKeys |-> {}]
  /\ active = [a \in StaticSets |-> 0]
  /\ work = [w \in Workers |-> Idle]
  /\ count = 0

-----------------------------------------------------------------------------
(***************************************************************************)
(* Intensities: a script scales all faults or those of one target, and     *)
(* time passes.                                                            *)
(***************************************************************************)
SetFaultIntensity(x) ==
  /\ count < MaxEvents /\ count' = count + 1
  /\ intensity' = x
  /\ UNCHANGED <<overrides, elapsed, cache, active, work>>

SetFaultTargetIntensity(t, x) ==
  /\ count < MaxEvents /\ count' = count + 1
  /\ overrides' = [overrides EXCEPT ![t] = x]
  /\ work' = [w \in Workers |->
                [work[w] EXCEPT !.muted = IF x = 0 THEN @ ELSE @ \ {t}]]
  /\ UNCHANGED <<intensity, elapsed, cache, active>>

Tick ==
  /\ count < MaxEvents /\ count' = count + 1
  /\ elapsed' = elapsed + 1
  /\ UNCHANGED <<intensity, overrides, cache, active, work>>

\* scheduledFaultIntensity: that of the last point reached, before the first 0.
ScheduledIntensity(schedule) ==
  LET reached == {i \in DOMAIN schedule : \A j \in 1..i : schedule[j].from <= elapsed}
  IN IF reached = {} THEN 0 ELSE schedule[Cardinality(reached)].intensity

\* faultIntensityFor.
IntensityFor_scheduled_first(spec) ==  \* mutant
  IF spec.schedule # <<>> THEN ScheduledIntensity(spec.schedule)
  ELSE IF overrides[TargetName(spec.target)] # Unset
    THEN overrides[TargetName(spec.target)] ELSE intensity
IntensityFor(spec) ==
  IF overrides[TargetName(spec.target)] # Unset THEN overrides[TargetName(spec.target)]
  ELSE IF spec.schedule # <<>> THEN ScheduledIntensity(spec.schedule)
  ELSE intensity

-----------------------------------------------------------------------------
(***************************************************************************)
(* foldFaults.  Intensities are read fault by fault, while they change.    *)
(***************************************************************************)
ClampProbability_missing(v) == v  \* mutant
ClampProbability(v) == IF v > Whole THEN Whole ELSE v

\* faultActiveWithIntensity, or a draw against an error rate.
Draws(p) == IF p = 0 THEN {FALSE} ELSE IF p = Whole THEN {TRUE} ELSE BOOLEAN

\* ApplyFaults: the faults, by their index, of an operation's service, of its edge and
\* of its own, of the kinds that count there.
OverlayFaults(n) ==
  LET On(t, kinds) ==
        {i \in DOMAIN Faults : Faults[i].target = t /\ Faults[i].kind \in kinds}
  IN On(<<"node", n.place.service>>, {"crash", "latency_inflation"}) \cup
     On(<<"edge", n.edge>>, {"disconnect", "latency_inflation"}) \cup
     On(<<"operation", n.place>>, {"error_rate_override", "latency_inflation"})

\* foldFaults takes those of the service first and those of the operation last, each as
\* they are listed.
Stage == [node |-> 1, edge |-> 2, operation |-> 3]
Before(i, j) ==
  LET si == Stage[Faults[i].target[1]]
      sj == Stage[Faults[j].target[1]]
  IN si < sj \/ (si = sj /\ i < j)

Fold(f, spec, i, drawn) ==
  CASE spec.kind = "crash" -> [f EXCEPT !.crashed = @ \/ drawn]
    [] spec.kind = "disconnect" -> [f EXCEPT !.disconnected = @ \/ drawn]
    [] spec.kind = "latency_inflation" ->
         [f EXCEPT !.inflated = @ \/ (drawn /\ spec.inflates)]
    [] spec.kind = "error_rate_override" ->
         [f EXCEPT !.errorRate = ClampProbability(spec.value * i)]

Affects(spec, i, drawn) ==
  IF spec.kind = "error_rate_override" THEN spec.value * i > 0 ELSE drawn

\* executeSingleAttempt begins: the edge's own error rate counts unless an override
\* follows.
BeginAttempt(w, n) ==
  /\ work[w].pc = "idle"
  /\ count < MaxEvents /\ count' = count + 1
  /\ LET faults == OverlayFaults(n)
         e == n.edge
     IN work' = [work EXCEPT ![w] =
          [Idle EXCEPT !.pc = IF faults = {} THEN "begin" ELSE "fold",
                       !.node = n,
                       !.publishing = e # NoEdge /\ Protocol[e] = "messaging",
                       !.todo = faults,
                       !.folded.errorRate = IF e = NoEdge THEN 0 ELSE ErrorRate[e],
                       !.muted = {t \in Targets : overrides[t] = 0}]]
  /\ UNCHANGED <<engine, cache, active>>

\* executeCascadeAt: the operation is skipped and takes over a failure.
BeginCascade(w, n, o) ==
  /\ work[w].pc = "idle"
  /\ count < MaxEvents /\ count' = count + 1
  /\ work' = [work EXCEPT ![w] = [Idle EXCEPT !.pc = "begin", !.node = n,
                                              !.cascaded = TRUE, !.outcome = o]]
  /\ UNCHANGED <<engine, cache, active>>

AfterFold(r, next, drawn) ==
  LET spec == Faults[next]
      i == IntensityFor(spec)
      rest == r.todo \ {next}
  IN [r EXCEPT !.folded = Fold(@, spec, i, drawn), !.todo = rest,
               !.pc = IF rest = {} THEN "begin" ELSE "fold",
               !.hit = IF Affects(spec, i, drawn) THEN @ \cup {spec} ELSE @]

FoldFault(w) ==
  /\ work[w].pc = "fold"
  /\ \E next \in work[w].todo :
       LET spec == Faults[next]
       IN /\ \A j \in work[w].todo \ {next} : Before(next, j)
          /\ \E drawn \in Draws(ClampProbability(spec.probability * IntensityFor(spec))) :
               work' = [work EXCEPT ![w] = AfterFold(@, next, drawn)]
  /\ UNCHANGED <<engine, count, cache, active>>

-----------------------------------------------------------------------------
(***************************************************************************)
(* BeginSpan, of the operation or of the producer that publishes to it,    *)
(* and the function that finishes the span.                                *)
(***************************************************************************)
InputOf(w) ==
  LET n == work[w].node
  IN IF work[w].publishing THEN [place |-> From[n.edge], edge |-> n.edge] ELSE n

\* staticAttrs reads the cache, and puts what it built where it found nothing.  Later
\* calls for the same input find what BeginSpan put there.
LookupAttrs(w) ==
  /\ work[w].pc = "begin"
  /\ work' = [work EXCEPT ![w].pc =
                IF cache[CacheKeyFor(InputOf(w))] = {} THEN "put" ELSE "start"]
  /\ UNCHANGED <<engine, count, cache, active>>

PutAttrs(w) ==
  /\ work[w].pc = "put"
  /\ cache' = [cache EXCEPT ![CacheKeyFor(InputOf(w))] = BuildStaticSet(InputOf(w))]
  /\ work' = [work EXCEPT ![w].pc = "start"]
  /\ UNCHANGED <<engine, count, active>>

\* maybeIncActive.
AddActive(in, delta) ==
  IF CountsActive(in) THEN [active EXCEPT ![cache[CacheKeyFor(in)]] = @ + delta]
                      ELSE active

StartSpan(w) ==
  /\ work[w].pc = "start"
  /\ active' = AddActive(InputOf(w), 1)
  /\ work' = [work EXCEPT ![w].pc = "open"]
  /\ UNCHANGED <<engine, count, cache>>

\* emitMessagingProducerSpan records the publish duration and finishes its span; the
\* operation's own span follows.
FinishProducer(w) ==
  /\ work[w].pc = "open" /\ work[w].publishing
  /\ active' = AddActive(InputOf(w), -1)
  /\ work' = [work EXCEPT ![w].pc = "begin", ![w].publishing = FALSE]
  /\ UNCHANGED <<engine, count, cache>>

\* How an attempt may end: by a crash, else by a context that is done or a call that
\* takes too long - whenever either may be - else by a refused connection, else as
\* the error rate draws.
Outcomes(w) ==
  LET n == work[w].node
      f == work[w].folded
  IN IF work[w].cascaded THEN {work[w].outcome}
     ELSE IF f.crashed THEN {Failure(500, "crashed")}
     ELSE {Failure(0, "context_canceled")} \cup
          {TimeoutFailure(e) : e \in Timed \cap {n.edge}} \cup
          (IF f.disconnected THEN {Failure(503, "connection_refused")}
           ELSE {Result(n, failed) : failed \in Draws(f.errorRate)})

\* faultActiveForKind, on what this attempt has folded.
ActiveForKind_reread(w, kind) ==  \* mutant
  \E f \in FaultSet : f.kind = kind /\ IntensityFor(f) > 0
ActiveForKind(w, kind) ==
  CASE kind = "crash" -> work[w].folded.crashed
    [] kind = "disconnect" -> work[w].folded.disconnected
    [] kind = "latency_inflation" -> work[w].folded.inflated
    [] kind = "error_rate_override" -> work[w].folded.errorRate > 0

\* What is told of the kinds of faults that are watched.
Watched(w, kinds) ==
  {[whenFault |-> k, incident |-> ActiveForKind(w, k)] : k \in kinds}

\* finishAndEmitAt begins: it chooses the profile's stacks before it finishes the span.
DecideOutcome(w) ==
  /\ work[w].pc = "open" /\ ~work[w].publishing
  /\ \E o \in Outcomes(w) :
       work' = [work EXCEPT ![w].pc = "finish", ![w].outcome = o,
                  ![w].signals.profile =
                    Watched(w, Telemetry[work[w].node.place].profile)]
  /\ UNCHANGED <<engine, count, cache, active>>

\* The finish function: only its first call has an effect.
EndSpan_each_time(w) ==  \* mutant
  LET o == work[w].outcome
      n == work[w].node
  IN /\ active' = AddActive(n, -1)
     /\ work' = [work EXCEPT ![w].pc = "record", ![w].finished = TRUE,
                   ![w].signals = [@ EXCEPT !.status = StatusFor(n, o),
                                            !.exception = ~o.success,
                                            !.attrs = DynamicOutcomeAttrs(n, o)]]
EndSpan(w) ==
  LET o == work[w].outcome
      n == work[w].node
  IN IF work[w].finished THEN UNCHANGED <<active, work>>
     ELSE /\ active' = AddActive(n, -1)
          /\ work' = [work EXCEPT ![w].pc = "record", ![w].finished = TRUE,
                        ![w].signals = [@ EXCEPT !.status = StatusFor(n, o),
                                                 !.exception = ~o.success,
                                                 !.attrs = DynamicOutcomeAttrs(n, o)]]

\* The engine calls it once; a caller that calls it again does no harm.
FinishSpan(w) ==
  /\ work[w].pc \in {"finish", "record"}
  /\ EndSpan(w)
  /\ UNCHANGED <<engine, count, cache>>

-----------------------------------------------------------------------------
(***************************************************************************)
(* The rest of finishAndEmitAt.                                            *)
(***************************************************************************)
\* logEventMatches.
Matches(condition, o) ==
  \/ condition = "always"
  \/ condition = "on_success" /\ o.success
  \/ condition = "on_error" /\ ~o.success

\* RecordMetric and EmitLog, the latter also for the operation's events.
Report(w) ==
  LET o == work[w].outcome
      n == work[w].node
  IN /\ work[w].pc = "record"
     /\ work' = [work EXCEPT ![w].pc = "custom",
          ![w].signals = [@ EXCEPT !.point = cache[CacheKeyFor(n)],
                                   !.pointAttrs = DynamicOutcomeAttrs(n, o),
                                   !.severity = IF o.success THEN "info" ELSE "error",
                                   !.logException = ~o.success /\ o.error # "",
                                   !.events = {c \in Telemetry[n.place].events :
                                               Matches(c, o)}]]
     /\ UNCHANGED <<engine, count, cache, active>>

\* What a declared metric, or state update, tells of the fault it watches.
Incidents(w, items) ==
  Watched(w, {m.whenFault : m \in {x \in items : Matches(x.condition, work[w].outcome)}})

RecordCustom(w) ==
  /\ work[w].pc = "custom"
  /\ work' = [work EXCEPT ![w].pc = "state",
                ![w].signals.metrics =
                  Incidents(w, Telemetry[work[w].node.place].metrics)]
  /\ UNCHANGED <<engine, count, cache, active>>

\* UpdateState, and the profile goes out.
UpdateState(w) ==
  /\ work[w].pc = "state"
  /\ work' = [work EXCEPT ![w].pc = "done",
                ![w].signals.updates =
                  Incidents(w, Telemetry[work[w].node.place].updates)]
  /\ UNCHANGED <<engine, count, cache, active>>

ReturnOutcome(w) ==
  /\ work[w].pc = "done"
  /\ work' = [work EXCEPT ![w] = Idle]
  /\ UNCHANGED <<engine, count, cache, active>>

-----------------------------------------------------------------------------
Attempt(w) ==
  \/ \E n \in Nodes : BeginAttempt(w, n) \/ \E o \in Cascades : BeginCascade(w, n, o)
  \/ FoldFault(w)

Span(w) ==
  \/ LookupAttrs(w) \/ PutAttrs(w) \/ StartSpan(w) \/ FinishProducer(w)
  \/ DecideOutcome(w) \/ FinishSpan(w)

Emit(w) == Report(w) \/ RecordCustom(w) \/ UpdateState(w) \/ ReturnOutcome(w)

Script ==
  \/ Tick
  \/ \E x \in 0..MaxIntensity :
       SetFaultIntensity(x) \/ \E t \in Targets : SetFaultTargetIntensity(t, x)

Next ==
  \/ Script
  \/ \E w \in Workers : Attempt(w) \/ Span(w) \/ Emit(w)

Spec == Init /\ [][Next]_vars

-----------------------------------------------------------------------------
DynamicAttrs ==
  {"http.response.status_code", "rpc.grpc.status_code"} \X Codes
    \cup {"error.type"} \X ErrorTypes
Incident == [whenFault : FaultKinds, incident : BOOLEAN]
Folds ==
  [crashed : BOOLEAN, disconnected : BOOLEAN, errorRate : 0..Whole, inflated : BOOLEAN]
OutcomeSet ==
  [success : {TRUE}, code : {200}, error : {""}]
    \cup [success : {FALSE}, code : Codes \ {200}, error : ErrorTypes]
SignalSet ==
  [status : {"none", "Error", "Unset"}, exception : BOOLEAN, attrs : SUBSET DynamicAttrs,
   point : StaticSets \cup {{}}, pointAttrs : SUBSET DynamicAttrs,
   severity : {"none", "info", "error"}, logException : BOOLEAN,
   events : SUBSET Conditions, metrics : SUBSET Incident, updates : SUBSET Incident,
   profile : SUBSET Incident]
WorkSet ==
  [pc : {"idle", "fold", "begin", "put", "start", "open", "finish", "record", "custom",
         "state", "done"},
   node : Nodes, publishing : BOOLEAN, cascaded : BOOLEAN, todo : SUBSET DOMAIN Faults,
   folded : Folds, outcome : OutcomeSet, finished : BOOLEAN, signals : SignalSet,
   hit : SUBSET FaultSet, muted : SUBSET Targets]

\* The types of the state: what a fold leaves is a probability, a span is published
\* only for a messaging edge, and the cache holds static sets only.
TypeOK ==
  /\ intensity \in 0..MaxIntensity
  /\ overrides \in [Targets -> {Unset} \cup 0..MaxIntensity]
  /\ elapsed \in Nat
  /\ cache \in [CacheKeys -> StaticSets \cup {{}}]
  /\ active \in [StaticSets -> Int]
  /\ work \in [Workers -> WorkSet]
  /\ \A w \in Workers : /\ InputOf(w) \in Inputs
                        /\ work[w].pc = "fold" => work[w].todo # {}
  /\ count \in 0..MaxEvents

\* No name holds the arrow that joins the two ends of an edge.
Arrowless ==
  \A p \in Places : \A name \in {p.service, p.name} :
    \A i \in DOMAIN name : name[i] # "->"

\* The inputs whose attributes an input may get.  An entry and the receiving end of a
\* call get their own.  On the calling end the key holds the callee only as a dotted
\* name, which two callees may share.
Alike(in) ==
  IF in.edge = NoEdge \/ PolicyFor(in).direction \in {"server", "consumer"} THEN {in}
  ELSE {j \in Inputs :
          /\ j.edge # NoEdge
          /\ j.place = in.place /\ PolicyFor(j) = PolicyFor(in)
          /\ Protocol[j.edge] = Protocol[in.edge]
          /\ Arrowless => OperationID(To[j.edge]) = OperationID(To[in.edge])}
Given(in) == {BuildStaticSet(j) : j \in Alike(in)}

\* Entries that would give an input what it must not get.
WrongEntries ==
  UNION {{CacheKeyFor(in)} \X (StaticSets \ Given(in)) : in \in Inputs}

\* Whichever operation filled an entry of the cache, an operation that finds it gets
\* the attributes of its own place, side and protocol; and its own callee's, unless it
\* is the calling end and the dotted name of that callee is another's too ("a.b" and
\* "c", "a" and "b.c"): then they may be that other's.
CacheSound ==
  \A k \in CacheKeys : <<k, cache[k]>> \notin WrongEntries

\* The counters of active requests count the open server spans, under the attributes
\* of each, also when the cache is filled while a span is open and when a span's
\* finish function is called again (synth/synthesizer_test.go,
\* TestFinishSpanFunc_DoubleCall_NoOp).
ActiveExact ==
  \A a \in StaticSets :
    active[a] = Cardinality({w \in Workers :
      /\ work[w].pc \in {"open", "finish"}
      /\ CountsActive(InputOf(w)) /\ BuildStaticSet(InputOf(w)) = a})

\* All that is told of an operation tells the same: span status, exception event,
\* error.type of span and metric, log severity and events, and the duration is recorded
\* under attributes that CacheSound allows its span.  The status of a gRPC call that
\* succeeds is the exception (GrpcSuccessUnset).
VerdictsAgree ==
  \A w \in Workers : work[w].pc = "done" =>
    LET s == work[w].signals
        failed == s.severity = "error"
        errors == {p \in s.attrs : p[1] = "error.type"}
    IN /\ s.status = "Error" <=> failed \/ PolicyFor(work[w].node).namespace = "rpc"
       /\ s.exception <=> failed
       /\ s.logException <=> failed
       /\ errors = {} <=> ~failed
       /\ s.pointAttrs = s.attrs /\ s.point \in Given(work[w].node)
       /\ "on_error" \in s.events => failed
       /\ "on_success" \in s.events => ~failed

\* The metrics, state updates and profile of an attempt tell the same of a fault, one
\* that has affected this attempt, although intensities change while it runs.
IncidentsAgree ==
  \A w \in Workers : work[w].pc = "done" =>
    LET s == work[w].signals
    IN \A x, y \in s.metrics \cup s.updates \cup s.profile :
         /\ x.whenFault = y.whenFault => x.incident = y.incident
         /\ x.incident /\ x.whenFault # "error_rate_override" =>
              \E f \in work[w].hit : f.kind = x.whenFault

\* A fault whose target a script has set to 0 affects no attempt that begins later,
\* whatever its schedule and setFaultIntensity say (docs/content/en/reference/
\* topology.md: the "target-specific override takes precedence").
SilencedStaysSilent ==
  \A w \in Workers : \A f \in work[w].hit : TargetName(f.target) \notin work[w].muted

\* What aidlc-docs/construction/u3-synth/functional-design/business-logic-model.md
\* says of the status of a gRPC call that succeeded: it is left unset.
GrpcSuccessUnset ==
  \A w \in Workers :
    work[w].pc = "done" /\ PolicyFor(work[w].node).namespace = "rpc"
      /\ work[w].outcome.success => work[w].signals.status = "Unset"

=============================================================================
