-------------------------- MODULE SynthSpansProofs --------------------------
(***************************************************************************)
(* The invariants of SynthSpans, for any topology, any number of workers   *)
(* and any faults.                                                         *)
(***************************************************************************)
EXTENDS SynthSpans, FiniteSetTheorems, TLAPS

-----------------------------------------------------------------------------
(***************************************************************************)
(* What the operators of the model return.                                 *)
(***************************************************************************)
\* The node of an operation, and the producer that publishes to it, are inputs of
\* BeginSpan.
LEMMA NodesAreInputs == Nodes \subseteq Inputs
  BY DEF Nodes, Inputs

LEMMA ProducersAreInputs ==
  ASSUME NEW e \in Edges, Protocol[e] = "messaging"
  PROVE  [place |-> From[e], edge |-> e] \in Inputs
  BY DEF Inputs

LEMMA InputTypes ==
  ASSUME NEW in \in Inputs
  PROVE  /\ in.place \in Places /\ in.place.service \in Services
         /\ in.edge \in Edges \cup {NoEdge}
  BY SpanAssumption DEF Inputs, Services

\* policyFor: a namespace, a side and the kind of span that goes with it.
LEMMA PolicyTypes ==
  ASSUME NEW in \in Inputs
  PROVE  /\ PolicyFor(in).namespace \in {"http", "rpc", "db", "messaging"}
         /\ PolicyFor(in).direction \in {"client", "server", "producer", "consumer"}
  <1>1. ServiceKind[in.place.service] \in Kinds
    BY InputTypes, SpanAssumption
  <1>2. ProtocolFor(in) \in {"http", "grpc", "messaging"}
    BY InputTypes, SpanAssumption DEF ProtocolFor
  <1>3. InferDirection(in) \in {"client", "server", "producer", "consumer"}
    BY DEF InferDirection
  <1>4. Namespace(in) \in {"http", "rpc", "db", "messaging"}
    BY <1>1, <1>2 DEF Namespace, Kinds
  <1> QED
    BY <1>3, <1>4 DEF PolicyFor

\* clampProbability returns a probability.
LEMMA Clamped ==
  ASSUME NEW v \in Nat
  PROVE  ClampProbability(v) \in 0..Whole
  BY SynthAssumption DEF ClampProbability

\* Each fault of the schema has the fields the engine reads.
LEMMA FaultTypes ==
  ASSUME NEW f \in FaultSet
  PROVE  /\ f.kind \in FaultKinds /\ TargetName(f.target) \in Targets
         /\ f.probability \in 0..Whole /\ f.value \in Nat /\ f.inflates \in BOOLEAN
         /\ f.schedule \in Seq([from : Nat, intensity : 0..MaxIntensity])
  <1>1. TargetName(f.target) \in Targets
    BY DEF Targets
  <1>2. PICK i \in DOMAIN Faults : f = Faults[i]
    BY DEF FaultSet
  <1>3. f \in FaultType
    BY <1>2, SynthAssumption
  <1> QED
    BY <1>1, <1>3 DEF FaultType

LEMMA FaultsInSet ==
  ASSUME NEW i \in DOMAIN Faults
  PROVE  Faults[i] \in FaultSet
  BY DEF FaultSet

LEMMA ElementType ==
  ASSUME NEW S, NEW s \in Seq(S), NEW i \in DOMAIN s
  PROVE  s[i] \in S
  OBVIOUS

\* scheduledFaultIntensity: that of a point of the schedule, or 0.
LEMMA ScheduledInRange ==
  ASSUME NEW schedule \in Seq([from : Nat, intensity : 0..MaxIntensity])
  PROVE  ScheduledIntensity(schedule) \in 0..MaxIntensity
  <1> DEFINE reached ==
        {i \in DOMAIN schedule : \A j \in 1..i : schedule[j].from <= elapsed}
  <1>1. CASE reached = {}
    BY <1>1, SynthAssumption DEF ScheduledIntensity
  <1>2. CASE reached # {}
    <2>1. Len(schedule) \in Nat /\ DOMAIN schedule = 1..Len(schedule)
      OBVIOUS
    <2>a. reached \subseteq 1..Len(schedule)
      BY <2>1
    <2>2. IsFiniteSet(1..Len(schedule)) /\ Cardinality(1..Len(schedule)) = Len(schedule)
      <3>1. \A n \in Nat : IsFiniteSet(1..n) /\ Cardinality(1..n) = n
        BY FS_Interval
      <3> QED
        BY <2>1, <3>1, Zenon
    <2>3. Cardinality(reached) <= Len(schedule) /\ IsFiniteSet(reached)
      BY <2>a, <2>2, FS_Subset
    <2>b. Cardinality(reached) \in Nat /\ Cardinality(reached) # 0
      BY <1>2, <2>3, FS_EmptySet, FS_CardinalityType
    <2> DEFINE n == Cardinality(reached)
    <2>4. n \in DOMAIN schedule
      BY <2>1, <2>3, <2>b
    <2> HIDE DEF n
    <2>5. schedule[n] \in [from : Nat, intensity : 0..MaxIntensity]
      BY <2>4, ElementType
    <2>6. schedule[n].intensity \in 0..MaxIntensity
      BY <2>5
    <2> QED
      BY <1>2, <2>6 DEF ScheduledIntensity, n
  <1> QED
    BY <1>1, <1>2

\* faultIntensityFor returns an intensity.
LEMMA IntensityInRange ==
  ASSUME TypeOK, NEW f \in FaultSet
  PROVE  IntensityFor(f) \in 0..MaxIntensity
  <1>1. ScheduledIntensity(f.schedule) \in 0..MaxIntensity
    BY FaultTypes, ScheduledInRange
  <1>2. overrides[TargetName(f.target)] \in {Unset} \cup 0..MaxIntensity
    BY FaultTypes DEF TypeOK
  <1> QED
    BY <1>1, <1>2 DEF IntensityFor, TypeOK

\* A fault folded into what is folded so far leaves the error rate a probability.
LEMMA FoldTypes ==
  ASSUME NEW f \in Folds, NEW spec \in FaultSet, NEW i \in 0..MaxIntensity,
         NEW drawn \in BOOLEAN
  PROVE  Fold(f, spec, i, drawn) \in Folds
  <1>1. spec.value * i \in Nat
    BY FaultTypes, SynthAssumption
  <1>2. ClampProbability(spec.value * i) \in 0..Whole
    BY <1>1, Clamped
  <1>3. spec.kind \in FaultKinds /\ spec.inflates \in BOOLEAN
    BY FaultTypes
  <1> QED
    BY <1>2, <1>3 DEF Fold, Folds, FaultKinds

\* Every outcome the engine reports is a success with 200, or a failure with another code
\* and a type.
LEMMA SuccessOutcome == [success |-> TRUE, code |-> 200, error |-> ""] \in OutcomeSet
  BY DEF OutcomeSet

LEMMA FailureOutcome ==
  ASSUME NEW code \in Codes \ {200}, NEW type \in ErrorTypes
  PROVE  [success |-> FALSE, code |-> code, error |-> type] \in OutcomeSet
  BY DEF OutcomeSet

LEMMA ResultTypes ==
  ASSUME NEW in \in Inputs, NEW failed \in BOOLEAN
  PROVE  Result(in, failed) \in OutcomeSet
  <1>1. DefaultFaultErrorType(in) \in {"db.connection_lost", "grpc.unavailable", "http.500"}
    BY DEF DefaultFaultErrorType
  <1> DEFINE type == DefaultFaultErrorType(in)
  <1> HIDE DEF type
  <1> DEFINE c == PickStatusCode(TRUE, type)
  <1> HIDE DEF c
  <1>2. c = 14 \/ c = 500
    BY DEF PickStatusCode, c
  <1>3. Result(in, TRUE) = [success |-> FALSE, code |-> c, error |-> type]
    BY DEF Result, type, c
  <1>4. Result(in, TRUE) \in OutcomeSet
    <2>1. type \in ErrorTypes
      BY <1>1 DEF type, ErrorTypes
    <2>2. 14 \in Codes \ {200} /\ 500 \in Codes \ {200}
      BY DEF Codes
    <2>3. c \in Codes \ {200}
      BY <1>2, <2>2
    <2> QED
      BY <1>3, <2>1, <2>3, FailureOutcome
  <1>5. Result(in, FALSE) = [success |-> TRUE, code |-> 200, error |-> ""]
    <2>1. \A t : PickStatusCode(FALSE, t) = 200
      BY DEF PickStatusCode
    <2> QED
      BY <2>1 DEF Result
  <1>6. Result(in, FALSE) \in OutcomeSet
    BY <1>5, SuccessOutcome
  <1> QED
    BY <1>4, <1>6

LEMMA OutcomeTypes ==
  ASSUME TypeOK, NEW w \in Workers
  PROVE  Outcomes(w) \subseteq OutcomeSet
  <1>1. work[w].outcome \in OutcomeSet /\ work[w].node \in Inputs
    BY NodesAreInputs DEF TypeOK, WorkSet
  <1>2. \A e \in Edges : TimeoutFailure(e) \in OutcomeSet
    BY DEF TimeoutFailure, Failure, OutcomeSet, ErrorTypes, Codes
  <1>3. /\ Failure(500, "crashed") \in OutcomeSet
        /\ Failure(0, "context_canceled") \in OutcomeSet
        /\ Failure(503, "connection_refused") \in OutcomeSet
    BY DEF Failure, OutcomeSet, ErrorTypes, Codes
  <1>4. \A failed \in BOOLEAN : Result(work[w].node, failed) \in OutcomeSet
    BY <1>1, ResultTypes
  <1>5. \A p : Draws(p) \subseteq BOOLEAN
    BY DEF Draws
  <1>6. Timed \subseteq Edges
    BY SynthAssumption
  <1>7. CASE work[w].cascaded
    BY <1>1, <1>7 DEF Outcomes
  <1>8. CASE ~work[w].cascaded /\ work[w].folded.crashed
    BY <1>3, <1>8 DEF Outcomes
  <1>9. CASE ~work[w].cascaded /\ ~work[w].folded.crashed
    <2> DEFINE D == Draws(work[w].folded.errorRate)
    <2>1. {Result(work[w].node, failed) : failed \in D} \subseteq OutcomeSet
      BY <1>4, <1>5
    <2>2. {TimeoutFailure(e) : e \in Timed \cap {work[w].node.edge}} \subseteq OutcomeSet
      BY <1>2, <1>6
    <2>3. Outcomes(w) = {Failure(0, "context_canceled")}
             \cup {TimeoutFailure(e) : e \in Timed \cap {work[w].node.edge}}
             \cup (IF work[w].folded.disconnected
                     THEN {Failure(503, "connection_refused")}
                     ELSE {Result(work[w].node, failed) : failed \in D})
      BY <1>9 DEF Outcomes
    <2> QED
      BY <1>3, <2>1, <2>2, <2>3
  <1> QED
    BY <1>7, <1>8, <1>9

\* statusFor and dynamicOutcomeAttrs.
LEMMA StatusTypes ==
  ASSUME NEW in, NEW o
  PROVE  StatusFor(in, o) \in {"Error", "Unset"}
  BY DEF StatusFor

LEMMA AttrTypes ==
  ASSUME NEW in, NEW o \in OutcomeSet
  PROVE  DynamicOutcomeAttrs(in, o) \in SUBSET DynamicAttrs
  <1>1. o.code \in Codes /\ (~o.success => o.error \in ErrorTypes)
    BY DEF OutcomeSet, Codes
  <1> DEFINE code == IF o.code = 0 THEN {} ELSE {o.code}
  <1> HIDE DEF code
  <1>2. code \subseteq Codes
    BY <1>1 DEF code
  <1>3. {<<"http.response.status_code", c>> : c \in code} \subseteq DynamicAttrs
    BY <1>2 DEF DynamicAttrs
  <1>4. {<<"rpc.grpc.status_code", c>> : c \in code} \subseteq DynamicAttrs
    BY <1>2 DEF DynamicAttrs
  <1>5. ~o.success => <<"error.type", o.error>> \in DynamicAttrs
    BY <1>1 DEF DynamicAttrs
  <1>6. \A p \in DynamicOutcomeAttrs(in, o) :
          \/ p \in {<<"http.response.status_code", c>> : c \in code}
          \/ p \in {<<"rpc.grpc.status_code", c>> : c \in code}
          \/ ~o.success /\ p = <<"error.type", o.error>>
    BY DEF DynamicOutcomeAttrs, code
  <1> QED
    BY <1>3, <1>4, <1>5, <1>6

\* What custom telemetry tells is of a kind of fault.
LEMMA TelemetryTypes ==
  ASSUME NEW p \in Places
  PROVE  /\ Telemetry[p].events \subseteq Conditions
         /\ \A m \in Telemetry[p].metrics \cup Telemetry[p].updates :
              m.whenFault \in FaultKinds
         /\ Telemetry[p].profile \subseteq FaultKinds
  BY SynthAssumption

LEMMA ActiveTypes ==
  ASSUME TypeOK, NEW w \in Workers, NEW kind \in FaultKinds
  PROVE  ActiveForKind(w, kind) \in BOOLEAN
  <1>1. work[w].folded \in Folds
    BY DEF TypeOK, WorkSet
  <1>2. /\ work[w].folded.crashed \in BOOLEAN /\ work[w].folded.disconnected \in BOOLEAN
        /\ work[w].folded.inflated \in BOOLEAN
    BY <1>1 DEF Folds
  <1>3. CASE kind = "crash"
    BY <1>2, <1>3 DEF ActiveForKind
  <1>4. CASE kind = "disconnect"
    BY <1>2, <1>4 DEF ActiveForKind
  <1>5. CASE kind = "latency_inflation"
    BY <1>2, <1>5 DEF ActiveForKind
  <1>6. CASE kind = "error_rate_override"
    <2> DEFINE rate == work[w].folded.errorRate
    <2>1. ActiveForKind(w, kind) <=> rate > 0
      BY <1>6 DEF ActiveForKind
    <2>2. ActiveForKind(w, kind) = (rate > 0)
      BY <1>6 DEF ActiveForKind
    <2>3. (rate > 0) \in BOOLEAN
      OBVIOUS
    <2> QED
      BY <2>2, <2>3
  <1> QED
    BY <1>3, <1>4, <1>5, <1>6 DEF FaultKinds

LEMMA IncidentTypes ==
  ASSUME TypeOK, NEW w \in Workers, NEW items, \A m \in items : m.whenFault \in FaultKinds
  PROVE  Incidents(w, items) \in SUBSET Incident
  BY ActiveTypes DEF Incidents, Watched, Incident

-----------------------------------------------------------------------------
(***************************************************************************)
(* Type correctness.                                                       *)
(***************************************************************************)
LEMMA IdleTypes == Idle \in WorkSet
  <1>a. PICK p \in Entries : TRUE
    BY SpanAssumption
  <1>b. [place |-> p, edge |-> NoEdge] \in Nodes
    BY DEF Nodes
  <1>1. (CHOOSE n \in Nodes : TRUE) \in Nodes
    BY <1>b
  <1>2. NoFault \in Folds
    BY SynthAssumption DEF NoFault, Folds
  <1>3. Success \in OutcomeSet
    BY DEF Success, OutcomeSet
  <1>4. NoSignals \in SignalSet
    BY DEF NoSignals, SignalSet
  <1> DEFINE n == CHOOSE n \in Nodes : TRUE
  <1> HIDE DEF n
  <1>5. n \in Nodes
    BY <1>1 DEF n
  <1>6. Idle = [pc |-> "idle", node |-> n, publishing |-> FALSE, cascaded |-> FALSE,
                todo |-> {}, folded |-> NoFault, outcome |-> Success, finished |-> FALSE,
                signals |-> NoSignals, hit |-> {}, muted |-> {}]
    BY DEF Idle, n
  <1> QED
    BY <1>2, <1>3, <1>4, <1>5, <1>6 DEF WorkSet

\* The operation a worker's record is at, as InputOf tells it.
InputFor(r) ==
  IF r.publishing THEN [place |-> From[r.node.edge], edge |-> r.node.edge] ELSE r.node

\* TypeOK, seen from a step that changes the record of one worker.
LEMMA WorkStep ==
  ASSUME TypeOK, NEW w \in Workers, NEW r \in WorkSet,
         work' = [work EXCEPT ![w] = r], InputFor(r) \in Inputs,
         r.pc = "fold" => r.todo # {}
  PROVE  /\ work' \in [Workers -> WorkSet]
         /\ \A v \in Workers : /\ InputOf(v)' \in Inputs
                               /\ work'[v].pc = "fold" => work'[v].todo # {}
  <1>1. work' \in [Workers -> WorkSet]
    BY DEF TypeOK
  <1>2. ASSUME NEW v \in Workers
        PROVE  InputOf(v)' \in Inputs /\ (work'[v].pc = "fold" => work'[v].todo # {})
    <2>1. CASE v = w
      <3>1. work'[v] = r
        BY <2>1 DEF TypeOK
      <3> QED
        BY <3>1 DEF InputOf, InputFor
    <2>2. CASE v # w
      <3>1. work'[v] = work[v]
        BY <2>2 DEF TypeOK
      <3>2. InputOf(v)' = InputOf(v)
        BY <3>1 DEF InputOf
      <3> QED
        BY <3>1, <3>2 DEF TypeOK
    <2> QED
      BY <2>1, <2>2
  <1> QED
    BY <1>1, <1>2

LEMMA InitTypes == Init => TypeOK
  <1> SUFFICES ASSUME Init PROVE TypeOK
    OBVIOUS
  <1>1. 1 \in 0..MaxIntensity
    BY SynthAssumption
  <1>2. Idle \in WorkSet
    BY IdleTypes
  <1>3. \A w \in Workers : work[w] = Idle
    BY DEF Init
  <1>4. \A w \in Workers : InputOf(w) = Idle.node
    <2>1. ~Idle.publishing
      BY DEF Idle
    <2> QED
      BY <1>3, <2>1 DEF InputOf
  <1>5. Idle.node \in Inputs /\ Idle.pc # "fold"
    <2>1. Idle.pc = "idle"
      BY DEF Idle
    <2> QED
      BY <1>2, <2>1, NodesAreInputs DEF WorkSet
  <1>6. work \in [Workers -> WorkSet]
    BY <1>2 DEF Init
  <1>7. overrides \in [Targets -> {Unset} \cup 0..MaxIntensity]
    BY DEF Init
  <1>8. cache \in [CacheKeys -> StaticSets \cup {{}}] /\ active \in [StaticSets -> Int]
    BY DEF Init
  <1>9. count \in 0..MaxEvents /\ elapsed \in Nat
    BY SynthAssumption DEF Init
  <1> QED
    BY <1>1, <1>3, <1>4, <1>5, <1>6, <1>7, <1>8, <1>9 DEF Init, TypeOK

\* The events of a script and of the clock.
LEMMA ScriptTypes == TypeOK /\ Script => TypeOK'
  <1> SUFFICES ASSUME TypeOK, Script PROVE TypeOK'
    OBVIOUS
  <1>1. CASE Tick
    <2>1. \A w \in Workers : InputOf(w)' = InputOf(w)
      BY <1>1 DEF Tick, InputOf
    <2>2. count' \in 0..MaxEvents /\ elapsed' \in Nat
      BY <1>1, SynthAssumption DEF Tick, TypeOK
    <2> QED
      BY <1>1, <2>1, <2>2 DEF Tick, TypeOK
  <1>2. ASSUME NEW x \in 0..MaxIntensity, SetFaultIntensity(x)
        PROVE  TypeOK'
    <2>1. \A w \in Workers : InputOf(w)' = InputOf(w)
      BY <1>2 DEF SetFaultIntensity, InputOf
    <2>2. count' \in 0..MaxEvents
      BY <1>2, SynthAssumption DEF SetFaultIntensity, TypeOK
    <2> QED
      BY <1>2, <2>1, <2>2 DEF SetFaultIntensity, TypeOK
  <1>3. ASSUME NEW x \in 0..MaxIntensity, NEW t \in Targets, SetFaultTargetIntensity(t, x)
        PROVE  TypeOK'
    <2>1. /\ overrides' \in [Targets -> {Unset} \cup 0..MaxIntensity]
          /\ intensity' \in 0..MaxIntensity /\ elapsed' \in Nat /\ count' \in 0..MaxEvents
          /\ cache' \in [CacheKeys -> StaticSets \cup {{}}] /\ active' \in [StaticSets -> Int]
      BY <1>3, SynthAssumption DEF SetFaultTargetIntensity, TypeOK
    <2>2. ASSUME NEW w \in Workers
          PROVE  /\ work'[w] \in WorkSet /\ InputOf(w)' \in Inputs
                 /\ work'[w].pc = "fold" => work'[w].todo # {}
      <3>1. PICK M \in SUBSET Targets : work'[w] = [work[w] EXCEPT !.muted = M]
        BY <1>3 DEF SetFaultTargetIntensity, TypeOK, WorkSet
      <3>2. work'[w] \in WorkSet
        BY <3>1 DEF TypeOK, WorkSet
      <3>3. /\ work'[w].publishing = work[w].publishing /\ work'[w].node = work[w].node
            /\ work'[w].pc = work[w].pc /\ work'[w].todo = work[w].todo
        BY <3>1 DEF TypeOK, WorkSet
      <3>4. InputOf(w)' = InputOf(w)
        BY <3>3 DEF InputOf
      <3> QED
        BY <3>2, <3>3, <3>4 DEF TypeOK
    <2>3. work' \in [Workers -> WorkSet]
      BY <1>3, <2>2 DEF SetFaultTargetIntensity
    <2> QED
      BY <2>1, <2>2, <2>3 DEF TypeOK
  <1> QED
    BY <1>1, <1>2, <1>3 DEF Script

LEMMA FoldStep ==
  ASSUME TypeOK, NEW w \in Workers, FoldFault(w)
  PROVE  \E next \in work[w].todo, drawn \in BOOLEAN :
           /\ drawn \in Draws(ClampProbability(Faults[next].probability *
                                               IntensityFor(Faults[next])))
           /\ work' = [work EXCEPT ![w] = AfterFold(work[w], next, drawn)]
  <1>1. \A p : Draws(p) \subseteq BOOLEAN
    BY DEF Draws
  <1> QED
    BY <1>1 DEF FoldFault

\* The steps of an attempt before its span.
LEMMA AttemptTypes ==
  ASSUME TypeOK, NEW w \in Workers, Attempt(w)
  PROVE  TypeOK'
  <1>1. ASSUME NEW n \in Nodes, BeginAttempt(w, n)
        PROVE  TypeOK'
    <2> DEFINE faults == OverlayFaults(n)
               rate == IF n.edge = NoEdge THEN 0 ELSE ErrorRate[n.edge]
               silent == {t \in Targets : overrides[t] = 0}
               publishing == n.edge # NoEdge /\ Protocol[n.edge] = "messaging"
               r == [Idle EXCEPT !.pc = IF faults = {} THEN "begin" ELSE "fold",
                                 !.node = n, !.publishing = publishing, !.todo = faults,
                                 !.folded.errorRate = rate, !.muted = silent]
    <2>1. n \in Inputs /\ n.edge \in Edges \cup {NoEdge}
      BY NodesAreInputs, InputTypes
    <2>2. rate \in 0..Whole
      BY <2>1, SynthAssumption
    <2>3. faults \in SUBSET DOMAIN Faults
      BY DEF OverlayFaults
    <2>4. publishing \in BOOLEAN /\ silent \in SUBSET Targets
      OBVIOUS
    <2>5. publishing => [place |-> From[n.edge], edge |-> n.edge] \in Inputs
      BY <2>1, ProducersAreInputs
    <2>6. work' = [work EXCEPT ![w] = r]
      BY <1>1 DEF BeginAttempt
    <2>7. faults = {} \/ faults # {}
      OBVIOUS
    <2> HIDE DEF faults, rate, silent, publishing
    <2>8. r \in WorkSet
      BY <2>2, <2>3, <2>4, IdleTypes DEF WorkSet, Folds
    <2>9. r.publishing = publishing /\ r.node = n /\ r.todo = faults
            /\ r.pc = IF faults = {} THEN "begin" ELSE "fold"
      BY IdleTypes DEF WorkSet
    <2>10. InputFor(r) \in Inputs /\ (r.pc = "fold" => r.todo # {})
      BY <2>1, <2>5, <2>9 DEF InputFor
    <2>11. count' \in 0..MaxEvents
      BY <1>1, SynthAssumption DEF BeginAttempt, TypeOK
    <2> QED
      BY <1>1, <2>6, <2>8, <2>10, <2>11, WorkStep DEF BeginAttempt, TypeOK, engine
  <1>2. ASSUME NEW n \in Nodes, NEW o \in Cascades, BeginCascade(w, n, o)
        PROVE  TypeOK'
    <2> DEFINE r == [Idle EXCEPT !.pc = "begin", !.node = n, !.cascaded = TRUE,
                                 !.outcome = o]
    <2>1. o \in OutcomeSet
      BY SynthAssumption DEF OutcomeSet
    <2>2. r \in WorkSet /\ r.pc = "begin" /\ r.node = n /\ r.publishing = Idle.publishing
      BY <2>1, IdleTypes DEF WorkSet
    <2>3. ~Idle.publishing
      BY DEF Idle
    <2>4. InputFor(r) \in Inputs
      BY <2>2, <2>3, NodesAreInputs DEF InputFor
    <2>5. count' \in 0..MaxEvents /\ work' = [work EXCEPT ![w] = r]
      BY <1>2, SynthAssumption DEF BeginCascade, TypeOK
    <2> QED
      BY <1>2, <2>2, <2>4, <2>5, WorkStep DEF BeginCascade, TypeOK, engine
  <1>3. CASE FoldFault(w)
    <2>1. PICK next \in work[w].todo, drawn \in BOOLEAN :
            work' = [work EXCEPT ![w] = AfterFold(work[w], next, drawn)]
      BY <1>3, FoldStep
    <2> DEFINE spec == Faults[next]
               i == IntensityFor(spec)
               rest == work[w].todo \ {next}
               F == Fold(work[w].folded, spec, i, drawn)
               H == IF Affects(spec, i, drawn) THEN work[w].hit \cup {spec} ELSE work[w].hit
               r == [work[w] EXCEPT !.folded = F, !.todo = rest,
                                    !.pc = IF rest = {} THEN "begin" ELSE "fold", !.hit = H]
    <2>2. work[w] \in WorkSet
      BY DEF TypeOK
    <2>3. next \in DOMAIN Faults /\ rest \in SUBSET DOMAIN Faults
      BY <2>2 DEF WorkSet
    <2>4. spec \in FaultSet
      BY <2>3, FaultsInSet
    <2>5. i \in 0..MaxIntensity
      BY <2>4, IntensityInRange
    <2>6. F \in Folds
      BY <2>2, <2>4, <2>5, FoldTypes DEF WorkSet
    <2>7. H \in SUBSET FaultSet
      BY <2>2, <2>4 DEF WorkSet
    <2>8. work' = [work EXCEPT ![w] = r]
      BY <2>1 DEF AfterFold
    <2> HIDE DEF F, H, i, spec, rest
    <2>9. r \in WorkSet
      BY <2>2, <2>3, <2>6, <2>7 DEF WorkSet
    <2>10. /\ r.publishing = work[w].publishing /\ r.node = work[w].node /\ r.todo = rest
           /\ r.pc = IF rest = {} THEN "begin" ELSE "fold"
      BY <2>2 DEF WorkSet
    <2>11. InputFor(r) = InputOf(w) /\ (r.pc = "fold" => r.todo # {})
      BY <2>10 DEF InputFor, InputOf
    <2>12. UNCHANGED <<intensity, overrides, elapsed, cache, active, count>>
      BY <1>3 DEF FoldFault, engine
    <2>13. InputFor(r) \in Inputs
      BY <2>11 DEF TypeOK
    <2> HIDE DEF r
    <2>14. /\ work' \in [Workers -> WorkSet]
           /\ \A v \in Workers : /\ InputOf(v)' \in Inputs
                                 /\ work'[v].pc = "fold" => work'[v].todo # {}
      BY <2>8, <2>9, <2>11, <2>13, WorkStep
    <2> QED
      BY <2>12, <2>14 DEF TypeOK
  <1> QED
    BY <1>1, <1>2, <1>3 DEF Attempt

\* A step that changes neither the operation of a worker nor what it has to fold, and
\* leaves the rest of the state alone but for the cache and the counters.
LEMMA RecordStep ==
  ASSUME TypeOK, NEW w \in Workers, NEW r \in WorkSet,
         work' = [work EXCEPT ![w] = r],
         r.publishing = work[w].publishing, r.node = work[w].node, r.pc # "fold",
         cache' \in [CacheKeys -> StaticSets \cup {{}}], active' \in [StaticSets -> Int],
         UNCHANGED <<engine, count>>
  PROVE  TypeOK'
  <1>1. InputFor(r) = InputOf(w)
    BY DEF InputFor, InputOf
  <1>2. InputFor(r) \in Inputs
    BY <1>1 DEF TypeOK
  <1>3. /\ work' \in [Workers -> WorkSet]
        /\ \A v \in Workers : /\ InputOf(v)' \in Inputs
                              /\ work'[v].pc = "fold" => work'[v].todo # {}
    BY <1>2, WorkStep
  <1> QED
    BY <1>3 DEF TypeOK, engine

\* Counting an active request keeps the counters numbers.
LEMMA ActiveStep ==
  ASSUME TypeOK, NEW in, NEW delta \in Int
  PROVE  AddActive(in, delta) \in [StaticSets -> Int]
  <1> DEFINE k == cache[CacheKeyFor(in)]
  <1>1. active \in [StaticSets -> Int]
    BY DEF TypeOK
  <1>2. [active EXCEPT ![k] = @ + delta] \in [StaticSets -> Int]
    <2> HIDE DEF k
    <2>1. CASE k \in StaticSets
      BY <1>1, <2>1
    <2>2. CASE k \notin StaticSets
      BY <1>1, <2>2
    <2> QED
      BY <2>1, <2>2
  <1> QED
    BY <1>1, <1>2 DEF AddActive

\* The steps of a span.
LEMMA SpanTypes ==
  ASSUME TypeOK, NEW w \in Workers, Span(w)
  PROVE  TypeOK'
  <1> DEFINE r == work[w]
  <1>0. r \in WorkSet /\ InputOf(w) \in Inputs /\ r.node \in Inputs
    BY NodesAreInputs DEF TypeOK, WorkSet
  <1>1. CASE LookupAttrs(w)
    <2> DEFINE pc == IF cache[CacheKeyFor(InputOf(w))] = {} THEN "put" ELSE "start"
    <2>1. pc \in {"put", "start"}
      OBVIOUS
    <2> HIDE DEF pc
    <2>2. [r EXCEPT !.pc = pc] \in WorkSet /\ pc # "fold"
      BY <1>0, <2>1 DEF WorkSet
    <2>3. work' = [work EXCEPT ![w] = [r EXCEPT !.pc = pc]]
      BY <1>1 DEF LookupAttrs, pc
    <2> QED
      BY <1>0, <1>1, <2>2, <2>3, RecordStep DEF LookupAttrs, WorkSet, TypeOK
  <1>2. CASE PutAttrs(w)
    <2>1. BuildStaticSet(InputOf(w)) \in StaticSets
      BY <1>0 DEF StaticSets
    <2>2. cache' \in [CacheKeys -> StaticSets \cup {{}}]
      BY <1>2, <2>1 DEF PutAttrs, TypeOK
    <2>3. [r EXCEPT !.pc = "start"] \in WorkSet
      BY <1>0 DEF WorkSet
    <2>4. work' = [work EXCEPT ![w] = [r EXCEPT !.pc = "start"]]
      BY <1>2 DEF PutAttrs
    <2> QED
      BY <1>0, <1>2, <2>2, <2>3, <2>4, RecordStep DEF PutAttrs, WorkSet, TypeOK
  <1>3. CASE StartSpan(w)
    <2>1. [r EXCEPT !.pc = "open"] \in WorkSet
      BY <1>0 DEF WorkSet
    <2>2. work' = [work EXCEPT ![w] = [r EXCEPT !.pc = "open"]]
      BY <1>3 DEF StartSpan
    <2>3. active' \in [StaticSets -> Int]
      BY <1>3, ActiveStep DEF StartSpan
    <2> QED
      BY <1>0, <1>3, <2>1, <2>2, <2>3, RecordStep DEF StartSpan, WorkSet, TypeOK
  <1>4. CASE FinishProducer(w)
    <2> DEFINE q == [r EXCEPT !.pc = "begin", !.publishing = FALSE]
    <2>1. q \in WorkSet /\ q.pc = "begin" /\ ~q.publishing /\ q.node = r.node
      BY <1>0 DEF WorkSet
    <2>2. work' = [work EXCEPT ![w] = q]
      BY <1>4 DEF FinishProducer
    <2>3. active' \in [StaticSets -> Int]
      BY <1>4, ActiveStep DEF FinishProducer
    <2>4. InputFor(q) \in Inputs
      BY <1>0, <2>1 DEF InputFor
    <2> HIDE DEF q
    <2>5. /\ work' \in [Workers -> WorkSet]
          /\ \A v \in Workers : /\ InputOf(v)' \in Inputs
                                /\ work'[v].pc = "fold" => work'[v].todo # {}
      BY <2>1, <2>2, <2>4, WorkStep
    <2> QED
      BY <1>4, <2>3, <2>5 DEF FinishProducer, TypeOK, engine
  <1>5. CASE DecideOutcome(w)
    <2> DEFINE told == Watched(w, Telemetry[r.node.place].profile)
    <2>1. told \in SUBSET Incident
      BY <1>0, InputTypes, TelemetryTypes, ActiveTypes DEF Incident, Watched
    <2> HIDE DEF told
    <2>2. PICK o \in Outcomes(w) :
            work' = [work EXCEPT ![w].pc = "finish", ![w].outcome = o,
                                 ![w].signals.profile = told]
      BY <1>5 DEF DecideOutcome, told
    <2> DEFINE q == [r EXCEPT !.pc = "finish", !.outcome = o, !.signals.profile = told]
    <2>3. o \in OutcomeSet
      BY OutcomeTypes
    <2>4. r.signals \in SignalSet
      BY <1>0 DEF WorkSet
    <2>5. [r.signals EXCEPT !.profile = told] \in SignalSet
      BY <2>1, <2>4 DEF SignalSet
    <2>6. q \in WorkSet /\ q.pc = "finish" /\ q.publishing = r.publishing /\ q.node = r.node
      BY <1>0, <2>3, <2>5 DEF WorkSet
    <2>7. work' = [work EXCEPT ![w] = q]
      BY <2>2
    <2> HIDE DEF q
    <2> QED
      BY <1>5, <2>6, <2>7, RecordStep DEF DecideOutcome, TypeOK
  <1>6. CASE FinishSpan(w)
    <2>1. CASE r.finished
      <3>1. UNCHANGED vars
        BY <1>6, <2>1 DEF FinishSpan, EndSpan, vars, engine
      <3> QED
        BY <3>1 DEF TypeOK, vars, InputOf
    <2>2. CASE ~r.finished
      <3> DEFINE o == r.outcome
                 s == [r.signals EXCEPT !.status = StatusFor(r.node, o),
                         !.exception = ~o.success, !.attrs = DynamicOutcomeAttrs(r.node, o)]
                 q == [r EXCEPT !.pc = "record", !.finished = TRUE, !.signals = s]
      <3>1. o \in OutcomeSet /\ r.signals \in SignalSet
        BY <1>0 DEF WorkSet
      <3>2. o.success \in BOOLEAN
        BY <3>1 DEF OutcomeSet
      <3>3. /\ StatusFor(r.node, o) \in {"Error", "Unset"}
            /\ DynamicOutcomeAttrs(r.node, o) \in SUBSET DynamicAttrs
        BY <3>1, StatusTypes, AttrTypes
      <3>4. s \in SignalSet
        BY <3>1, <3>2, <3>3 DEF SignalSet
      <3>5. work' = [work EXCEPT ![w] = q] /\ active' = AddActive(r.node, -1)
        BY <1>6, <2>2 DEF FinishSpan, EndSpan
      <3> HIDE DEF s, o
      <3>6. q \in WorkSet /\ q.pc = "record" /\ q.publishing = r.publishing
              /\ q.node = r.node
        BY <1>0, <3>4 DEF WorkSet
      <3>7. active' \in [StaticSets -> Int]
        BY <3>5, ActiveStep
      <3> HIDE DEF q
      <3> QED
        BY <1>6, <3>5, <3>6, <3>7, RecordStep DEF FinishSpan, TypeOK
    <2> QED
      BY <2>1, <2>2
  <1> QED
    BY <1>1, <1>2, <1>3, <1>4, <1>5, <1>6 DEF Span

\* The steps that report an operation.
LEMMA EmitTypes ==
  ASSUME TypeOK, NEW w \in Workers, Emit(w)
  PROVE  TypeOK'
  <1> DEFINE r == work[w]
  <1>0. /\ r \in WorkSet /\ r.node \in Inputs /\ r.node.place \in Places
        /\ r.outcome \in OutcomeSet /\ r.signals \in SignalSet
    BY NodesAreInputs, InputTypes DEF TypeOK, WorkSet
  <1>a. r.outcome.success \in BOOLEAN
    BY <1>0 DEF OutcomeSet
  <1>1. CASE Report(w)
    <2> DEFINE o == r.outcome
               point == cache[CacheKeyFor(r.node)]
               attrs == DynamicOutcomeAttrs(r.node, o)
               severity == IF o.success THEN "info" ELSE "error"
               exception == ~o.success /\ o.error # ""
               events == {c \in Telemetry[r.node.place].events : Matches(c, o)}
               s == [r.signals EXCEPT !.point = point, !.pointAttrs = attrs,
                       !.severity = severity, !.logException = exception, !.events = events]
               q == [r EXCEPT !.pc = "custom", !.signals = s]
    <2>1. point \in StaticSets \cup {{}}
      BY <1>0 DEF TypeOK, CacheKeys
    <2>2. attrs \in SUBSET DynamicAttrs
      BY <1>0, AttrTypes
    <2>3. events \in SUBSET Conditions
      BY <1>0, TelemetryTypes
    <2>4. severity \in {"none", "info", "error"} /\ exception \in BOOLEAN
      OBVIOUS
    <2>5. work' = [work EXCEPT ![w] = q]
      BY <1>1 DEF Report
    <2> HIDE DEF point, attrs, severity, exception, events
    <2>6. s \in SignalSet
      BY <1>0, <2>1, <2>2, <2>3, <2>4 DEF SignalSet
    <2> HIDE DEF s
    <2>7. q \in WorkSet /\ q.pc = "custom" /\ q.publishing = r.publishing /\ q.node = r.node
      BY <1>0, <2>6 DEF WorkSet
    <2> HIDE DEF q
    <2> QED
      BY <1>1, <2>5, <2>7, RecordStep DEF Report, TypeOK
  <1>2. CASE RecordCustom(w)
    <2> DEFINE told == Incidents(w, Telemetry[r.node.place].metrics)
               s == [r.signals EXCEPT !.metrics = told]
               q == [r EXCEPT !.pc = "state", !.signals = s]
    <2>1. told \in SUBSET Incident
      BY <1>0, TelemetryTypes, IncidentTypes
    <2>2. work' = [work EXCEPT ![w] = q]
      BY <1>2 DEF RecordCustom
    <2> HIDE DEF told
    <2>3. s \in SignalSet
      BY <1>0, <2>1 DEF SignalSet
    <2> HIDE DEF s
    <2>4. q \in WorkSet /\ q.pc = "state" /\ q.publishing = r.publishing /\ q.node = r.node
      BY <1>0, <2>3 DEF WorkSet
    <2> HIDE DEF q
    <2> QED
      BY <1>2, <2>2, <2>4, RecordStep DEF RecordCustom, TypeOK
  <1>3. CASE UpdateState(w)
    <2> DEFINE told == Incidents(w, Telemetry[r.node.place].updates)
               s == [r.signals EXCEPT !.updates = told]
               q == [r EXCEPT !.pc = "done", !.signals = s]
    <2>1. told \in SUBSET Incident
      BY <1>0, TelemetryTypes, IncidentTypes
    <2>2. work' = [work EXCEPT ![w] = q]
      BY <1>3 DEF UpdateState
    <2> HIDE DEF told
    <2>3. s \in SignalSet
      BY <1>0, <2>1 DEF SignalSet
    <2> HIDE DEF s
    <2>4. q \in WorkSet /\ q.pc = "done" /\ q.publishing = r.publishing /\ q.node = r.node
      BY <1>0, <2>3 DEF WorkSet
    <2> HIDE DEF q
    <2> QED
      BY <1>3, <2>2, <2>4, RecordStep DEF UpdateState, TypeOK
  <1>4. CASE ReturnOutcome(w)
    <2>1. work' = [work EXCEPT ![w] = Idle]
      BY <1>4 DEF ReturnOutcome
    <2>2. Idle \in WorkSet /\ Idle.pc = "idle" /\ ~Idle.publishing
      BY IdleTypes DEF Idle
    <2>3. InputFor(Idle) \in Inputs
      BY <2>2, NodesAreInputs DEF InputFor, WorkSet
    <2>4. /\ work' \in [Workers -> WorkSet]
          /\ \A v \in Workers : /\ InputOf(v)' \in Inputs
                                /\ work'[v].pc = "fold" => work'[v].todo # {}
      BY <2>1, <2>2, <2>3, WorkStep
    <2> QED
      BY <1>4, <2>4 DEF ReturnOutcome, TypeOK, engine
  <1> QED
    BY <1>1, <1>2, <1>3, <1>4 DEF Emit

LEMMA NextTypes == TypeOK /\ [Next]_vars => TypeOK'
  <1>1. TypeOK /\ UNCHANGED vars => TypeOK'
    BY DEF TypeOK, vars, InputOf
  <1> QED
    BY <1>1, ScriptTypes, AttemptTypes, SpanTypes, EmitTypes DEF Next

\* The state keeps its types: an error rate stays a probability whatever the intensities
\* (journey/fault.go, clampProbability), every outcome is one that statusFor knows, and the
\* cache holds attribute sets of operations only.
THEOREM TypeCorrect == Spec => []TypeOK
  <1>1. Init => TypeOK
    BY InitTypes
  <1>2. TypeOK /\ [Next]_vars => TypeOK'
    BY NextTypes
  <1> QED
    BY <1>1, <1>2, PTL DEF Spec

-----------------------------------------------------------------------------
(***************************************************************************)
(* The cache of attributes.                                                *)
(***************************************************************************)
\* Where two sequences are split at their first x.
LEMMA FirstOccurrence ==
  ASSUME NEW x \in Parts, NEW a \in Seq(Parts), NEW b \in Seq(Parts),
         NEW c \in Seq(Parts), NEW d \in Seq(Parts),
         \A n \in DOMAIN a : a[n] # x, \A n \in DOMAIN c : c[n] # x,
         (a \o <<x>>) \o b = (c \o <<x>>) \o d
  PROVE  a = c /\ b = d
  <1>0. /\ Len(a) \in Nat /\ Len(b) \in Nat /\ Len(c) \in Nat /\ Len(d) \in Nat
        /\ \A n \in 1..Len(a) : a[n] # x
        /\ \A n \in 1..Len(c) : c[n] # x
    OBVIOUS
  <1> DEFINE s == (a \o <<x>>) \o b
             t == (c \o <<x>>) \o d
  <1>1. /\ \A n \in 1..Len(a) : s[n] = a[n]
        /\ s[Len(a) + 1] = x
        /\ \A n \in 1..Len(b) : s[Len(a) + 1 + n] = b[n]
        /\ Len(s) = Len(a) + 1 + Len(b)
    OBVIOUS
  <1>2. /\ \A n \in 1..Len(c) : t[n] = c[n]
        /\ t[Len(c) + 1] = x
        /\ \A n \in 1..Len(d) : t[Len(c) + 1 + n] = d[n]
        /\ Len(t) = Len(c) + 1 + Len(d)
    OBVIOUS
  <1>3. s = t
    OBVIOUS
  <1> HIDE DEF s, t
  <1>4. Len(a) = Len(c)
    <2>1. ASSUME Len(a) < Len(c)
          PROVE  FALSE
      <3>1. Len(a) + 1 \in 1..Len(c)
        BY <1>0, <2>1
      <3>2. c[Len(a) + 1] = x
        BY <1>1, <1>2, <1>3, <3>1
      <3> QED
        BY <1>0, <3>1, <3>2
    <2>2. ASSUME Len(c) < Len(a)
          PROVE  FALSE
      <3>1. Len(c) + 1 \in 1..Len(a)
        BY <1>0, <2>2
      <3>2. a[Len(c) + 1] = x
        BY <1>1, <1>2, <1>3, <3>1
      <3> QED
        BY <1>0, <3>1, <3>2
    <2> QED
      BY <1>0, <2>1, <2>2
  <1>5. a = c
    <2>1. \A n \in 1..Len(a) : a[n] = c[n]
      BY <1>1, <1>2, <1>3, <1>4
    <2> QED
      BY <1>4, <2>1
  <1>6. Len(b) = Len(d)
    BY <1>1, <1>2, <1>3, <1>4
  <1>7. b = d
    <2>1. \A n \in 1..Len(b) : b[n] = d[n]
      BY <1>1, <1>2, <1>3, <1>4, <1>6
    <2> QED
      BY <1>6, <2>1
  <1> QED
    BY <1>5, <1>7

\* Names that are joined are a name.
LEMMA Joined ==
  ASSUME NEW a \in Seq(Parts), NEW x \in Parts, NEW b \in Seq(Parts)
  PROVE  a \o <<x>> \o b \in Seq(Parts)
  OBVIOUS

LEMMA OperationIDType ==
  ASSUME NEW p \in Places
  PROVE  OperationID(p) \in Seq(Parts)
  <1>1. p.service \in Seq(Parts) /\ p.name \in Seq(Parts)
    BY SpanAssumption
  <1>2. p.service \o <<".">> \o p.name \in Seq(Parts)
    BY <1>1, Joined, SpanAssumption
  <1> QED
    BY <1>2 DEF OperationID

LEMMA EdgeNameType ==
  ASSUME NEW e \in Edges
  PROVE  EdgeName(e) \in Seq(Parts) /\ Protocol[e] \in Parts
  <1>1. From[e] \in Places /\ To[e] \in Places
    BY SpanAssumption
  <1>2. OperationID(From[e]) \in Seq(Parts) /\ OperationID(To[e]) \in Seq(Parts)
    BY <1>1, OperationIDType
  <1>3. OperationID(From[e]) \o <<"->">> \o OperationID(To[e]) \in Seq(Parts)
    BY <1>2, Joined, SpanAssumption
  <1>4. Protocol[e] \in Parts
    <2>1. Protocol[e] \in {"http", "grpc", "messaging"}
      BY SpanAssumption
    <2> QED
      BY <2>1, SpanAssumption
  <1> QED
    BY <1>3, <1>4 DEF EdgeName

\* The id of an edge ends with its protocol.
LEMMA ProtocolOfID ==
  ASSUME NEW e \in Edges, NEW f \in Edges, EdgeID(e) = EdgeID(f)
  PROVE  EdgeName(e) = EdgeName(f) /\ Protocol[e] = Protocol[f]
  <1>1. \A g \in Edges : EdgeName(g) \in Seq(Parts) /\ Protocol[g] \in Parts
    BY EdgeNameType
  <1>2. EdgeName(e) \o <<"/", Protocol[e]>> = EdgeName(f) \o <<"/", Protocol[f]>>
    BY SpanAssumption DEF EdgeID
  <1> DEFINE u == EdgeName(e)
             v == EdgeName(f)
             p == Protocol[e]
             q == Protocol[f]
  <1>3. u \in Seq(Parts) /\ v \in Seq(Parts) /\ p \in Parts /\ q \in Parts
    BY <1>1
  <1>4. u \o <<"/", p>> = v \o <<"/", q>>
    BY <1>2
  <1> HIDE DEF u, v, p, q
  <1>5. Len(u) = Len(v)
    BY <1>3, <1>4
  <1>6. \A n \in 1..Len(u) : u[n] = v[n]
    BY <1>3, <1>4, <1>5
  <1>7. u = v
    BY <1>3, <1>5, <1>6
  <1>8. p = q
    BY <1>3, <1>4, <1>5
  <1> QED
    BY <1>7, <1>8 DEF u, v, p, q

LEMMA EdgeIDNotEmpty ==
  ASSUME NEW e \in Edges
  PROVE  EdgeID(e) # <<>>
  <1>1. EdgeName(e) \in Seq(Parts) /\ Protocol[e] \in Parts
    BY EdgeNameType
  <1>2. EdgeID(e) = EdgeName(e) \o <<"/", Protocol[e]>>
    BY SpanAssumption DEF EdgeID
  <1>3. Len(EdgeName(e) \o <<"/", Protocol[e]>>) = Len(EdgeName(e)) + 2
    BY <1>1
  <1>4. Len(EdgeName(e)) \in Nat
    BY <1>1
  <1> QED
    BY <1>2, <1>3, <1>4

\* When no name holds an arrow, it leads to an operation with the same dotted name.
LEMMA CalleeOfName ==
  ASSUME NEW e \in Edges, NEW f \in Edges, EdgeName(e) = EdgeName(f), Arrowless
  PROVE  OperationID(To[e]) = OperationID(To[f])
  <1>1. From[e] \in Places /\ From[f] \in Places /\ To[e] \in Places /\ To[f] \in Places
    BY SpanAssumption
  <1>2. \A p \in Places : \A n \in DOMAIN OperationID(p) : OperationID(p)[n] # "->"
    <2> SUFFICES ASSUME NEW p \in Places, NEW n \in DOMAIN OperationID(p)
                 PROVE  OperationID(p)[n] # "->"
      OBVIOUS
    <2> DEFINE s == p.service
               m == p.name
    <2>1. s \in Seq(Parts) /\ m \in Seq(Parts)
      BY SpanAssumption
    <2>2. (\A k \in DOMAIN s : s[k] # "->") /\ (\A k \in DOMAIN m : m[k] # "->")
      BY DEF Arrowless
    <2>3. OperationID(p) = s \o <<".">> \o m
      BY DEF OperationID
    <2> HIDE DEF s, m
    <2>4. n \in 1..(Len(s) + 1 + Len(m))
      BY <2>1, <2>3
    <2>5. CASE n \in 1..Len(s)
      BY <2>1, <2>2, <2>3, <2>5
    <2>6. CASE n = Len(s) + 1
      BY <2>1, <2>3, <2>6
    <2>7. CASE n > Len(s) + 1
      <3>1. n - Len(s) - 1 \in 1..Len(m) /\ OperationID(p)[n] = m[n - Len(s) - 1]
        BY <2>1, <2>3, <2>4, <2>7
      <3> QED
        BY <2>1, <2>2, <3>1
    <2> QED
      BY <2>1, <2>4, <2>5, <2>6, <2>7
  <1> DEFINE a == OperationID(From[e])
             b == OperationID(To[e])
             c == OperationID(From[f])
             d == OperationID(To[f])
  <1>3. a \in Seq(Parts) /\ b \in Seq(Parts) /\ c \in Seq(Parts) /\ d \in Seq(Parts)
    BY <1>1, OperationIDType
  <1>4. (a \o <<"->">>) \o b = (c \o <<"->">>) \o d
    BY DEF EdgeName
  <1>5. (\A n \in DOMAIN a : a[n] # "->") /\ (\A n \in DOMAIN c : c[n] # "->")
    BY <1>1, <1>2
  <1> HIDE DEF a, b, c, d
  <1>6. "->" \in Parts
    BY SpanAssumption
  <1>7. a = c /\ b = d
    BY <1>3, <1>4, <1>5, <1>6, FirstOccurrence
  <1> QED
    BY <1>7 DEF b, d

\* What buildStaticSet looks at besides the operation: the direction, and the callee
\* and the protocol of the edge.
LEMMA SameCalleeSameSet ==
  ASSUME NEW i \in Inputs, NEW j \in Inputs,
         i.place = j.place, PolicyFor(i).direction = PolicyFor(j).direction,
         \/ i.edge = NoEdge /\ j.edge = NoEdge
         \/ /\ i.edge # NoEdge /\ j.edge # NoEdge
            /\ To[i.edge] = To[j.edge] /\ Protocol[i.edge] = Protocol[j.edge]
  PROVE  BuildStaticSet(i) = BuildStaticSet(j)
  <1>1. /\ i.place.service = j.place.service /\ i.place.name = j.place.name
        /\ PolicyFor(i).direction = PolicyFor(j).direction
    OBVIOUS
  <1>2. \/ i.edge = NoEdge /\ j.edge = NoEdge
        \/ /\ i.edge # NoEdge /\ j.edge # NoEdge
           /\ To[i.edge] = To[j.edge] /\ Protocol[i.edge] = Protocol[j.edge]
    OBVIOUS
  <1>3. PolicyFor(i).namespace = PolicyFor(j).namespace
    <2>1. ProtocolFor(i) = ProtocolFor(j)
      BY <1>2 DEF ProtocolFor
    <2> QED
      BY <1>1, <2>1 DEF PolicyFor, Namespace
  <1>4. TargetService(i.edge) = TargetService(j.edge)
    BY <1>2 DEF TargetService
  <1>5. ServerAttrs(i.edge) = ServerAttrs(j.edge)
    <2>1. CASE i.edge = NoEdge
      BY <1>2, <2>1
    <2>2. CASE i.edge # NoEdge
      <3>1. \A s : ServerPort(s, i.edge) = ServerPort(s, j.edge)
        BY <1>2, <2>2 DEF ServerPort
      <3> QED
        BY <1>4, <3>1 DEF ServerAttrs
    <2> QED
      BY <2>1, <2>2
  <1> DEFINE dir == PolicyFor(i).direction
  <1>6. HttpStaticAttrs(i, dir) = HttpStaticAttrs(j, dir)
    BY <1>1, <1>4, <1>5 DEF HttpStaticAttrs
  <1>7. RpcStaticAttrs(i, dir) = RpcStaticAttrs(j, dir)
    BY <1>1, <1>4, <1>5 DEF RpcStaticAttrs
  <1>8. DbStaticAttrs(i) = DbStaticAttrs(j)
    BY <1>1, <1>5 DEF DbStaticAttrs
  <1>9. MessagingStaticAttrs(i, dir) = MessagingStaticAttrs(j, dir)
    BY <1>1, <1>4, <1>5 DEF MessagingStaticAttrs
  <1> QED
    BY <1>1, <1>3, <1>6, <1>7, <1>8, <1>9 DEF BuildStaticSet

\* The side that receives is that of the callee.
LEMMA ReceivesAtCallee ==
  ASSUME NEW in \in Inputs, in.edge # NoEdge,
         PolicyFor(in).direction \in {"server", "consumer"}
  PROVE  in.place = To[in.edge]
  <1> SUFFICES ASSUME in.place = From[in.edge], Protocol[in.edge] = "messaging"
               PROVE  FALSE
    BY DEF Inputs
  <1>1. InferDirection(in) = "producer"
    BY DEF InferDirection
  <1>2. PolicyFor(in).direction \in {"client", "producer"}
    BY <1>1 DEF PolicyFor
  <1> QED
    BY <1>2

\* Whoever shares a key is given what it is entitled to.
LEMMA KeysTellApart ==
  ASSUME NEW i \in Inputs, NEW j \in Inputs, CacheKeyFor(i) = CacheKeyFor(j)
  PROVE  BuildStaticSet(i) \in Given(j)
  <1>1. /\ i.place.service = j.place.service /\ i.place.name = j.place.name
        /\ EdgeID(i.edge) = EdgeID(j.edge)
        /\ PolicyFor(i).direction = PolicyFor(j).direction
    BY DEF CacheKeyFor
  <1>2. i.place = j.place
    <2>1. i.place \in [service : Seq(Parts), name : Seq(Parts)]
      BY InputTypes, SpanAssumption
    <2>2. j.place \in [service : Seq(Parts), name : Seq(Parts)]
      BY InputTypes, SpanAssumption
    <2> QED
      BY <1>1, <2>1, <2>2
  <1>3. i.edge \in Edges \cup {NoEdge} /\ j.edge \in Edges \cup {NoEdge}
    BY InputTypes
  <1>4. ASSUME BuildStaticSet(i) = BuildStaticSet(j)
        PROVE  BuildStaticSet(i) \in Given(j) \/ j \notin Alike(j)
    BY <1>4 DEF Given
  <1>5. CASE i.edge = NoEdge \/ j.edge = NoEdge
    <2>1. i.edge = NoEdge /\ j.edge = NoEdge
      <3>1. EdgeID(NoEdge) = <<>>
        BY DEF EdgeID
      <3> QED
        BY <1>1, <1>3, <1>5, <3>1, EdgeIDNotEmpty
    <2>2. BuildStaticSet(i) = BuildStaticSet(j)
      BY <1>1, <1>2, <2>1, SameCalleeSameSet
    <2>3. j \in Alike(j)
      BY <2>1 DEF Alike
    <2> QED
      BY <1>4, <2>2, <2>3
  <1>6. CASE i.edge \in Edges /\ j.edge \in Edges
    <2>1. i.edge # NoEdge /\ j.edge # NoEdge
      BY <1>6, SpanAssumption
    <2>2. EdgeName(i.edge) = EdgeName(j.edge) /\ Protocol[i.edge] = Protocol[j.edge]
      BY <1>1, <1>6, ProtocolOfID
    <2>3. CASE PolicyFor(j).direction \in {"server", "consumer"}
      <3>1. i.place = To[i.edge] /\ j.place = To[j.edge]
        BY <1>1, <2>1, <2>3, ReceivesAtCallee
      <3>2. BuildStaticSet(i) = BuildStaticSet(j)
        BY <1>1, <1>2, <2>1, <2>2, <3>1, SameCalleeSameSet
      <3>3. j \in Alike(j)
        BY <2>3 DEF Alike
      <3> QED
        BY <1>4, <3>2, <3>3
    <2>4. CASE PolicyFor(j).direction \notin {"server", "consumer"}
      <3>1. PolicyFor(i) = PolicyFor(j)
        <4>1. ProtocolFor(i) = ProtocolFor(j)
          BY <2>1, <2>2 DEF ProtocolFor
        <4>2. Namespace(i) = Namespace(j)
          BY <1>2, <4>1 DEF Namespace
        <4> QED
          BY <1>1, <4>2 DEF PolicyFor
      <3>2. Arrowless => OperationID(To[i.edge]) = OperationID(To[j.edge])
        BY <1>6, <2>2, CalleeOfName
      <3>3. i \in Alike(j)
        BY <1>2, <2>1, <2>2, <2>4, <3>1, <3>2 DEF Alike
      <3> QED
        BY <3>3 DEF Given
    <2> QED
      BY <2>3, <2>4
  <1> QED
    BY <1>3, <1>5, <1>6

\* An attribute set names its service.
LEMMA StaticSetsNonempty == \A in : BuildStaticSet(in) # {}
  BY DEF BuildStaticSet

\* Only staticAttrs writes to the cache.
LEMMA CacheChanges ==
  ASSUME [Next]_vars
  PROVE  UNCHANGED cache \/ \E w \in Workers : PutAttrs(w)
  <1>1. ASSUME NEW w \in Workers, Attempt(w)
        PROVE  UNCHANGED cache
    BY <1>1 DEF Attempt, BeginAttempt, BeginCascade, FoldFault
  <1>2. ASSUME NEW w \in Workers, Span(w)
        PROVE  UNCHANGED cache \/ PutAttrs(w)
    BY <1>2 DEF Span, LookupAttrs, StartSpan, FinishProducer, DecideOutcome, FinishSpan
  <1>3. ASSUME NEW w \in Workers, Emit(w)
        PROVE  UNCHANGED cache
    BY <1>3 DEF Emit, Report, RecordCustom, UpdateState, ReturnOutcome
  <1>4. ASSUME Script
        PROVE  UNCHANGED cache
    BY <1>4 DEF Script, Tick, SetFaultIntensity, SetFaultTargetIntensity
  <1> QED
    BY <1>1, <1>2, <1>3, <1>4 DEF Next, vars

\* CacheSound, from the side of those who look an entry up.
LEMMA SoundFor ==
  ASSUME NEW c \in [CacheKeys -> StaticSets \cup {{}}]
  PROVE  (\A k \in CacheKeys : <<k, c[k]>> \notin WrongEntries) <=>
           \A in \in Inputs : c[CacheKeyFor(in)] \in {{}} \cup Given(in)
  <1>1. \A in \in Inputs : CacheKeyFor(in) \in CacheKeys
    BY DEF CacheKeys
  <1>2. \A k \in CacheKeys : c[k] \in StaticSets \cup {{}}
    OBVIOUS
  <1>3. {} \notin StaticSets
    BY StaticSetsNonempty DEF StaticSets
  <1>4. ASSUME \A k \in CacheKeys : <<k, c[k]>> \notin WrongEntries, NEW in \in Inputs
        PROVE  c[CacheKeyFor(in)] \in {{}} \cup Given(in)
    <2>1. <<CacheKeyFor(in), c[CacheKeyFor(in)]>> \notin WrongEntries
      BY <1>1, <1>4
    <2>2. <<CacheKeyFor(in), c[CacheKeyFor(in)]>>
            \notin {CacheKeyFor(in)} \X (StaticSets \ Given(in))
      BY <2>1 DEF WrongEntries
    <2> QED
      BY <1>1, <1>2, <2>2
  <1>5. ASSUME \A in \in Inputs : c[CacheKeyFor(in)] \in {{}} \cup Given(in),
               NEW k \in CacheKeys, <<k, c[k]>> \in WrongEntries
        PROVE  FALSE
    <2>1. PICK in \in Inputs :
            <<k, c[k]>> \in {CacheKeyFor(in)} \X (StaticSets \ Given(in))
      BY <1>5 DEF WrongEntries
    <2>2. k = CacheKeyFor(in) /\ c[k] \in StaticSets /\ c[k] \notin Given(in)
      BY <2>1
    <2> QED
      BY <1>3, <1>5, <2>2
  <1> QED
    BY <1>4, <1>5

LEMMA CacheSoundAs ==
  ASSUME TypeOK, CacheSound
  PROVE  \A in \in Inputs : cache[CacheKeyFor(in)] \in {{}} \cup Given(in)
  <1>1. cache \in [CacheKeys -> StaticSets \cup {{}}]
    BY DEF TypeOK
  <1>2. \A k \in CacheKeys : <<k, cache[k]>> \notin WrongEntries
    BY DEF CacheSound
  <1> QED
    BY <1>1, <1>2, SoundFor

LEMMA CacheStep ==
  ASSUME TypeOK, CacheSound, [Next]_vars, TypeOK'
  PROVE  CacheSound'
  <1>1. CASE UNCHANGED cache
    BY <1>1 DEF CacheSound
  <1>2. ASSUME NEW w \in Workers, PutAttrs(w)
        PROVE  CacheSound'
    <2>0. ASSUME \A in \in Inputs : cache'[CacheKeyFor(in)] \in {{}} \cup Given(in)
          PROVE  CacheSound'
      <3> DEFINE c == cache'
      <3>1. c \in [CacheKeys -> StaticSets \cup {{}}]
        BY DEF TypeOK
      <3>2. \A in \in Inputs : c[CacheKeyFor(in)] \in {{}} \cup Given(in)
        BY <2>0
      <3> HIDE DEF c
      <3>3. \A k \in CacheKeys : <<k, c[k]>> \notin WrongEntries
        BY <3>1, <3>2, SoundFor
      <3> QED
        BY <3>3 DEF CacheSound, c
    <2> SUFFICES ASSUME NEW in \in Inputs
                 PROVE  cache'[CacheKeyFor(in)] \in {{}} \cup Given(in)
      BY <2>0
    <2> DEFINE at == InputOf(w)
    <2>1. at \in Inputs /\ CacheKeyFor(at) \in CacheKeys /\ CacheKeyFor(in) \in CacheKeys
      BY DEF TypeOK, CacheKeys
    <2>2. CASE CacheKeyFor(in) = CacheKeyFor(at)
      <3>1. cache'[CacheKeyFor(in)] = BuildStaticSet(at)
        BY <1>2, <2>1, <2>2 DEF PutAttrs, TypeOK
      <3> QED
        BY <2>1, <2>2, <3>1, KeysTellApart
    <2>3. CASE CacheKeyFor(in) # CacheKeyFor(at)
      <3>1. cache'[CacheKeyFor(in)] = cache[CacheKeyFor(in)]
        BY <1>2, <2>1, <2>3 DEF PutAttrs, TypeOK
      <3> QED
        BY <3>1, CacheSoundAs
    <2> QED
      BY <2>2, <2>3
  <1>3. UNCHANGED cache \/ \E w \in Workers : PutAttrs(w)
    BY CacheChanges
  <1> QED
    BY <1>1, <1>2, <1>3

\* Whichever branch fills an entry of the cache of attributes, who finds it gets the
\* attributes of its own operation, side and protocol (synth/attributes.go, cacheKeyFor),
\* and those of its own callee unless it calls one that shares its dotted name with
\* another (edgeID, operationID).
THEOREM CacheSoundCorrect == Spec => []CacheSound
  <1>1. Init => CacheSound
    <2> SUFFICES ASSUME Init, NEW k \in CacheKeys, <<k, cache[k]>> \in WrongEntries
                 PROVE  FALSE
      BY DEF CacheSound
    <2>1. cache[k] = {}
      BY DEF Init
    <2>2. cache[k] \in StaticSets
      BY DEF WrongEntries
    <2> QED
      BY <2>1, <2>2, StaticSetsNonempty DEF StaticSets
  <1>2. TypeOK /\ CacheSound /\ [Next]_vars /\ TypeOK' => CacheSound'
    BY CacheStep
  <1> QED
    BY <1>1, <1>2, TypeCorrect, PTL DEF Spec

-----------------------------------------------------------------------------
(***************************************************************************)
(* Steps of one worker leave the records of the others alone.              *)
(***************************************************************************)
Work(w) == Attempt(w) \/ Span(w) \/ Emit(w)

LEMMA OthersUnmoved ==
  ASSUME TypeOK, NEW w \in Workers, Work(w), NEW v \in Workers, v # w
  PROVE  work'[v] = work[v]
  <1>1. CASE Attempt(w)
    <2>1. CASE FoldFault(w)
      BY <2>1, FoldStep DEF TypeOK
    <2> QED
      BY <1>1, <2>1 DEF Attempt, BeginAttempt, BeginCascade, TypeOK
  <1>2. CASE Span(w)
    BY <1>2 DEF Span, LookupAttrs, PutAttrs, StartSpan, FinishProducer, DecideOutcome,
                FinishSpan, EndSpan, TypeOK
  <1>3. CASE Emit(w)
    BY <1>3 DEF Emit, Report, RecordCustom, UpdateState, ReturnOutcome, TypeOK
  <1> QED
    BY <1>1, <1>2, <1>3 DEF Work

LEMMA EngineUnmoved ==
  ASSUME NEW w \in Workers, Work(w)
  PROVE  UNCHANGED engine
  BY DEF Work, Attempt, Span, Emit, BeginAttempt, BeginCascade, FoldFault, LookupAttrs,
         PutAttrs, StartSpan, FinishProducer, DecideOutcome, FinishSpan, Report,
         RecordCustom, UpdateState, ReturnOutcome

\* What the longer steps do to the record of their worker.
LEMMA DecideRecord ==
  ASSUME TypeOK, NEW w \in Workers, DecideOutcome(w)
  PROVE  \E o \in Outcomes(w) :
           LET told == Watched(w, Telemetry[work[w].node.place].profile)
           IN work'[w] = [work[w] EXCEPT !.pc = "finish", !.outcome = o,
                                         !.signals = [@ EXCEPT !.profile = told]]
  <1> DEFINE told == Watched(w, Telemetry[work[w].node.place].profile)
  <1> HIDE DEF told
  <1>1. PICK o \in Outcomes(w) :
          work' = [work EXCEPT ![w].pc = "finish", ![w].outcome = o,
                               ![w].signals.profile = told]
    BY DEF DecideOutcome, told
  <1>2. work'[w] = [work[w] EXCEPT !.pc = "finish", !.outcome = o,
                                   !.signals = [@ EXCEPT !.profile = told]]
    BY <1>1 DEF TypeOK
  <1> QED
    BY <1>2 DEF told

LEMMA FinishRecord ==
  ASSUME TypeOK, NEW w \in Workers, FinishSpan(w), ~work[w].finished
  PROVE  /\ active' = AddActive(work[w].node, -1)
         /\ work'[w] = [work[w] EXCEPT !.pc = "record", !.finished = TRUE,
              !.signals = [@ EXCEPT
                !.status = StatusFor(work[w].node, work[w].outcome),
                !.exception = ~work[w].outcome.success,
                !.attrs = DynamicOutcomeAttrs(work[w].node, work[w].outcome)]]
  BY DEF FinishSpan, EndSpan, TypeOK

LEMMA FinishAgain ==
  ASSUME NEW w \in Workers, FinishSpan(w), work[w].finished
  PROVE  UNCHANGED vars
  BY DEF FinishSpan, EndSpan, vars, engine

\* What they leave alone.
LEMMA SpanKeeps ==
  ASSUME TypeOK, NEW w \in Workers, Span(w)
  PROVE  /\ work'[w].folded = work[w].folded /\ work'[w].hit = work[w].hit
         /\ work'[w].muted = work[w].muted /\ work'[w].node = work[w].node
  <1>0. work[w] \in WorkSet
    BY DEF TypeOK
  <1>1. CASE LookupAttrs(w)
    BY <1>0, <1>1 DEF LookupAttrs, TypeOK, WorkSet
  <1>2. CASE PutAttrs(w)
    BY <1>0, <1>2 DEF PutAttrs, TypeOK, WorkSet
  <1>3. CASE StartSpan(w)
    BY <1>0, <1>3 DEF StartSpan, TypeOK, WorkSet
  <1>4. CASE FinishProducer(w)
    BY <1>0, <1>4 DEF FinishProducer, TypeOK, WorkSet
  <1>5. CASE DecideOutcome(w)
    BY <1>0, <1>5, DecideRecord DEF WorkSet
  <1>6. CASE FinishSpan(w)
    <2>1. CASE work[w].finished
      BY <1>6, <2>1, FinishAgain DEF vars
    <2>2. CASE ~work[w].finished
      BY <1>0, <1>6, <2>2, FinishRecord DEF WorkSet
    <2> QED
      BY <2>1, <2>2
  <1> QED
    BY <1>1, <1>2, <1>3, <1>4, <1>5, <1>6 DEF Span

-----------------------------------------------------------------------------
(***************************************************************************)
(* A target at 0.                                                          *)
(***************************************************************************)
\* What is in muted is at 0 still, and no fault of it has had an effect.
Silent(w) ==
  /\ \A t \in work[w].muted : overrides[t] = 0
  /\ \A f \in work[w].hit : TargetName(f.target) \notin work[w].muted

\* An intensity of 0 draws nothing.
LEMMA SilencedDrawsNothing ==
  ASSUME NEW f \in FaultSet, overrides[TargetName(f.target)] = 0,
         NEW drawn \in Draws(ClampProbability(f.probability * IntensityFor(f)))
  PROVE  ~Affects(f, IntensityFor(f), drawn)
  <1>1. IntensityFor(f) = 0
    BY DEF IntensityFor, Unset
  <1>2. f.probability * IntensityFor(f) = 0 /\ f.value * IntensityFor(f) = 0
    BY <1>1, FaultTypes, SynthAssumption
  <1>3. ClampProbability(f.probability * IntensityFor(f)) = 0
    BY <1>2, SynthAssumption DEF ClampProbability
  <1>4. drawn = FALSE
    BY <1>3 DEF Draws
  <1> QED
    BY <1>2, <1>4 DEF Affects

LEMMA SilentStep ==
  ASSUME TypeOK, \A w \in Workers : Silent(w), [Next]_vars, NEW v \in Workers
  PROVE  Silent(v)'
  <1>0. work[v] \in WorkSet
    BY DEF TypeOK
  <1>1. CASE UNCHANGED vars
    BY <1>1 DEF Silent, vars
  <1>2. CASE Script
    <2>1. ASSUME NEW x \in 0..MaxIntensity, NEW t \in Targets, SetFaultTargetIntensity(t, x)
          PROVE  Silent(v)'
      <3>1. /\ work'[v].hit = work[v].hit
            /\ work'[v].muted = IF x = 0 THEN work[v].muted ELSE work[v].muted \ {t}
        BY <1>0, <2>1 DEF SetFaultTargetIntensity, WorkSet
      <3>2. \A s \in work[v].muted : s # t => overrides'[s] = overrides[s]
        BY <1>0, <2>1 DEF SetFaultTargetIntensity, TypeOK, WorkSet
      <3>3. overrides'[t] = x
        BY <2>1 DEF SetFaultTargetIntensity, TypeOK
      <3> QED
        BY <3>1, <3>2, <3>3 DEF Silent
    <2>2. ASSUME UNCHANGED <<overrides, work>>
          PROVE  Silent(v)'
      BY <2>2 DEF Silent
    <2> QED
      BY <1>2, <2>1, <2>2 DEF Script, Tick, SetFaultIntensity
  <1>3. ASSUME NEW w \in Workers, Work(w), v # w
        PROVE  Silent(v)'
    BY <1>3, OthersUnmoved, EngineUnmoved DEF Silent, engine
  <1>4. CASE Work(v)
    <2>0. UNCHANGED overrides
      BY <1>4, EngineUnmoved DEF engine
    <2>1. ASSUME NEW n \in Nodes, BeginAttempt(v, n)
          PROVE  Silent(v)'
      <3>1. Idle.hit = {}
        BY DEF Idle
      <3>2. /\ work'[v].muted = {t \in Targets : overrides[t] = 0}
            /\ work'[v].hit = Idle.hit
        BY <2>1, IdleTypes DEF BeginAttempt, TypeOK, WorkSet
      <3> QED
        BY <2>0, <3>1, <3>2 DEF Silent
    <2>2. ASSUME work'[v].muted = {}, work'[v].hit = {}
          PROVE  Silent(v)'
      BY <2>2 DEF Silent
    <2>3. CASE FoldFault(v)
      <3>1. PICK next \in work[v].todo, drawn \in BOOLEAN :
              /\ drawn \in Draws(ClampProbability(Faults[next].probability *
                                                  IntensityFor(Faults[next])))
              /\ work' = [work EXCEPT ![v] = AfterFold(work[v], next, drawn)]
        BY <2>3, FoldStep
      <3> DEFINE spec == Faults[next]
      <3>2. spec \in FaultSet
        BY <1>0, FaultsInSet DEF WorkSet
      <3>3. /\ work'[v].muted = work[v].muted
            /\ work'[v].hit = IF Affects(spec, IntensityFor(spec), drawn)
                                THEN work[v].hit \cup {spec} ELSE work[v].hit
        BY <1>0, <3>1 DEF AfterFold, TypeOK, WorkSet
      <3>4. Affects(spec, IntensityFor(spec), drawn)
              => TargetName(spec.target) \notin work[v].muted
        BY <3>1, <3>2, SilencedDrawsNothing DEF Silent
      <3> HIDE DEF spec
      <3> QED
        BY <2>0, <3>3, <3>4 DEF Silent
    <2>4. CASE work'[v].muted = work[v].muted /\ work'[v].hit = work[v].hit
      BY <2>0, <2>4 DEF Silent
    <2>5. ASSUME NEW n \in Nodes, NEW o \in Cascades, BeginCascade(v, n, o)
          PROVE  work'[v].muted = {} /\ work'[v].hit = {}
      <3>1. Idle.hit = {} /\ Idle.muted = {}
        BY DEF Idle
      <3>2. work'[v].muted = Idle.muted /\ work'[v].hit = Idle.hit
        BY <2>5, IdleTypes DEF BeginCascade, TypeOK, WorkSet
      <3> QED
        BY <3>1, <3>2
    <2>6. ASSUME ReturnOutcome(v)
          PROVE  work'[v].muted = {} /\ work'[v].hit = {}
      BY <2>6 DEF ReturnOutcome, TypeOK, Idle
    <2>7. ASSUME Span(v)
          PROVE  work'[v].muted = work[v].muted /\ work'[v].hit = work[v].hit
      BY <1>0, <2>7, SpanKeeps
    <2>8. ASSUME Report(v) \/ RecordCustom(v) \/ UpdateState(v)
          PROVE  work'[v].muted = work[v].muted /\ work'[v].hit = work[v].hit
      BY <1>0, <2>8 DEF Report, RecordCustom, UpdateState, TypeOK, WorkSet
    <2> QED
      BY <1>4, <2>1, <2>2, <2>3, <2>4, <2>5, <2>6, <2>7, <2>8 DEF Work, Attempt, Emit
  <1> QED
    BY <1>1, <1>2, <1>3, <1>4 DEF Next, Work

\* A fault whose target a script has set to 0 affects no attempt that begins later, however
\* its schedule goes on and whatever setFaultIntensity does (journey/fault.go,
\* faultIntensityFor).
THEOREM SilencedStaysSilentCorrect == Spec => []SilencedStaysSilent
  <1> DEFINE Inv == \A w \in Workers : Silent(w)
  <1>1. Init => Inv
    BY DEF Init, Silent, Idle
  <1>2. TypeOK /\ Inv /\ [Next]_vars => Inv'
    BY SilentStep
  <1>3. Inv => SilencedStaysSilent
    BY DEF Silent, SilencedStaysSilent
  <1> QED
    BY <1>1, <1>2, <1>3, TypeCorrect, PTL DEF Spec

-----------------------------------------------------------------------------
(***************************************************************************)
(* What the reports of an attempt tell of faults.                          *)
(***************************************************************************)
Reports(w) == work[w].signals.profile \cup work[w].signals.metrics \cup work[w].signals.updates

\* What is folded has a fault that explains it, and what has been told is what is folded.
Explained(w) ==
  /\ work[w].folded.crashed => \E f \in work[w].hit : f.kind = "crash"
  /\ work[w].folded.disconnected => \E f \in work[w].hit : f.kind = "disconnect"
  /\ work[w].folded.inflated => \E f \in work[w].hit : f.kind = "latency_inflation"
  /\ work[w].pc = "fold" => Reports(w) = {}
  /\ \A x \in Reports(w) : x.incident = ActiveForKind(w, x.whenFault)

LEMMA NothingFolded ==
  NoFault.crashed = FALSE /\ NoFault.disconnected = FALSE /\ NoFault.inflated = FALSE
  BY DEF NoFault

LEMMA IdleExplained ==
  ASSUME TypeOK, NEW v \in Workers, work'[v].folded.crashed = FALSE,
         work'[v].folded.disconnected = FALSE, work'[v].folded.inflated = FALSE,
         work'[v].signals = NoSignals
  PROVE  Explained(v)'
  <1>1. Reports(v)' = {}
    BY DEF Reports, NoSignals
  <1> QED
    BY <1>1 DEF Explained

\* What a fold leaves active, the fault or what was folded before has made so.
LEMMA FoldExplained ==
  ASSUME NEW f \in Folds, NEW spec \in FaultSet, NEW i, NEW drawn \in BOOLEAN
  PROVE  LET g == Fold(f, spec, i, drawn)
         IN /\ g.crashed => f.crashed \/ (spec.kind = "crash" /\ Affects(spec, i, drawn))
            /\ g.disconnected =>
                 f.disconnected \/ (spec.kind = "disconnect" /\ Affects(spec, i, drawn))
            /\ g.inflated =>
                 f.inflated \/ (spec.kind = "latency_inflation" /\ Affects(spec, i, drawn))
  <1>1. spec.kind \in FaultKinds
    BY FaultTypes
  <1>2. CASE spec.kind = "crash"
    BY <1>2 DEF Fold, Folds, Affects
  <1>3. CASE spec.kind = "disconnect"
    BY <1>3 DEF Fold, Folds, Affects
  <1>4. CASE spec.kind = "latency_inflation"
    BY <1>4 DEF Fold, Folds, Affects
  <1>5. CASE spec.kind = "error_rate_override"
    BY <1>5 DEF Fold, Folds
  <1> QED
    BY <1>1, <1>2, <1>3, <1>4, <1>5 DEF FaultKinds

\* A step that adds to the reports what is folded.
LEMMA TellsWhatIsFolded ==
  ASSUME TypeOK, NEW v \in Workers, Explained(v), NEW kinds,
         work'[v].folded = work[v].folded, work'[v].hit = work[v].hit,
         work'[v].pc # "fold", Reports(v)' \subseteq Reports(v) \cup Watched(v, kinds)
  PROVE  Explained(v)'
  <1>1. \A k : ActiveForKind(v, k)' = ActiveForKind(v, k)
    BY DEF ActiveForKind
  <1>2. \A x \in Watched(v, kinds) : x.incident = ActiveForKind(v, x.whenFault)
    BY DEF Watched
  <1> QED
    BY <1>1, <1>2 DEF Explained

LEMMA ExplainedStep ==
  ASSUME TypeOK, \A w \in Workers : Explained(w), [Next]_vars, NEW v \in Workers
  PROVE  Explained(v)'
  <1> DEFINE r == work[v]
  <1>0. r \in WorkSet /\ r.signals \in SignalSet /\ r.folded \in Folds
    BY DEF TypeOK, WorkSet
  <1>a. ASSUME work'[v].folded = r.folded, work'[v].hit = r.hit, work'[v].pc = r.pc,
               work'[v].signals = r.signals
        PROVE  Explained(v)'
    <2>1. Reports(v)' = Reports(v)
      BY <1>a DEF Reports
    <2>2. \A k : ActiveForKind(v, k)' = ActiveForKind(v, k)
      BY <1>a DEF ActiveForKind
    <2> QED
      BY <1>a, <2>1, <2>2 DEF Explained
  <1>1. CASE UNCHANGED vars
    BY <1>1, <1>a DEF vars
  <1>2. CASE Script
    <2>1. ASSUME NEW x \in 0..MaxIntensity, NEW t \in Targets, SetFaultTargetIntensity(t, x)
          PROVE  Explained(v)'
      <3>1. /\ work'[v].hit = r.hit /\ work'[v].folded = r.folded /\ work'[v].pc = r.pc
            /\ work'[v].signals = r.signals
        BY <1>0, <2>1 DEF SetFaultTargetIntensity, WorkSet
      <3> QED
        BY <3>1, <1>a
    <2> QED
      BY <1>2, <1>a, <2>1 DEF Script, Tick, SetFaultIntensity
  <1>3. ASSUME NEW w \in Workers, Work(w), v # w
        PROVE  Explained(v)'
    BY <1>3, <1>a, OthersUnmoved
  <1>4. ASSUME NEW n \in Nodes, BeginAttempt(v, n)
        PROVE  Explained(v)'
    <2>1. /\ Idle.signals = NoSignals /\ Idle.folded = NoFault
      BY DEF Idle
    <2>2. /\ work'[v].folded.crashed = Idle.folded.crashed
          /\ work'[v].folded.disconnected = Idle.folded.disconnected
          /\ work'[v].folded.inflated = Idle.folded.inflated
          /\ work'[v].signals = Idle.signals
      BY <1>4, IdleTypes DEF BeginAttempt, TypeOK, WorkSet, Folds
    <2> QED
      BY <2>1, <2>2, NothingFolded, IdleExplained
  <1>5. ASSUME NEW n \in Nodes, NEW o \in Cascades, BeginCascade(v, n, o)
        PROVE  Explained(v)'
    <2>1. Idle.signals = NoSignals /\ Idle.folded = NoFault
      BY DEF Idle
    <2>2. work'[v].folded = Idle.folded /\ work'[v].signals = Idle.signals
      BY <1>5, IdleTypes DEF BeginCascade, TypeOK, WorkSet
    <2> QED
      BY <2>1, <2>2, NothingFolded, IdleExplained
  <1>6. CASE FoldFault(v)
    <2>1. PICK next \in r.todo, drawn \in BOOLEAN :
            work' = [work EXCEPT ![v] = AfterFold(r, next, drawn)]
      BY <1>6, FoldStep
    <2> DEFINE spec == Faults[next]
               i == IntensityFor(spec)
    <2>2. spec \in FaultSet
      BY <1>0, FaultsInSet DEF WorkSet
    <2>3. /\ work'[v].folded = Fold(r.folded, spec, i, drawn)
          /\ work'[v].hit = IF Affects(spec, i, drawn) THEN r.hit \cup {spec} ELSE r.hit
          /\ work'[v].signals = r.signals
      BY <1>0, <2>1 DEF AfterFold, TypeOK, WorkSet
    <2>4. Reports(v) = {}
      BY <1>6 DEF FoldFault, Explained
    <2>5. Reports(v)' = {}
      BY <2>3, <2>4 DEF Reports
    <2> HIDE DEF spec, i
    <2> QED
      BY <1>0, <2>2, <2>3, <2>5, FoldExplained DEF Explained
  <1>7. CASE Span(v)
    <2>1. work'[v].folded = r.folded /\ work'[v].hit = r.hit
      BY <1>7, SpanKeeps
    <2>2. CASE LookupAttrs(v) \/ PutAttrs(v) \/ StartSpan(v) \/ FinishProducer(v)
      <3>1. work'[v].signals = r.signals /\ work'[v].pc # "fold"
        BY <1>0, <2>2 DEF LookupAttrs, PutAttrs, StartSpan, FinishProducer, TypeOK, WorkSet
      <3>2. Reports(v)' = Reports(v)
        BY <3>1 DEF Reports
      <3> QED
        BY <2>1, <3>1, <3>2, TellsWhatIsFolded
    <2>3. CASE DecideOutcome(v)
      <3> DEFINE kinds == Telemetry[r.node.place].profile
      <3>1. /\ work'[v].signals = [r.signals EXCEPT !.profile = Watched(v, kinds)]
            /\ work'[v].pc = "finish"
        BY <1>0, <2>3, DecideRecord DEF WorkSet
      <3> HIDE DEF kinds
      <3>2. Reports(v)' \subseteq Reports(v) \cup Watched(v, kinds)
        BY <1>0, <3>1 DEF Reports, SignalSet
      <3> QED
        BY <2>1, <3>1, <3>2, TellsWhatIsFolded
    <2>4. CASE FinishSpan(v) /\ r.finished
      BY <1>a, <2>4, FinishAgain DEF vars
    <2>5. CASE FinishSpan(v) /\ ~r.finished
      <3>0. /\ work'[v].signals = [r.signals EXCEPT
                  !.status = StatusFor(r.node, r.outcome),
                  !.exception = ~r.outcome.success,
                  !.attrs = DynamicOutcomeAttrs(r.node, r.outcome)]
            /\ work'[v].pc = "record"
        BY <1>0, <2>5, FinishRecord DEF WorkSet
      <3>1. /\ work'[v].signals.profile = r.signals.profile
            /\ work'[v].signals.metrics = r.signals.metrics
            /\ work'[v].signals.updates = r.signals.updates
            /\ work'[v].pc = "record"
        BY <1>0, <3>0 DEF SignalSet
      <3>2. Reports(v)' = Reports(v)
        BY <3>1 DEF Reports
      <3> QED
        BY <2>1, <3>1, <3>2, TellsWhatIsFolded
    <2> QED
      BY <1>7, <2>2, <2>3, <2>4, <2>5 DEF Span
  <1>8. CASE Report(v)
    <2>1. /\ work'[v].signals.profile = r.signals.profile
          /\ work'[v].signals.metrics = r.signals.metrics
          /\ work'[v].signals.updates = r.signals.updates
          /\ work'[v].pc = "custom" /\ work'[v].folded = r.folded /\ work'[v].hit = r.hit
      BY <1>0, <1>8 DEF Report, TypeOK, WorkSet, SignalSet
    <2>2. Reports(v)' = Reports(v)
      BY <2>1 DEF Reports
    <2> QED
      BY <2>1, <2>2, TellsWhatIsFolded
  <1>9. CASE RecordCustom(v) \/ UpdateState(v)
    <2>1. PICK kinds :
            /\ \/ work'[v].signals = [r.signals EXCEPT !.metrics = Watched(v, kinds)]
               \/ work'[v].signals = [r.signals EXCEPT !.updates = Watched(v, kinds)]
            /\ work'[v].pc # "fold" /\ work'[v].folded = r.folded /\ work'[v].hit = r.hit
      <3>1. CASE RecordCustom(v)
        <4> DEFINE kinds == {m.whenFault : m \in
                               {x \in Telemetry[r.node.place].metrics :
                                Matches(x.condition, r.outcome)}}
        <4>1. work' = [work EXCEPT ![v].pc = "state",
                                   ![v].signals.metrics = Watched(v, kinds)]
          BY <3>1 DEF RecordCustom, Incidents
        <4> HIDE DEF kinds
        <4>2. /\ work'[v].signals = [r.signals EXCEPT !.metrics = Watched(v, kinds)]
              /\ work'[v].pc = "state" /\ work'[v].folded = r.folded /\ work'[v].hit = r.hit
          BY <1>0, <4>1 DEF TypeOK, WorkSet
        <4> QED
          BY <4>2
      <3>2. CASE UpdateState(v)
        <4> DEFINE kinds == {m.whenFault : m \in
                               {x \in Telemetry[r.node.place].updates :
                                Matches(x.condition, r.outcome)}}
        <4>1. work' = [work EXCEPT ![v].pc = "done",
                                   ![v].signals.updates = Watched(v, kinds)]
          BY <3>2 DEF UpdateState, Incidents
        <4> HIDE DEF kinds
        <4>2. /\ work'[v].signals = [r.signals EXCEPT !.updates = Watched(v, kinds)]
              /\ work'[v].pc = "done" /\ work'[v].folded = r.folded /\ work'[v].hit = r.hit
          BY <1>0, <4>1 DEF TypeOK, WorkSet
        <4> QED
          BY <4>2
      <3> QED
        BY <1>9, <3>1, <3>2
    <2>2. Reports(v)' \subseteq Reports(v) \cup Watched(v, kinds)
      BY <1>0, <2>1 DEF Reports, SignalSet
    <2> QED
      BY <2>1, <2>2, TellsWhatIsFolded
  <1>10. CASE ReturnOutcome(v)
    <2>1. Idle.signals = NoSignals /\ Idle.folded = NoFault
      BY DEF Idle
    <2>2. work'[v] = Idle
      BY <1>10 DEF ReturnOutcome, TypeOK
    <2> QED
      BY <2>1, <2>2, NothingFolded, IdleExplained
  <1>11. Work(v) => Explained(v)'
    BY <1>4, <1>5, <1>6, <1>7, <1>8, <1>9, <1>10 DEF Work, Attempt, Emit
  <1> QED
    BY <1>1, <1>2, <1>3, <1>11 DEF Next, Work

\* Metrics, state updates and profile of an attempt tell the same of a fault, and tell of
\* an incident only when a fault of that kind has affected this attempt, although
\* intensities change while it runs (journey/executor.go, faultActiveForKind).
THEOREM IncidentsAgreeCorrect == Spec => []IncidentsAgree
  <1> DEFINE Inv == \A w \in Workers : Explained(w)
  <1>1. Init => Inv
    <2> SUFFICES ASSUME Init, NEW w \in Workers PROVE Explained(w)
      OBVIOUS
    <2>1. work[w].signals = NoSignals /\ work[w].folded = NoFault
      BY DEF Init, Idle
    <2>2. Reports(w) = {}
      BY <2>1 DEF Reports, NoSignals
    <2> QED
      BY <2>1, <2>2 DEF Explained, NoFault
  <1>2. TypeOK /\ Inv /\ [Next]_vars => Inv'
    BY ExplainedStep
  <1>3. TypeOK /\ Inv => IncidentsAgree
    <2> SUFFICES ASSUME TypeOK, Inv, NEW w \in Workers,
                        NEW x \in Reports(w), NEW y \in Reports(w)
                 PROVE  /\ x.whenFault = y.whenFault => x.incident = y.incident
                        /\ x.incident /\ x.whenFault # "error_rate_override" =>
                             \E f \in work[w].hit : f.kind = x.whenFault
      BY DEF IncidentsAgree, Reports
    <2>1. /\ x.incident = ActiveForKind(w, x.whenFault)
          /\ y.incident = ActiveForKind(w, y.whenFault)
      BY DEF Explained
    <2>2. x.whenFault \in FaultKinds
      BY DEF Reports, TypeOK, WorkSet, SignalSet, Incident
    <2>3. x.incident /\ x.whenFault # "error_rate_override" =>
            \E f \in work[w].hit : f.kind = x.whenFault
      BY <2>1, <2>2 DEF Explained, ActiveForKind, FaultKinds
    <2> QED
      BY <2>1, <2>3
  <1> QED
    BY <1>1, <1>2, <1>3, TypeCorrect, PTL DEF Spec

-----------------------------------------------------------------------------
(***************************************************************************)
(* How far an attempt is: the producer's span ends before the operation's  *)
(* begins, the operation's is finished before its report, and from the     *)
(* lookup on the cache holds the attributes.                               *)
(***************************************************************************)
Reported == {"record", "custom", "state", "done"}
Progress(w) ==
  /\ work[w].publishing => work[w].pc \in {"fold", "begin", "put", "start", "open"}
  /\ work[w].finished <=> work[w].pc \in Reported
  /\ work[w].pc \in {"start", "open", "finish"} \cup Reported =>
       cache[CacheKeyFor(InputOf(w))] # {}

\* An entry of the cache is never emptied.
LEMMA CacheKept ==
  ASSUME TypeOK, [Next]_vars, NEW k \in CacheKeys, cache[k] # {}
  PROVE  cache'[k] # {}
  <1>1. ASSUME NEW w \in Workers, PutAttrs(w)
        PROVE  cache'[k] # {}
    BY <1>1, StaticSetsNonempty DEF PutAttrs, TypeOK
  <1>2. ASSUME UNCHANGED cache
        PROVE  cache'[k] # {}
    BY <1>2
  <1>3. UNCHANGED cache \/ \E w \in Workers : PutAttrs(w)
    BY CacheChanges
  <1> QED
    BY <1>1, <1>2, <1>3

LEMMA ProgressStep ==
  ASSUME TypeOK, \A w \in Workers : Progress(w), [Next]_vars, NEW v \in Workers
  PROVE  Progress(v)'
  <1> DEFINE r == work[v]
             k == CacheKeyFor(InputOf(v))
  <1>0. r \in WorkSet /\ k \in CacheKeys
    BY DEF TypeOK, WorkSet, CacheKeys
  <1>a. ASSUME work'[v].pc = r.pc, work'[v].publishing = r.publishing,
               work'[v].finished = r.finished, work'[v].node = r.node
        PROVE  Progress(v)'
    <2>1. InputOf(v)' = InputOf(v)
      BY <1>a DEF InputOf
    <2> QED
      BY <1>0, <1>a, <2>1, CacheKept DEF Progress
  <1>b. ASSUME work'[v].pc \in {"idle", "fold", "begin"}, ~work'[v].finished,
               work'[v].pc = "idle" => ~work'[v].publishing
        PROVE  Progress(v)'
    BY <1>b DEF Progress, Reported
  <1>1. CASE UNCHANGED vars
    BY <1>1, <1>a DEF vars
  <1>2. CASE Script
    <2>1. ASSUME NEW x \in 0..MaxIntensity, NEW t \in Targets, SetFaultTargetIntensity(t, x)
          PROVE  Progress(v)'
      <3>1. /\ work'[v].pc = r.pc /\ work'[v].publishing = r.publishing
            /\ work'[v].finished = r.finished /\ work'[v].node = r.node
        BY <1>0, <2>1 DEF SetFaultTargetIntensity, WorkSet
      <3> QED
        BY <3>1, <1>a
    <2> QED
      BY <1>2, <1>a, <2>1 DEF Script, Tick, SetFaultIntensity
  <1>3. ASSUME NEW w \in Workers, Work(w), v # w
        PROVE  Progress(v)'
    BY <1>3, <1>a, OthersUnmoved
  <1>4. CASE Attempt(v)
    <2>0. Idle.finished = FALSE
      BY DEF Idle
    <2>1. ASSUME NEW n \in Nodes, BeginAttempt(v, n)
          PROVE  Progress(v)'
      <3>1. work'[v].pc \in {"begin", "fold"} /\ work'[v].finished = Idle.finished
        BY <2>1, IdleTypes DEF BeginAttempt, TypeOK, WorkSet
      <3> QED
        BY <1>b, <2>0, <3>1
    <2>2. ASSUME NEW n \in Nodes, NEW o \in Cascades, BeginCascade(v, n, o)
          PROVE  Progress(v)'
      <3>1. work'[v].pc = "begin" /\ work'[v].finished = Idle.finished
        BY <2>2, IdleTypes DEF BeginCascade, TypeOK, WorkSet
      <3> QED
        BY <1>b, <2>0, <3>1
    <2>3. CASE FoldFault(v)
      <3>1. ~r.finished
        BY <2>3 DEF FoldFault, Progress, Reported
      <3>0. PICK next \in r.todo, drawn \in BOOLEAN :
              work' = [work EXCEPT ![v] = AfterFold(work[v], next, drawn)]
        BY <2>3, FoldStep
      <3>2. work'[v].pc \in {"begin", "fold"} /\ work'[v].finished = r.finished
        BY <1>0, <3>0 DEF AfterFold, TypeOK, WorkSet
      <3> QED
        BY <1>b, <3>1, <3>2
    <2> QED
      BY <1>4, <2>1, <2>2, <2>3 DEF Attempt
  <1>5. CASE LookupAttrs(v)
    <2>1. /\ work'[v].publishing = r.publishing /\ work'[v].node = r.node
          /\ work'[v].finished = r.finished /\ work'[v].pc \in {"put", "start"}
          /\ r.pc = "begin" /\ (work'[v].pc = "start" => cache[k] # {})
      BY <1>0, <1>5 DEF LookupAttrs, TypeOK, WorkSet
    <2>2. InputOf(v)' = InputOf(v) /\ cache' = cache
      BY <1>5, <2>1 DEF InputOf, LookupAttrs
    <2> QED
      BY <2>1, <2>2 DEF Progress, Reported
  <1>6. CASE PutAttrs(v)
    <2>1. /\ work'[v].publishing = r.publishing /\ work'[v].node = r.node
          /\ work'[v].finished = r.finished /\ work'[v].pc = "start" /\ r.pc = "put"
      BY <1>0, <1>6 DEF PutAttrs, TypeOK, WorkSet
    <2>2. InputOf(v)' = InputOf(v)
      BY <2>1 DEF InputOf
    <2>3. cache'[k] # {}
      BY <1>0, <1>6, StaticSetsNonempty DEF PutAttrs, TypeOK
    <2> QED
      BY <2>1, <2>2, <2>3 DEF Progress, Reported
  <1>7. CASE StartSpan(v)
    <2>1. /\ work'[v].publishing = r.publishing /\ work'[v].node = r.node
          /\ work'[v].finished = r.finished /\ work'[v].pc = "open" /\ r.pc = "start"
      BY <1>0, <1>7 DEF StartSpan, TypeOK, WorkSet
    <2>2. InputOf(v)' = InputOf(v) /\ cache' = cache
      BY <1>7, <2>1 DEF InputOf, StartSpan
    <2> QED
      BY <2>1, <2>2 DEF Progress, Reported
  <1>8. CASE FinishProducer(v)
    <2>1. work'[v].finished = r.finished /\ work'[v].pc = "begin" /\ r.pc = "open"
      BY <1>0, <1>8 DEF FinishProducer, TypeOK, WorkSet
    <2>2. ~r.finished
      BY <2>1 DEF Progress, Reported
    <2> QED
      BY <1>b, <2>1, <2>2
  <1>9. CASE DecideOutcome(v)
    <2>1. /\ work'[v].publishing = r.publishing /\ work'[v].node = r.node
          /\ work'[v].finished = r.finished /\ work'[v].pc = "finish"
      BY <1>0, <1>9, DecideRecord DEF WorkSet
    <2>2. r.pc = "open" /\ ~r.publishing /\ cache' = cache
      BY <1>9 DEF DecideOutcome
    <2>3. InputOf(v)' = InputOf(v)
      BY <2>1 DEF InputOf
    <2> QED
      BY <2>1, <2>2, <2>3 DEF Progress, Reported
  <1>10. CASE FinishSpan(v)
    <2>1. CASE r.finished
      BY <1>1, <1>10, <2>1, FinishAgain
    <2>2. CASE ~r.finished
      <3>1. /\ work'[v].publishing = r.publishing /\ work'[v].node = r.node
            /\ work'[v].finished = TRUE /\ work'[v].pc = "record"
        BY <1>0, <1>10, <2>2, FinishRecord DEF WorkSet
      <3>2. r.pc = "finish" /\ cache' = cache
        BY <1>10, <2>2 DEF FinishSpan, Progress, Reported
      <3>3. InputOf(v)' = InputOf(v)
        BY <3>1 DEF InputOf
      <3> QED
        BY <3>1, <3>2, <3>3 DEF Progress, Reported
    <2> QED
      BY <2>1, <2>2
  <1>11. CASE Report(v) \/ RecordCustom(v) \/ UpdateState(v)
    <2>1. /\ work'[v].publishing = r.publishing /\ work'[v].node = r.node
          /\ work'[v].finished = r.finished
          /\ r.pc \in Reported /\ work'[v].pc \in Reported
      BY <1>0, <1>11 DEF Report, RecordCustom, UpdateState, TypeOK, WorkSet, Reported
    <2>2. InputOf(v)' = InputOf(v) /\ cache' = cache
      BY <1>11, <2>1 DEF InputOf, Report, RecordCustom, UpdateState
    <2> QED
      BY <2>1, <2>2 DEF Progress, Reported
  <1>12. CASE ReturnOutcome(v)
    <2>1. Idle.pc = "idle" /\ Idle.finished = FALSE /\ Idle.publishing = FALSE
      BY DEF Idle
    <2>2. work'[v] = Idle
      BY <1>12 DEF ReturnOutcome, TypeOK
    <2> QED
      BY <1>b, <2>1, <2>2
  <1>13. Work(v) => Progress(v)'
    BY <1>4, <1>5, <1>6, <1>7, <1>8, <1>9, <1>10, <1>11, <1>12 DEF Work, Span, Emit
  <1> QED
    BY <1>1, <1>2, <1>3, <1>13 DEF Next, Work

LEMMA ProgressHolds == Spec => [](\A w \in Workers : Progress(w))
  <1> DEFINE Inv == \A w \in Workers : Progress(w)
  <1>1. Init => Inv
    BY DEF Init, Progress, Idle, Reported
  <1>2. TypeOK /\ Inv /\ [Next]_vars => Inv'
    BY ProgressStep
  <1> QED
    BY <1>1, <1>2, TypeCorrect, PTL DEF Spec

-----------------------------------------------------------------------------
(***************************************************************************)
(* The counters of active requests.                                        *)
(***************************************************************************)
OpenServer(w) == work[w].pc \in {"open", "finish"} /\ CountsActive(InputOf(w))
AttrsOf(w) == BuildStaticSet(InputOf(w))
OpenWith(a) == {w \in Workers : OpenServer(w) /\ AttrsOf(w) = a}

LEMMA ActiveExactAs ==
  /\ ActiveExact <=> \A a \in StaticSets : active[a] = Cardinality(OpenWith(a))
  /\ ActiveExact' <=> \A a \in StaticSets : active'[a] = Cardinality(OpenWith(a)')
  BY DEF ActiveExact, OpenWith, OpenServer, AttrsOf

LEMMA OpenFinite == \A a : IsFiniteSet(OpenWith(a)) /\ Cardinality(OpenWith(a)) \in Nat
  <1>1. \A a : OpenWith(a) \subseteq Workers
    BY DEF OpenWith
  <1> QED
    BY <1>1, FS_Subset, FS_CardinalityType, SynthAssumption

\* Where no server span begins or ends.
LEMMA ActiveKept ==
  ASSUME ActiveExact, UNCHANGED active,
         \A v \in Workers : /\ OpenServer(v)' <=> OpenServer(v)
                            /\ OpenServer(v) => AttrsOf(v)' = AttrsOf(v)
  PROVE  ActiveExact'
  <1>1. ASSUME NEW a \in StaticSets
        PROVE  OpenWith(a)' = OpenWith(a)
    BY DEF OpenWith
  <1> QED
    BY <1>1, ActiveExactAs

\* Where one begins.
LEMMA ActiveAdded ==
  ASSUME TypeOK, ActiveExact, NEW w \in Workers,
         \A v \in Workers \ {w} : work'[v] = work[v],
         ~OpenServer(w), OpenServer(w)',
         active' = [active EXCEPT ![AttrsOf(w)'] = @ + 1]
  PROVE  ActiveExact'
  <1> SUFFICES ASSUME NEW a \in StaticSets
               PROVE  active'[a] = Cardinality(OpenWith(a)')
    BY ActiveExactAs
  <1> DEFINE b == AttrsOf(w)'
  <1>1. active[a] = Cardinality(OpenWith(a)) /\ active \in [StaticSets -> Int]
    BY ActiveExactAs DEF TypeOK
  <1>2. \A v \in Workers \ {w} : /\ OpenServer(v)' <=> OpenServer(v)
                                 /\ AttrsOf(v)' = AttrsOf(v)
    BY DEF OpenServer, AttrsOf, InputOf
  <1>3. CASE a = b
    <2>1. OpenWith(a)' = OpenWith(a) \cup {w} /\ w \notin OpenWith(a)
      BY <1>2, <1>3 DEF OpenWith
    <2>2. Cardinality(OpenWith(a)') = Cardinality(OpenWith(a)) + 1
      BY <2>1, OpenFinite, FS_AddElement
    <2> QED
      BY <1>1, <1>3, <2>2
  <1>4. CASE a # b
    <2>1. OpenWith(a)' = OpenWith(a)
      BY <1>2, <1>4 DEF OpenWith
    <2> QED
      BY <1>1, <1>4, <2>1
  <1> QED
    BY <1>3, <1>4

\* Where one ends.
LEMMA ActiveRemoved ==
  ASSUME TypeOK, ActiveExact, NEW w \in Workers,
         \A v \in Workers \ {w} : work'[v] = work[v],
         OpenServer(w), ~OpenServer(w)',
         active' = [active EXCEPT ![AttrsOf(w)] = @ + -1]
  PROVE  ActiveExact'
  <1> SUFFICES ASSUME NEW a \in StaticSets
               PROVE  active'[a] = Cardinality(OpenWith(a)')
    BY ActiveExactAs
  <1> DEFINE b == AttrsOf(w)
  <1>1. active[a] = Cardinality(OpenWith(a)) /\ active \in [StaticSets -> Int]
    BY ActiveExactAs DEF TypeOK
  <1>2. \A v \in Workers \ {w} : /\ OpenServer(v)' <=> OpenServer(v)
                                 /\ AttrsOf(v)' = AttrsOf(v)
    BY DEF OpenServer, AttrsOf, InputOf
  <1>3. CASE a = b
    <2>1. OpenWith(a)' = OpenWith(a) \ {w} /\ w \in OpenWith(a)
      BY <1>2, <1>3 DEF OpenWith
    <2>2. Cardinality(OpenWith(a)') = Cardinality(OpenWith(a)) - 1
      BY <2>1, OpenFinite, FS_RemoveElement
    <2>3. Cardinality(OpenWith(a)) \in Nat
      BY OpenFinite
    <2> QED
      BY <1>1, <1>3, <2>2, <2>3
  <1>4. CASE a # b
    <2>1. OpenWith(a)' = OpenWith(a)
      BY <1>2, <1>4 DEF OpenWith
    <2> QED
      BY <1>1, <1>4, <2>1
  <1> QED
    BY <1>3, <1>4

\* The counter that is moved is that of the operation's own attributes.
LEMMA AddActiveAt ==
  ASSUME TypeOK, CacheSound, NEW in \in Inputs, NEW delta,
         cache[CacheKeyFor(in)] # {}, CountsActive(in)
  PROVE  AddActive(in, delta) = [active EXCEPT ![BuildStaticSet(in)] = @ + delta]
  <1>1. PolicyFor(in).direction = "server"
    BY PolicyTypes DEF CountsActive, PolicyFor, SpanKindFor
  <1>2. Given(in) = {BuildStaticSet(in)}
    BY <1>1 DEF Given, Alike
  <1>3. cache[CacheKeyFor(in)] \in {{}} \cup Given(in)
    BY CacheSoundAs
  <1> QED
    BY <1>2, <1>3 DEF AddActive

LEMMA ActiveHeld ==
  ASSUME TypeOK, CacheSound, \A w \in Workers : Progress(w), ActiveExact, [Next]_vars
  PROVE  ActiveExact'
  <1>1. CASE UNCHANGED vars
    BY <1>1, ActiveKept DEF vars, OpenServer, AttrsOf, InputOf
  <1>2. CASE Script
    <2>1. \A v \in Workers : /\ work'[v].pc = work[v].pc /\ work'[v].node = work[v].node
                             /\ work'[v].publishing = work[v].publishing
      <3>1. ASSUME NEW t \in Targets, NEW x \in 0..MaxIntensity,
                   SetFaultTargetIntensity(t, x)
            PROVE  \A v \in Workers : /\ work'[v].pc = work[v].pc
                                      /\ work'[v].node = work[v].node
                                      /\ work'[v].publishing = work[v].publishing
        BY <3>1 DEF SetFaultTargetIntensity, TypeOK, WorkSet
      <3> QED
        BY <1>2, <3>1 DEF Script, Tick, SetFaultIntensity
    <2>2. UNCHANGED active
      BY <1>2 DEF Script, Tick, SetFaultIntensity, SetFaultTargetIntensity
    <2> QED
      BY <2>1, <2>2, ActiveKept DEF OpenServer, AttrsOf, InputOf
  <1>3. ASSUME NEW w \in Workers, Work(w)
        PROVE  ActiveExact'
    <2> DEFINE r == work[w]
               in == InputOf(w)
    <2>a. \A v \in Workers \ {w} : work'[v] = work[v]
      BY <1>3, OthersUnmoved
    <2>b. \A v \in Workers \ {w} : /\ OpenServer(v)' <=> OpenServer(v)
                                   /\ AttrsOf(v)' = AttrsOf(v)
      BY <2>a DEF OpenServer, AttrsOf, InputOf
    <2>c. r \in WorkSet /\ in \in Inputs
      BY DEF TypeOK
    <2>d. ASSUME UNCHANGED active, r.pc \notin {"open", "finish"},
                 work'[w].pc \notin {"open", "finish"}
          PROVE  ActiveExact'
      <3>1. ~OpenServer(w) /\ ~OpenServer(w)'
        BY <2>d DEF OpenServer
      <3> QED
        BY <2>b, <2>d, <3>1, ActiveKept
    <2>e. ASSUME r.pc \in {"open", "finish"}, work'[w].pc \notin {"open", "finish"},
                 active' = AddActive(in, -1)
          PROVE  ActiveExact'
      <3>1. ~OpenServer(w)'
        BY <2>e DEF OpenServer
      <3>2. CASE CountsActive(in)
        <4>1. active' = [active EXCEPT ![AttrsOf(w)] = @ + -1]
          BY <2>c, <2>e, <3>2, AddActiveAt DEF Progress, AttrsOf
        <4> QED
          BY <2>a, <2>e, <3>1, <3>2, <4>1, ActiveRemoved DEF OpenServer
      <3>3. CASE ~CountsActive(in)
        <4>1. UNCHANGED active
          BY <2>e, <3>3 DEF AddActive
        <4>2. ~OpenServer(w)
          BY <3>3 DEF OpenServer
        <4> QED
          BY <2>b, <3>1, <4>1, <4>2, ActiveKept
      <3> QED
        BY <3>2, <3>3
    <2>1. CASE Attempt(w)
      <3>1. CASE FoldFault(w)
        <4>1. PICK next \in r.todo, drawn \in BOOLEAN :
                work' = [work EXCEPT ![w] = AfterFold(work[w], next, drawn)]
          BY <3>1, FoldStep
        <4>2. work'[w].pc \in {"begin", "fold"}
          BY <2>c, <4>1 DEF AfterFold, TypeOK, WorkSet
        <4> QED
          BY <2>d, <3>1, <4>2 DEF FoldFault
      <3>2. CASE \E n \in Nodes : BeginAttempt(w, n)
        <4>1. work'[w].pc \in {"begin", "fold"} /\ r.pc = "idle" /\ UNCHANGED active
          BY <3>2, IdleTypes DEF BeginAttempt, TypeOK, WorkSet
        <4> QED
          BY <2>d, <4>1
      <3>3. CASE \E n \in Nodes : \E o \in Cascades : BeginCascade(w, n, o)
        <4>1. work'[w].pc = "begin" /\ r.pc = "idle" /\ UNCHANGED active
          BY <3>3, IdleTypes DEF BeginCascade, TypeOK, WorkSet
        <4> QED
          BY <2>d, <4>1
      <3> QED
        BY <2>1, <3>1, <3>2, <3>3 DEF Attempt
    <2>2. CASE LookupAttrs(w) \/ PutAttrs(w)
      <3>1. /\ r.pc \in {"begin", "put"} /\ work'[w].pc \in {"put", "start"}
            /\ UNCHANGED active
        BY <2>2, <2>c DEF LookupAttrs, PutAttrs, TypeOK, WorkSet
      <3> QED
        BY <2>d, <3>1
    <2>3. CASE StartSpan(w)
      <3>1. /\ work'[w].pc = "open" /\ work'[w].node = r.node
            /\ work'[w].publishing = r.publishing
            /\ r.pc = "start" /\ active' = AddActive(in, 1)
        BY <2>3, <2>c DEF StartSpan, TypeOK, WorkSet
      <3>2. ~OpenServer(w) /\ InputOf(w)' = in
        BY <3>1 DEF OpenServer, InputOf
      <3>3. CASE CountsActive(in)
        <4>1. active' = [active EXCEPT ![AttrsOf(w)'] = @ + 1]
          BY <2>c, <3>1, <3>2, <3>3, AddActiveAt DEF Progress, AttrsOf
        <4> QED
          BY <2>a, <3>1, <3>2, <3>3, <4>1, ActiveAdded DEF OpenServer
      <3>4. CASE ~CountsActive(in)
        <4>1. UNCHANGED active /\ ~OpenServer(w)'
          BY <3>1, <3>2, <3>4 DEF AddActive, OpenServer
        <4> QED
          BY <2>b, <3>2, <4>1, ActiveKept
      <3> QED
        BY <3>3, <3>4
    <2>4. CASE FinishProducer(w)
      <3>1. r.pc = "open" /\ work'[w].pc = "begin" /\ active' = AddActive(in, -1)
        BY <2>4, <2>c DEF FinishProducer, TypeOK, WorkSet
      <3> QED
        BY <2>e, <3>1
    <2>5. CASE DecideOutcome(w)
      <3>1. /\ work'[w].publishing = r.publishing /\ work'[w].node = r.node
            /\ work'[w].pc = "finish" /\ r.pc = "open" /\ UNCHANGED active
        BY <2>5, <2>c, DecideRecord DEF DecideOutcome, WorkSet
      <3>2. (OpenServer(w)' <=> OpenServer(w)) /\ AttrsOf(w)' = AttrsOf(w)
        BY <3>1 DEF OpenServer, AttrsOf, InputOf
      <3> QED
        BY <2>b, <3>1, <3>2, ActiveKept
    <2>6. CASE FinishSpan(w)
      <3>1. CASE r.finished
        BY <1>1, <2>6, <3>1, FinishAgain
      <3>2. CASE ~r.finished
        <4>1. r.pc = "finish" /\ ~r.publishing
          BY <2>6, <3>2 DEF FinishSpan, Progress, Reported
        <4>2. in = r.node
          BY <4>1 DEF InputOf
        <4>3. active' = AddActive(in, -1) /\ work'[w].pc = "record"
          BY <2>6, <2>c, <3>2, <4>2, FinishRecord DEF WorkSet
        <4> QED
          BY <2>e, <4>1, <4>3
      <3> QED
        BY <3>1, <3>2
    <2>7. CASE Emit(w)
      <3>1. /\ r.pc \in {"record", "custom", "state", "done"} /\ UNCHANGED active
            /\ work'[w].pc \in {"custom", "state", "done", "idle"}
        BY <2>7, <2>c, IdleTypes
           DEF Emit, Report, RecordCustom, UpdateState, ReturnOutcome, TypeOK, WorkSet, Idle
      <3> QED
        BY <2>d, <3>1
    <2> QED
      BY <1>3, <2>1, <2>2, <2>3, <2>4, <2>5, <2>6, <2>7 DEF Work, Span
  <1> QED
    BY <1>1, <1>2, <1>3 DEF Next, Work

\* The active-request counters count the open server spans of all branches, under the
\* attributes of each (synth/synthesizer.go, maybeIncActive and maybeDecActive).
THEOREM ActiveExactCorrect == Spec => []ActiveExact
  <1> DEFINE Inv == \A w \in Workers : Progress(w)
  <1>1. Init => ActiveExact
    <2> SUFFICES ASSUME Init, NEW a \in StaticSets
                 PROVE  active[a] = Cardinality(OpenWith(a))
      BY ActiveExactAs
    <2>1. \A w \in Workers : work[w].pc = "idle"
      BY DEF Init, Idle
    <2>2. OpenWith(a) = {}
      BY <2>1 DEF OpenWith, OpenServer
    <2> QED
      BY <2>2, FS_EmptySet DEF Init
  <1>2. TypeOK /\ CacheSound /\ Inv /\ ActiveExact /\ [Next]_vars => ActiveExact'
    BY ActiveHeld
  <1> QED
    BY <1>1, <1>2, TypeCorrect, CacheSoundCorrect, ProgressHolds, PTL DEF Spec

-----------------------------------------------------------------------------
(***************************************************************************)
(* What is told of an outcome.                                             *)
(***************************************************************************)
\* The span is finished with the operation's outcome, and the report repeats it.
SpanTold(r) ==
  /\ r.signals.status = StatusFor(r.node, r.outcome)
  /\ r.signals.exception <=> ~r.outcome.success
  /\ r.signals.attrs = DynamicOutcomeAttrs(r.node, r.outcome)
ReportTold(r) ==
  LET s == r.signals
  IN /\ s.point \in Given(r.node)
     /\ s.pointAttrs = DynamicOutcomeAttrs(r.node, r.outcome)
     /\ s.severity = IF r.outcome.success THEN "info" ELSE "error"
     /\ s.logException <=> ~r.outcome.success /\ r.outcome.error # ""
     /\ \A c \in s.events : Matches(c, r.outcome)
Verdict(r) ==
  /\ r.pc \in Reported => SpanTold(r)
  /\ r.pc \in {"custom", "state", "done"} => ReportTold(r)

LEMMA VerdictStep ==
  ASSUME TypeOK, CacheSound, \A w \in Workers : Progress(w), [Next]_vars,
         NEW v \in Workers, Verdict(work[v])
  PROVE  Verdict(work'[v])
  <1> DEFINE r == work[v]
  <1>0. r \in WorkSet /\ r.signals \in SignalSet /\ r.node \in Inputs
    BY NodesAreInputs DEF TypeOK, WorkSet
  <1>a. ASSUME work'[v].pc \notin Reported
        PROVE  Verdict(work'[v])
    BY <1>a DEF Verdict, Reported
  <1>b. ASSUME work'[v] = r
        PROVE  Verdict(work'[v])
    BY <1>b
  <1>1. CASE UNCHANGED vars
    BY <1>1, <1>b DEF vars
  <1>2. CASE Script
    <2>1. ASSUME NEW x \in 0..MaxIntensity, NEW t \in Targets, SetFaultTargetIntensity(t, x)
          PROVE  Verdict(work'[v])
      <3>1. /\ work'[v].signals = r.signals /\ work'[v].pc = r.pc
            /\ work'[v].node = r.node /\ work'[v].outcome = r.outcome
        BY <1>0, <2>1 DEF SetFaultTargetIntensity, WorkSet
      <3>2. SpanTold(work'[v]) <=> SpanTold(r)
        BY <3>1 DEF SpanTold
      <3>3. ReportTold(work'[v]) <=> ReportTold(r)
        BY <3>1 DEF ReportTold
      <3> QED
        BY <3>1, <3>2, <3>3 DEF Verdict
    <2> QED
      BY <1>2, <1>b, <2>1 DEF Script, Tick, SetFaultIntensity
  <1>3. ASSUME NEW w \in Workers, Work(w), v # w
        PROVE  Verdict(work'[v])
    BY <1>3, <1>b, OthersUnmoved
  <1>4. CASE Attempt(v)
    <2>1. ASSUME NEW n \in Nodes, BeginAttempt(v, n)
          PROVE  work'[v].pc \in {"begin", "fold"}
      BY <2>1, IdleTypes DEF BeginAttempt, TypeOK, WorkSet
    <2>2. ASSUME NEW n \in Nodes, NEW o \in Cascades, BeginCascade(v, n, o)
          PROVE  work'[v].pc = "begin"
      BY <2>2, IdleTypes DEF BeginCascade, TypeOK, WorkSet
    <2>3. CASE FoldFault(v)
      <3>1. PICK next \in r.todo, drawn \in BOOLEAN :
              work' = [work EXCEPT ![v] = AfterFold(work[v], next, drawn)]
        BY <2>3, FoldStep
      <3> QED
        BY <1>0, <1>a, <3>1 DEF AfterFold, TypeOK, WorkSet, Reported
    <2> QED
      BY <1>4, <1>a, <2>1, <2>2, <2>3 DEF Attempt, Reported
  <1>5. CASE LookupAttrs(v) \/ PutAttrs(v) \/ StartSpan(v) \/ FinishProducer(v)
    <2>1. work'[v].pc \in {"put", "start", "open", "begin"}
      BY <1>0, <1>5 DEF LookupAttrs, PutAttrs, StartSpan, FinishProducer, TypeOK, WorkSet
    <2> QED
      BY <1>a, <2>1 DEF Reported
  <1>6. CASE DecideOutcome(v)
    <2>1. work'[v].pc = "finish"
      BY <1>0, <1>6, DecideRecord DEF WorkSet
    <2> QED
      BY <1>a, <2>1 DEF Reported
  <1>7. CASE FinishSpan(v)
    <2>1. CASE r.finished
      BY <1>1, <1>7, <2>1, FinishAgain
    <2>2. CASE ~r.finished
      <3>1. /\ work'[v].signals = [r.signals EXCEPT
                 !.status = StatusFor(r.node, r.outcome),
                 !.exception = ~r.outcome.success,
                 !.attrs = DynamicOutcomeAttrs(r.node, r.outcome)]
            /\ work'[v].node = r.node /\ work'[v].outcome = r.outcome
            /\ work'[v].pc = "record"
        BY <1>0, <1>7, <2>2, FinishRecord DEF WorkSet
      <3> DEFINE st == StatusFor(r.node, r.outcome)
                 ex == ~r.outcome.success
                 at == DynamicOutcomeAttrs(r.node, r.outcome)
      <3> HIDE DEF st, ex, at
      <3>2. work'[v].signals = [r.signals EXCEPT !.status = st, !.exception = ex,
                                                 !.attrs = at]
        BY <3>1 DEF st, ex, at
      <3>3. /\ work'[v].signals.status = st /\ work'[v].signals.exception = ex
            /\ work'[v].signals.attrs = at
        BY <1>0, <3>2 DEF SignalSet
      <3>4. SpanTold(work'[v])
        BY <3>1, <3>3 DEF SpanTold, st, ex, at
      <3> QED
        BY <3>1, <3>4 DEF Verdict
    <2> QED
      BY <2>1, <2>2
  <1>8. CASE Report(v)
    <2> DEFINE told == {c \in Telemetry[r.node.place].events : Matches(c, r.outcome)}
               severe == IF r.outcome.success THEN "info" ELSE "error"
               dyn == DynamicOutcomeAttrs(r.node, r.outcome)
               threw == ~r.outcome.success /\ r.outcome.error # ""
               point == cache[CacheKeyFor(r.node)]
    <2>1. point \in Given(r.node)
      <3>1. r.pc = "record"
        BY <1>8 DEF Report
      <3>2. InputOf(v) = r.node
        BY <3>1 DEF InputOf, Progress
      <3>3. point # {}
        BY <3>1, <3>2 DEF Progress, Reported
      <3> QED
        BY <1>0, <3>3, CacheSoundAs
    <2>2. \A c \in told : Matches(c, r.outcome)
      OBVIOUS
    <2>3. work' = [work EXCEPT ![v].pc = "custom",
                     ![v].signals = [@ EXCEPT !.point = point, !.pointAttrs = dyn,
                                              !.severity = severe, !.logException = threw,
                                              !.events = told]]
      BY <1>8 DEF Report
    <2> HIDE DEF told, point, severe, dyn, threw
    <2>4. /\ work'[v].signals = [r.signals EXCEPT !.point = point, !.pointAttrs = dyn,
                                   !.severity = severe, !.logException = threw,
                                   !.events = told]
          /\ work'[v].node = r.node /\ work'[v].outcome = r.outcome
          /\ work'[v].pc = "custom"
      BY <1>0, <2>3 DEF TypeOK, WorkSet
    <2>5. /\ work'[v].signals.status = r.signals.status
          /\ work'[v].signals.exception = r.signals.exception
          /\ work'[v].signals.attrs = r.signals.attrs
          /\ work'[v].signals.point = point /\ work'[v].signals.pointAttrs = dyn
          /\ work'[v].signals.severity = severe
          /\ work'[v].signals.logException = threw /\ work'[v].signals.events = told
      BY <1>0, <2>4 DEF SignalSet
    <2>6. SpanTold(r)
      BY <1>8 DEF Report, Verdict, Reported
    <2>7. SpanTold(work'[v])
      BY <2>4, <2>5, <2>6 DEF SpanTold
    <2>8. ReportTold(work'[v])
      BY <2>1, <2>2, <2>4, <2>5 DEF ReportTold, severe, dyn, threw
    <2> QED
      BY <2>7, <2>8 DEF Verdict
  <1>9. CASE RecordCustom(v) \/ UpdateState(v)
    <2> DEFINE m == Incidents(v, Telemetry[r.node.place].metrics)
               u == Incidents(v, Telemetry[r.node.place].updates)
    <2>1. \/ work' = [work EXCEPT ![v].pc = "state", ![v].signals.metrics = m]
          \/ work' = [work EXCEPT ![v].pc = "done", ![v].signals.updates = u]
      BY <1>9 DEF RecordCustom, UpdateState
    <2> HIDE DEF m, u
    <2>2. /\ work'[v].node = r.node /\ work'[v].outcome = r.outcome
          /\ \/ work'[v].signals = [r.signals EXCEPT !.metrics = m]
             \/ work'[v].signals = [r.signals EXCEPT !.updates = u]
      BY <1>0, <2>1 DEF TypeOK, WorkSet
    <2>3. /\ work'[v].signals.status = r.signals.status
          /\ work'[v].signals.exception = r.signals.exception
          /\ work'[v].signals.attrs = r.signals.attrs
          /\ work'[v].signals.point = r.signals.point
          /\ work'[v].signals.pointAttrs = r.signals.pointAttrs
          /\ work'[v].signals.severity = r.signals.severity
          /\ work'[v].signals.logException = r.signals.logException
          /\ work'[v].signals.events = r.signals.events
      BY <1>0, <2>2 DEF SignalSet
    <2>4. SpanTold(r) /\ ReportTold(r)
      BY <1>9 DEF RecordCustom, UpdateState, Verdict, Reported
    <2>5. SpanTold(work'[v])
      BY <2>2, <2>3, <2>4 DEF SpanTold
    <2>6. ReportTold(work'[v])
      BY <2>2, <2>3, <2>4 DEF ReportTold
    <2> QED
      BY <2>5, <2>6 DEF Verdict
  <1>10. CASE ReturnOutcome(v)
    <2>1. work'[v] = Idle /\ Idle.pc = "idle"
      BY <1>10 DEF ReturnOutcome, TypeOK, Idle
    <2> QED
      BY <1>a, <2>1 DEF Reported
  <1>11. Work(v) => Verdict(work'[v])
    BY <1>4, <1>5, <1>6, <1>7, <1>8, <1>9, <1>10 DEF Work, Span, Emit
  <1> QED
    BY <1>1, <1>2, <1>3, <1>11 DEF Next, Work

\* An outcome decides the status, and whether an error type is told.
LEMMA StatusOfOutcome ==
  ASSUME NEW in \in Inputs, NEW o \in OutcomeSet
  PROVE  StatusFor(in, o) = "Error" <=> ~o.success \/ PolicyFor(in).namespace = "rpc"
  <1>1. o.success => o.code = 200
    BY DEF OutcomeSet
  <1>2. ~o.success => o.code \in Codes
    BY DEF OutcomeSet
  <1> QED
    BY <1>1, <1>2 DEF StatusFor, Codes

LEMMA ErrorOfOutcome ==
  ASSUME NEW in, NEW o \in OutcomeSet
  PROVE  (\E p \in DynamicOutcomeAttrs(in, o) : p[1] = "error.type") <=> ~o.success
  <1>1. ~o.success => o.error # ""
    BY DEF OutcomeSet, ErrorTypes
  <1>2. CASE o.success
    <2>1. \A p \in DynamicOutcomeAttrs(in, o) :
            p[1] = "http.response.status_code" \/ p[1] = "rpc.grpc.status_code"
      BY <1>2 DEF DynamicOutcomeAttrs
    <2> QED
      BY <1>2, <2>1
  <1>3. CASE ~o.success
    <2>1. <<"error.type", o.error>> \in DynamicOutcomeAttrs(in, o)
      BY <1>1, <1>3 DEF DynamicOutcomeAttrs
    <2> QED
      BY <1>3, <2>1
  <1> QED
    BY <1>2, <1>3

\* The span, the duration, the logs and the events of an operation agree on whether it
\* failed, also when its span is finished twice (synth/synthesizer.go, RecordMetric and
\* EmitLog after the finish function).
THEOREM VerdictsAgreeCorrect == Spec => []VerdictsAgree
  <1> DEFINE Inv == \A w \in Workers : Progress(w)
             Told == \A w \in Workers : Verdict(work[w])
  <1>1. Init => Told
    BY DEF Init, Idle, Verdict, Reported
  <1>2. TypeOK /\ CacheSound /\ Inv /\ Told /\ [Next]_vars => Told'
    BY VerdictStep
  <1>3. TypeOK /\ Told => VerdictsAgree
    <2> SUFFICES ASSUME TypeOK, Told, NEW w \in Workers, work[w].pc = "done"
                 PROVE  LET s == work[w].signals
                            failed == s.severity = "error"
                            errors == {p \in s.attrs : p[1] = "error.type"}
                        IN /\ s.status = "Error" <=>
                                failed \/ PolicyFor(work[w].node).namespace = "rpc"
                           /\ s.exception <=> failed
                           /\ s.logException <=> failed
                           /\ errors = {} <=> ~failed
                           /\ s.pointAttrs = s.attrs
                           /\ s.point \in Given(work[w].node)
                           /\ "on_error" \in s.events => failed
                           /\ "on_success" \in s.events => ~failed
      BY DEF VerdictsAgree
    <2> DEFINE r == work[w]
               s == r.signals
               o == r.outcome
               errors == {p \in s.attrs : p[1] = "error.type"}
    <2>1. r.node \in Inputs /\ o \in OutcomeSet
      BY NodesAreInputs DEF TypeOK, WorkSet
    <2>2. SpanTold(r) /\ ReportTold(r)
      BY DEF Verdict, Reported
    <2>3. s.severity = "error" <=> ~o.success
      BY <2>2 DEF ReportTold
    <2>4. ~o.success => o.error # ""
      BY <2>1 DEF OutcomeSet, ErrorTypes
    <2>5. s.status = "Error" <=> ~o.success \/ PolicyFor(r.node).namespace = "rpc"
      BY <2>1, <2>2, StatusOfOutcome DEF SpanTold
    <2>6. errors = {} <=> o.success
      BY <2>1, <2>2, ErrorOfOutcome DEF SpanTold
    <2>7. /\ s.exception <=> ~o.success
          /\ s.logException <=> ~o.success
      BY <2>2, <2>4 DEF SpanTold, ReportTold
    <2>8. s.pointAttrs = s.attrs /\ s.point \in Given(r.node)
      BY <2>2 DEF SpanTold, ReportTold
    <2>9. ("on_error" \in s.events => ~o.success) /\ ("on_success" \in s.events => o.success)
      BY <2>2 DEF ReportTold, Matches
    <2> QED
      BY <2>3, <2>5, <2>6, <2>7, <2>8, <2>9
  <1> QED
    BY <1>1, <1>2, <1>3, TypeCorrect, CacheSoundCorrect, ProgressHolds, PTL DEF Spec

=============================================================================
