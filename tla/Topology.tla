------------------------------ MODULE Topology ------------------------------
(***************************************************************************)
(* topology: the resolved schema and Validate.                             *)
(*                                                                         *)
(* A pointer to a service is its key in services, a pointer to an          *)
(* operation the pair <<service key, operation key>> of the place it was   *)
(* made for.  Nothing is where a pointer of an object that was removed, or *)
(* never registered, points to.                                            *)
(*                                                                         *)
(* The trees of calls and of steps are kept flat, as tables: of each node, *)
(* under a key <<owner, place>>, without its children.  A place is the way *)
(* to the node from its owner, an operation or a journey: the n-th call or *)
(* step, then the n-th of a group ("parallel") or of the fallbacks.  The   *)
(* key of a call is the pointer to its edge.                               *)
(*                                                                         *)
(* Names are sequences of tokens, so that the separators "." and "->" can  *)
(* stand inside one; the token Long stands for more than 120 bytes.        *)
(* Numbers with a fraction are counted in tenths; NaN stands for a float   *)
(* that is not finite.  The texts that are only carried along (units,      *)
(* bodies, languages, versions) are one value "rest".                      *)
(*                                                                         *)
(* The lists whose order nothing here depends on (log events, metrics,     *)
(* state updates, stacks) are sets.  None of a schema holds nil: neither   *)
(* Parse nor the generators put one in, so the nil checks of validate.go   *)
(* are left out.                                                           *)
(***************************************************************************)
EXTENDS Integers, SequencesExt

CONSTANTS
  Nil,    \* the nil pointer
  NaN     \* a float that is not a finite number

Long == "long"

(* The tokens of the enumerations; "unknown" is an invalid value's String.  *)
ServiceKinds == {"application", "database", "external_api", "cache", "queue"}
Protocols    == {"http", "grpc", "messaging"}
Backoffs     == {"exponential", "linear", "constant"}
FaultKinds   == {"latency_inflation", "error_rate_override", "disconnect", "crash"}
Exhausted    == {"propagate", "return_default", "succeed_silently"}
Conditions   == {"always", "on_success", "on_error"}
Severities   == {"trace", "debug", "info", "warn", "error", "fatal"}
SyncMetrics  == {"counter", "gauge", "histogram"}
ObservableMetrics == {"observable_gauge", "observable_counter"}
Distributions == {"constant", "lognormal", "normal", "exponential"}

-----------------------------------------------------------------------------
(* Tables                                                                  *)

(* The node with key k is an ancestor, or the parent, of that with key l.  *)
Above(k, l) ==
  k[1] = l[1] /\ Len(k[2]) < Len(l[2]) /\ \A i \in DOMAIN k[2] : k[2][i] = l[2][i]

Parent(k, l) == Above(k, l) /\ Len(l[2]) = Len(k[2]) + 1

(* Both are in the tree of the same call, or step, of their owner.         *)
SameTree(k, l) == k[1] = l[1] /\ k[2][1] = l[2][1]

(* "parallel" or "fallback" below the top of a tree.                       *)
Role(k) == k[2][Len(k[2])][1]

IsFallback(k) == Len(k[2]) > 1 /\ Role(k) = "fallback"

HasMembers(table, k) == \E l \in DOMAIN table : Parent(k, l) /\ Role(l) = "parallel"

(* Every node of the lists, groups and their members; not the fallbacks.   *)
Nodes(table) ==
  {k \in DOMAIN table : \A i \in 2..Len(k[2]) : k[2][i][1] = "parallel"}

-----------------------------------------------------------------------------
(* Traversals                                                              *)

Operations(s) == UNION {{id} \X DOMAIN s.services[id].operations : id \in DOMAIN s.services}

Op(s, p) == s.services[p[1]].operations[p[2]]

(* Mutant: the edges of parallel groups and the fallbacks are not visited. *)
AllEdges_primary(s) == {at \in DOMAIN s.calls : s.calls[at].to # Nil /\ Len(at[2]) = 1}

(* The edges of all calls and their fallbacks; not the fallbacks of the    *)
(* fallbacks.                                                              *)
AllEdges(s) ==
  {at \in DOMAIN s.calls :
     /\ s.calls[at].to # Nil
     /\ \A i \in 2..(Len(at[2]) - 1) : at[2][i][1] = "parallel"}

OutgoingEdges(s, p) == {at \in AllEdges(s) : at[1] = p}

-----------------------------------------------------------------------------
(* validateDAG: Kahn's algorithm.  An operation is taken from the queue    *)
(* when its degree is 0, that is when no edge to it is left (KahnSort,     *)
(* with the counters and the queue).  In which order the queue is worked   *)
(* off makes no difference to what is left in the end.                     *)

Called(s, left) == {s.calls[at].to : at \in {e \in AllEdges(s) : e[1] \in left}}

(* The operations the error names: those with a positive degree at the end.*)
Unvisited(s) ==
  LET visit[left \in SUBSET Operations(s)] ==
        LET kept == left \intersect Called(s, left)
        IN IF kept = left THEN left ELSE visit[kept]
  IN visit[Operations(s)]

-----------------------------------------------------------------------------
(* The structural rules                                                    *)

BackPointers(s) ==
  \A p \in Operations(s) : Op(s, p).service = p[1] /\ Op(s, p).name = p[2]

NoOrphans(s) ==
  \A at \in AllEdges(s) : {s.calls[at].from, s.calls[at].to} \subseteq Operations(s)

StepsReachable(s) ==
  \A k \in Nodes(s.steps) :
    /\ (s.steps[k].op # Nil) # HasMembers(s.steps, k)
    /\ s.steps[k].op # Nil => s.steps[k].op \in Operations(s)

TargetFound(s, target) ==
  /\ Cardinality({f \in {"service", "operation", "edge"} : target[f] # Nil}) = 1
  /\ CASE target.kind = "node"      -> target.service \in DOMAIN s.services
       [] target.kind = "operation" -> target.operation \in Operations(s)
       [] target.kind = "edge"      -> target.edge \in AllEdges(s)
       [] OTHER                     -> FALSE

CallVariants(s) ==
  \A k \in Nodes(s.calls) : (s.calls[k].to # Nil) # HasMembers(s.calls, k)

(* Of every fallback, those of fallbacks too.                              *)
FallbacksOwned(s) ==
  \A at, of \in DOMAIN s.calls :
    IsFallback(at) /\ Parent(of, at) => s.calls[at].from = s.calls[of].from

-----------------------------------------------------------------------------
(* The domain rules                                                        *)

Finite(v) == v # NaN
Probability(v) == Finite(v) /\ 0 <= v /\ v <= 10

(* v <= 0 is false of a NaN.                                               *)
AtMostZero(v) == Finite(v) /\ v <= 0

NameOk(name) == name # <<>> /\ ~Contains(name, Long)

LinkErrors(link) ==
  IF link = Nil THEN {}
  ELSE (IF link.kind \in FaultKinds THEN {} ELSE {"D_ENUM"})
       \union (IF Finite(link.delta) /\ (link.hasValue => Finite(link.value)) THEN {} ELSE {"D_METRIC"})

EventErrors(ev) ==
  (IF NameOk(ev.name) THEN {} ELSE {"D_LOG"})
  \union (IF ev.severity \in Severities /\ ev.condition \in Conditions THEN {} ELSE {"D_ENUM"})

MetricErrors(m) ==
  (IF NameOk(m.name) /\ Finite(m.baseline) THEN {} ELSE {"D_METRIC"})
  \union (IF m.type \in SyncMetrics /\ m.condition \in Conditions THEN {} ELSE {"D_ENUM"})
  \union LinkErrors(m.whenFault)

UpdateErrors(u) ==
  (IF u.key # <<>> /\ Finite(u.delta) THEN {} ELSE {"D_METRIC"})
  \union (IF u.condition \in Conditions THEN {} ELSE {"D_ENUM"})
  \union LinkErrors(u.whenFault)

ObservableErrors(m) ==
  (IF /\ NameOk(m.name) /\ Finite(m.baseline)
      /\ m.source # Nil =>
           /\ m.source.accumulator # <<>>
           /\ m.source.minus # <<>> => m.type = "observable_gauge"
     THEN {} ELSE {"D_METRIC"})
  \union (IF m.type \in ObservableMetrics THEN {} ELSE {"D_ENUM"})
  \union LinkErrors(m.whenFault)

StackOk(stack) == stack.frames # <<>> /\ Finite(stack.weight) /\ stack.weight >= 0

ProfileErrors(p) ==
  IF p = Nil \/ ~p.enabled THEN {}
  ELSE (IF /\ p.baseline # {} /\ p.sampleRate > 0
           /\ \A st \in p.baseline \union p.incident : StackOk(st)
           /\ p.whenFault # Nil => p.incident # {}
          THEN {} ELSE {"D_PROFILE"})
       \union (IF p.whenFault = Nil \/ p.whenFault \in FaultKinds THEN {} ELSE {"D_ENUM"})

OperationErrors(op) ==
  (IF NameOk(op.name) THEN {} ELSE {"D_OP"})
  \union (UNION {EventErrors(ev) : ev \in op.logEvents})
  \union (UNION {MetricErrors(m) : m \in op.metrics})
  \union (UNION {UpdateErrors(u) : u \in op.stateUpdates})
  \union ProfileErrors(op.profile)

ServiceErrors(svc) ==
  (IF svc.replicas >= 1 THEN {} ELSE {"D_1"})
  \union (IF svc.kind \in ServiceKinds THEN {} ELSE {"D_ENUM"})
  \union (IF DOMAIN svc.operations # {} THEN {} ELSE {"D_12"})
  \union (UNION {ObservableErrors(m) : m \in svc.metrics})
  \union (UNION {OperationErrors(svc.operations[n]) : n \in DOMAIN svc.operations})

EdgeErrors(e) ==
  (IF /\ e.protocol \in Protocols /\ e.backoff \in Backoffs
      /\ e.onFailure # Nil => e.onFailure.onExhausted \in Exhausted
     THEN {} ELSE {"D_ENUM"})
  \union (IF Probability(e.errorRate) THEN {} ELSE {"D_2"})
  \union (IF e.timeout >= 0 THEN {} ELSE {"D_3"})
  \union (IF e.retries >= 0 /\ e.baseDelay >= 0 THEN {} ELSE {"D_4"})
  \union (IF e.latency.p95 >= e.latency.p50 THEN {} ELSE {"D_5"})
  \union (IF e.latency.p50 >= 0 THEN {} ELSE {"D_6"})
  \union (IF e.latency.distribution \in Distributions THEN {} ELSE {"D_7"})

ScheduleOk(schedule) ==
  \A i \in DOMAIN schedule :
    /\ schedule[i].at >= 0
    /\ i > 1 => schedule[i].at > schedule[i - 1].at
    /\ Finite(schedule[i].intensity) /\ schedule[i].intensity >= 0

FaultErrors(f) ==
  (IF f.kind \in FaultKinds THEN {} ELSE {"D_ENUM"})
  \union (IF Probability(f.severity.probability) THEN {} ELSE {"D_8"})
  \union (IF f.kind = "latency_inflation" /\ AtMostZero(f.severity.multiplier) THEN {"D_9"} ELSE {})
  \union (IF ScheduleOk(f.schedule) THEN {} ELSE {"D_15"})

JourneyErrors(s, name) ==
  LET j == s.journeys[name] IN
  (IF j.name = name THEN {} ELSE {"D_JOURNEY"})
  \union (IF AtMostZero(j.weight) THEN {"D_10"} ELSE {})
  \union (IF \A k \in DOMAIN s.steps : k[1] # name THEN {"D_11"} ELSE {})

DomainErrors(s) ==
  (IF DOMAIN s.services = {} THEN {"D_13"} ELSE {})
  \union (IF DOMAIN s.journeys = {} THEN {"D_14"} ELSE {})
  \union (UNION {ServiceErrors(s.services[id]) : id \in DOMAIN s.services})
  \union (UNION {EdgeErrors(s.calls[at]) : at \in AllEdges(s)})
  \union (UNION {JourneyErrors(s, name) : name \in DOMAIN s.journeys})
  \union (UNION {FaultErrors(f) : f \in ToSet(s.faults)})

(* Validate: the rules the schema breaks, all of them.                     *)
Validate(s) ==
  LET rules == [
        R_STR_1 |-> \A id \in DOMAIN s.services : s.services[id].name = id,
        R_STR_2 |-> BackPointers(s),
        R_STR_3 |-> NoOrphans(s),
        R_STR_4 |-> Unvisited(s) = {},
        R_STR_5 |-> StepsReachable(s),
        R_STR_6 |-> \A f \in ToSet(s.faults) : TargetFound(s, f.target),
        R_STR_7 |-> CallVariants(s),
        R_STR_8 |-> FallbacksOwned(s)]
  IN {r \in DOMAIN rules : ~rules[r]} \union DomainErrors(s)

=============================================================================
