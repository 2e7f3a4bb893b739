---------------------------- MODULE TopologyMarshal ----------------------------
(***************************************************************************)
(* topology: MarshalYAML, the way back from a schema to a document; Equal; *)
(* ApplyFaults.                                                            *)
(***************************************************************************)
EXTENDS TopologyParse

(* The YAML keys that are left out: their pointer stays nil.               *)
Unless(v, default) == IF v = default THEN Nil ELSE v
UnlessText(v, default) == IF v = default THEN "" ELSE v

(* A map: "omitempty" leaves out one without a key, too.                   *)
marshalMap(m) == IF m = Empty THEN Nil ELSE Reread[m]

MapSeq(F(_), list) == [i \in DOMAIN list |-> F(list[i])]

-----------------------------------------------------------------------------
(* Parts without references                                                *)

(* A link with a value loses its delta.                                    *)
marshalMetricFaultLink(link) ==
  IF link = Nil THEN Nil
  ELSE [kind |-> link.kind,
        delta |-> IF link.hasValue THEN Nil ELSE Unless(link.delta, 0),
        value |-> IF link.hasValue THEN link.value ELSE Nil]

marshalLogEvent(ev) ==
  [name |-> ev.name, severity |-> UnlessText(ev.severity, "info"),
   condition |-> UnlessText(ev.condition, "always"), rest |-> ev.rest,
   attributes |-> marshalMap(ev.attributes)]

marshalMetric(m) ==
  [name |-> m.name, type |-> m.type, rest |-> m.rest, attributes |-> marshalMap(m.attributes),
   baseline |-> Unless(m.baseline, 0), condition |-> UnlessText(m.condition, "always"),
   whenFault |-> marshalMetricFaultLink(m.whenFault), source |-> Nil]

marshalObservableMetric(m) ==
  [name |-> m.name, type |-> m.type, rest |-> m.rest, attributes |-> marshalMap(m.attributes),
   baseline |-> Unless(m.baseline, 0), condition |-> "",
   whenFault |-> marshalMetricFaultLink(m.whenFault), source |-> m.source]

marshalStateUpdate(u) ==
  [key |-> u.key, delta |-> Unless(u.delta, 0), condition |-> UnlessText(u.condition, "always"),
   whenFault |-> marshalMetricFaultLink(u.whenFault)]

marshalProfile(p) ==
  IF p = Nil THEN Nil ELSE [p EXCEPT !.sampleRate = IF @ \in {0, 100} THEN Nil ELSE @]

(* Mutant: the upper quantile is always left out.                          *)
marshalLatency_p50(l) ==
  IF l.distribution = "constant" /\ l.p50 = 0 THEN Nil
  ELSE [distribution |-> UnlessText(l.distribution, "constant"), p50 |-> Unless(l.p50, 0), p95 |-> Nil]

marshalLatency(l) ==
  IF l.distribution = "constant" /\ l.p50 = 0 /\ l.p95 = 0 THEN Nil
  ELSE [distribution |-> UnlessText(l.distribution, "constant"), p50 |-> Unless(l.p50, 0),
        p95 |-> IF l.p95 \in {0, l.p50} THEN Nil ELSE l.p95]

marshalSeverity(sev) ==
  IF \A f \in DOMAIN sev : sev[f] = 0 THEN Nil
  ELSE [f \in DOMAIN sev |-> Unless(sev[f], 0)]

-----------------------------------------------------------------------------
(* Calls, steps, targets                                                   *)

(* A call without an edge has no other key than "parallel".                *)
NoCall == [to |-> Nil, protocol |-> "", latency |-> Nil, errorRate |-> Nil, timeout |-> Nil,
           retries |-> Nil, backoff |-> "", baseDelay |-> Nil, onFailure |-> Nil]

marshalCallNode(e) ==
  IF e.to = Nil THEN NoCall
  ELSE [to |-> e.to, protocol |-> e.protocol, latency |-> marshalLatency(e.latency),
        errorRate |-> Unless(e.errorRate, 0), timeout |-> Unless(e.timeout, 0),
        retries |-> Unless(e.retries, 0), backoff |-> UnlessText(e.backoff, "exponential"),
        baseDelay |-> IF e.baseDelay \in {0, DefaultRetryBaseDelay} THEN Nil ELSE e.baseDelay,
        onFailure |-> IF e.onFailure = Nil THEN Nil
                      ELSE [onExhausted |-> UnlessText(e.onFailure.onExhausted, "propagate"),
                            defaultResponse |-> marshalMap(e.onFailure.defaultResponse)]]

marshalStep(step) ==
  IF step.op = Nil THEN [service |-> <<>>, operation |-> <<>>]
  ELSE [service |-> step.op[1], operation |-> step.op[2]]

identifyOp(p) == IF p = Nil THEN <<"<nil>">> ELSE p[1] \o <<".">> \o p[2]

edgeIdentity(e) == identifyOp(e.from) \o <<"->">> \o identifyOp(e.to)

marshalFaultTarget(s, t) ==
  CASE t.kind = "node"      -> <<"node", ":">> \o t.service
    [] t.kind = "operation" -> <<"operation", ":">> \o identifyOp(t.operation)
    [] t.kind = "edge"      -> <<"edge", ":">> \o edgeIdentity(s.calls[t.edge])

-----------------------------------------------------------------------------
marshalOperation(op) ==
  [name |-> op.name, logEvents |-> {marshalLogEvent(ev) : ev \in op.logEvents},
   metrics |-> {marshalMetric(m) : m \in op.metrics},
   stateUpdates |-> {marshalStateUpdate(u) : u \in op.stateUpdates}, profile |-> marshalProfile(op.profile)]

(* The operations in the order of their names: any order of a set that is  *)
(* always the same.                                                        *)
sortedKeys(svc) == SetToSeq(DOMAIN svc.operations)

marshalService(svc, namespace) ==
  [namespace |-> UnlessText(svc.namespace, namespace), kind |-> svc.kind,
   replicas |-> Unless(svc.replicas, 1), rest |-> svc.rest,
   metrics |-> {marshalObservableMetric(m) : m \in svc.metrics},
   operations |-> MapSeq(LAMBDA n : marshalOperation(svc.operations[n]), sortedKeys(svc))]

(* The owner of the raw calls of an operation.                             *)
PositionOf(s, p) ==
  LET names == sortedKeys(s.services[p[1]]) IN <<p[1], CHOOSE i \in DOMAIN names : names[i] = p[2]>>

marshalCalls(s) ==
  LET owner(k) == <<k[1][1], sortedKeys(s.services[k[1][1]])[k[1][2]]>>
  IN [k \in {<<PositionOf(s, at[1]), at[2]>> : at \in DOMAIN s.calls} |->
        marshalCallNode(s.calls[<<owner(k), k[2]>>])]

effectiveNamespace(namespace) == OrText(namespace, DefaultNamespace)

MarshalYAML(s) ==
  [namespace |-> UnlessText(s.namespace, DefaultNamespace),
   services |-> [id \in DOMAIN s.services |->
                   marshalService(s.services[id], effectiveNamespace(s.namespace))],
   calls |-> marshalCalls(s),
   journeys |-> [name \in DOMAIN s.journeys |-> [weight |-> Unless(s.journeys[name].weight, 10)]],
   steps |-> MapSeq(marshalStep, s.steps),
   faults |-> MapSeq(LAMBDA f : [target |-> marshalFaultTarget(s, f.target), kind |-> f.kind,
                                 severity |-> marshalSeverity(f.severity), schedule |-> f.schedule],
                     s.faults)]

-----------------------------------------------------------------------------
(* Equal: two schemas are equal if they are the same once every pointer is *)
(* replaced by the names it leads to and every default is filled in, and   *)
(* no number in them is a NaN, which equals nothing.                       *)

NamedCall(e) ==
  IF e.to = Nil THEN e
  ELSE [e EXCEPT !.from = identifyOp(@), !.to = identifyOp(@),
          !.baseDelay = IF @ = 0 THEN DefaultRetryBaseDelay ELSE @]

NamedService(svc) ==
  [svc EXCEPT !.namespace = effectiveNamespace(@),
     !.operations = [n \in DOMAIN @ |->
        [@[n] EXCEPT !.service = <<>>, !.name = identifyOp(<<svc.operations[n].service, @>>)]]]

Named(s) ==
  [namespace |-> effectiveNamespace(s.namespace), services |-> MapSeq(NamedService, s.services),
   calls |-> MapSeq(NamedCall, s.calls), journeys |-> s.journeys,
   steps |-> MapSeq(LAMBDA step : identifyOp(step.op), s.steps),
   faults |-> MapSeq(LAMBDA f : [f EXCEPT !.target = <<@.kind, marshalFaultTarget(s, @)>>], s.faults)]

Profiles(s) == {Op(s, p).profile : p \in Operations(s)} \ {Nil}

(* The floats among what Equal compares that Validate lets be a NaN.       *)
Floats(s) ==
  {s.journeys[name].weight : name \in DOMAIN s.journeys}
  \union (UNION {{f.severity[k] : k \in DOMAIN f.severity} : f \in ToSet(s.faults)})
  \union {s.calls[at].errorRate : at \in {k \in DOMAIN s.calls : s.calls[k].to # Nil}}
  \union (UNION {{stack.weight : stack \in p.baseline \union p.incident} : p \in Profiles(s)})

Equal(a, b) == Named(a) = Named(b) /\ NaN \notin Floats(a)

-----------------------------------------------------------------------------
(* ApplyFaults: the faults of each target, in the order they are listed.   *)

(* The positions of those NodeFaults, OperationFaults and EdgeFaults       *)
(* return for one.                                                         *)
FaultsOf(s, kind, pointer) ==
  {i \in DOMAIN s.faults :
    /\ s.faults[i].target.kind = kind
    /\ pointer = CASE kind = "node"      -> s.faults[i].target.service
                   [] kind = "operation" -> s.faults[i].target.operation
                   [] kind = "edge"      -> s.faults[i].target.edge}

ApplyFaults(s) ==
  [nodeFaults |-> [id \in DOMAIN s.services |-> FaultsOf(s, "node", id)],
   operationFaults |-> [p \in Operations(s) |-> FaultsOf(s, "operation", p)],
   edgeFaults |-> [at \in AllEdges(s) |-> FaultsOf(s, "edge", at)]]

=============================================================================
