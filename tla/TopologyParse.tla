---------------------------- MODULE TopologyParse ---------------------------
(***************************************************************************)
(* topology.Parse and Lint: from the decoded YAML document to the resolved *)
(* schema, or to the errors.                                               *)
(*                                                                         *)
(* A document is [yaml, raw]: whether its text decodes, and the raw        *)
(* structs of raw.go, with calls and steps as tables; the owner of a raw   *)
(* call is <<service, position of the operation>>.  An absent optional key *)
(* is Nil, an absent string the empty one; a fault target is the sequence  *)
(* of tokens it is written with.                                           *)
(***************************************************************************)
EXTENDS Topology

CONSTANTS
  DefaultNamespace,
  Rest,               \* texts that are only carried along
  Attributes,         \* the maps of a document, of keys to values of any type
  Empty,              \* that without a key
  Reread              \* what a decoder makes of each once it has been written

DefaultRetryBaseDelay == 100

-----------------------------------------------------------------------------
(* The raw structs.  A YAML decoder may leave any pointer nil.             *)

(* The strings.  They include the literals of these modules: the union is  *)
(* there for the provers, which do not know of one that it is a string.    *)
Literals ==
  ServiceKinds \union Protocols \union Backoffs \union FaultKinds \union Exhausted
  \union Conditions \union Severities \union SyncMetrics \union ObservableMetrics \union Distributions
  \union {"", "unknown", ".", "->", ":", "node", "operation", "edge", "<nil>"}

Strings == STRING \union Literals

Name == Seq(Strings)
Number == Int \union {NaN}
Opt(S) == S \union {Nil}

RawLink == [kind : Strings, delta : Opt(Number), value : Opt(Number)]

RawLogEvent == [name : Name, severity : Strings, condition : Strings, rest : Rest,
                attributes : Attributes]

RawSource == [accumulator : Name, minus : Name]

RawMetric == [name : Name, type : Strings, rest : Rest, attributes : Attributes,
              baseline : Opt(Number), condition : Strings, whenFault : Opt(RawLink), source : Opt(RawSource)]

RawStateUpdate == [key : Name, delta : Opt(Number), condition : Strings, whenFault : Opt(RawLink)]

RawStack == [frames : Name, weight : Number]

RawProfile == [enabled : BOOLEAN, sampleRate : Opt(Int), baseline : SUBSET Opt(RawStack),
               incident : SUBSET Opt(RawStack), whenFault : Opt(Strings)]

RawOperation == [name : Name, logEvents : SUBSET Opt(RawLogEvent), metrics : SUBSET Opt(RawMetric),
                 stateUpdates : SUBSET Opt(RawStateUpdate), profile : Opt(RawProfile)]

RawService == [namespace : Strings, kind : Strings, replicas : Opt(Int), rest : Rest,
               metrics : SUBSET Opt(RawMetric), operations : Seq(Opt(RawOperation))]

RawLatency == [distribution : Strings, p50 : Opt(Int), p95 : Opt(Int)]

RawPolicy == [onExhausted : Strings, defaultResponse : Attributes]

RawCall == [to : Opt(Name \X Name), protocol : Strings, latency : Opt(RawLatency),
            errorRate : Opt(Number), timeout : Opt(Int), retries : Opt(Int), backoff : Strings,
            baseDelay : Opt(Int), onFailure : Opt(RawPolicy)]

RawStep == [service : Name, operation : Name]

RawJourney == [weight : Opt(Number)]

RawSeverity == [probability : Opt(Number), multiplier : Opt(Number), add : Opt(Int), value : Opt(Number)]

RawPoint == [at : Opt(Int), intensity : Opt(Number)]

RawFault == [target : Name, kind : Strings, severity : Opt(RawSeverity), schedule : Seq(Opt(RawPoint))]

(* The places of nodes; top is "call" or "step".                           *)
Places(top) ==
  {p \in Seq({top, "parallel", "fallback"} \X Nat) :
     p # <<>> /\ \A i \in DOMAIN p : p[i][1] = top <=> i = 1}

(* A node below the top has a parent, which is not nil.                    *)
Trees(table, top) ==
  /\ IsFiniteSet(DOMAIN table)
  /\ \A k \in DOMAIN table :
       /\ k = <<k[1], k[2]>> /\ k[2] \in Places(top)
       /\ Len(k[2]) > 1 => \E l \in DOMAIN table : Parent(l, k) /\ table[l] # Nil

(* The fallbacks are the ones of calls with a "to": nothing reads others.  *)
RawCalls(raw) ==
  /\ Trees(raw.calls, "call")
  /\ \A k \in DOMAIN raw.calls :
       /\ raw.calls[k] \in Opt(RawCall)
       /\ k[1] = <<k[1][1], k[1][2]>> /\ k[1][1] \in DOMAIN raw.services /\ raw.services[k[1][1]] # Nil
       /\ LET ops == raw.services[k[1][1]].operations
          IN k[1][2] \in DOMAIN ops /\ ops[k[1][2]] # Nil
       /\ \A l \in DOMAIN raw.calls :
            IsFallback(l) /\ Parent(k, l) => raw.calls[k].to # Nil /\ raw.calls[k].onFailure # Nil

RawSteps(raw) ==
  /\ Trees(raw.steps, "step")
  /\ \A k \in DOMAIN raw.steps :
       raw.steps[k] \in Opt(RawStep) /\ k[1] \in DOMAIN raw.journeys /\ ~IsFallback(k)

RawSchema(raw) ==
  /\ raw.namespace \in Strings
  /\ IsFiniteSet(DOMAIN raw.services)
  /\ \A id \in DOMAIN raw.services : id \in Name /\ raw.services[id] \in Opt(RawService)
  /\ RawCalls(raw)
  /\ \A name \in DOMAIN raw.journeys : raw.journeys[name] \in Opt(RawJourney)
  /\ RawSteps(raw)
  /\ raw.faults \in Seq(Opt(RawFault))

(* Nil is none of the values that can stand in its place.                  *)
ASSUME NilApart ==
  /\ NaN \notin Int /\ NaN # Nil
  /\ Nil \notin Int /\ Nil \notin Strings /\ Nil \notin Name \X Name
  /\ Nil \notin RawLink /\ Nil \notin RawLogEvent /\ Nil \notin RawSource /\ Nil \notin RawMetric
  /\ Nil \notin RawStateUpdate /\ Nil \notin RawStack /\ Nil \notin RawProfile
  /\ Nil \notin RawOperation /\ Nil \notin RawService /\ Nil \notin RawLatency
  /\ Nil \notin RawPolicy /\ Nil \notin RawCall /\ Nil \notin RawStep /\ Nil \notin RawJourney
  /\ Nil \notin RawSeverity /\ Nil \notin RawPoint /\ Nil \notin RawFault

(* A map that is not there is Nil.  Reread[m] is m if reflect.DeepEqual    *)
(* holds m and what is read equal: not for a map with a whole float, which *)
(* is written without its type and read as an integer, nor with a NaN.     *)
ASSUME MapsRead ==
  /\ {Nil, Empty} \subseteq Attributes
  /\ Reread \in [Attributes -> Attributes] /\ Reread[Nil] = Nil

ASSUME NamespaceNotEmpty == DefaultNamespace \in Strings \ {""}

-----------------------------------------------------------------------------
(* Defaults                                                                *)

Or(v, default) == IF v = Nil THEN default ELSE v
OrText(v, default) == IF v = "" THEN default ELSE v

(* strings.ToLower, strings.TrimSpace: the spellings the documents use.    *)
Spelled(text) ==
  CASE text = " HTTP"   -> "http"
    [] text = "Crash"   -> "crash"
    [] text = "WARNING" -> "warning"
    [] OTHER -> text

(* The enumeration parsers: an unknown token becomes an invalid value.     *)
Enum(text, default, values) ==
  LET t == OrText(Spelled(text), default) IN IF t \in values THEN t ELSE "unknown"

Severity(text) == Enum(IF Spelled(text) = "warning" THEN "warn" ELSE text, "info", Severities)

-----------------------------------------------------------------------------
(* Parts without references                                                *)

Latency(rl) ==
  IF rl = Nil THEN [distribution |-> "constant", p50 |-> 0, p95 |-> 0]
  ELSE LET p50 == Or(rl.p50, 0)
       IN [distribution |-> OrText(rl.distribution, "constant"), p50 |-> p50, p95 |-> Or(rl.p95, p50)]

FaultSeverity(rs) ==
  IF rs = Nil THEN [probability |-> 0, multiplier |-> 0, add |-> 0, value |-> 0]
  ELSE [f \in {"probability", "multiplier", "add", "value"} |-> Or(rs[f], 0)]

Schedule(raw) == [i \in DOMAIN raw |->
  IF raw[i] = Nil THEN [at |-> 0, intensity |-> 10]
  ELSE [at |-> Or(raw[i].at, 0), intensity |-> Or(raw[i].intensity, 10)]]

Link(raw) ==
  IF raw = Nil THEN Nil
  ELSE [kind |-> Enum(raw.kind, "", FaultKinds), delta |-> Or(raw.delta, 0),
        value |-> Or(raw.value, 0), hasValue |-> raw.value # Nil]

(* resolveLogEvents, resolveMetrics ...: a nil item is skipped.            *)
LogEvent(raw) ==
  [name |-> raw.name, severity |-> Severity(raw.severity),
   condition |-> Enum(raw.condition, "always", Conditions), rest |-> raw.rest,
   attributes |-> raw.attributes]
LogEvents(list) == {LogEvent(raw) : raw \in list \ {Nil}}

AnyMetric == SyncMetrics \union ObservableMetrics

Metric(raw) ==
  [name |-> raw.name, type |-> Enum(raw.type, "", AnyMetric), rest |-> raw.rest,
   attributes |-> raw.attributes, baseline |-> Or(raw.baseline, 0),
   condition |-> Enum(raw.condition, "always", Conditions),
   whenFault |-> Link(raw.whenFault)]
Metrics(list) == {Metric(raw) : raw \in list \ {Nil}}

Observable(raw) ==
  [name |-> raw.name, type |-> Enum(raw.type, "", AnyMetric), rest |-> raw.rest,
   attributes |-> raw.attributes, baseline |-> Or(raw.baseline, 0),
   source |-> raw.source, whenFault |-> Link(raw.whenFault)]
Observables(list) == {Observable(raw) : raw \in list \ {Nil}}

StateUpdate(raw) ==
  [key |-> raw.key, delta |-> Or(raw.delta, 0),
   condition |-> Enum(raw.condition, "always", Conditions), whenFault |-> Link(raw.whenFault)]
StateUpdates(list) == {StateUpdate(raw) : raw \in list \ {Nil}}

Stacks(list) == list \ {Nil}

Profile(raw) ==
  IF raw = Nil THEN Nil
  ELSE [enabled |-> raw.enabled, sampleRate |-> Or(raw.sampleRate, 100),
        baseline |-> Stacks(raw.baseline), incident |-> Stacks(raw.incident),
        whenFault |-> IF raw.whenFault = Nil THEN Nil ELSE Enum(raw.whenFault, "", FaultKinds)]

-----------------------------------------------------------------------------
(* buildSchema: services and operations, without their calls.  Of several  *)
(* operations with one name the last one stays.                            *)

ZeroOperation ==
  [name |-> <<>>, logEvents |-> {}, metrics |-> {}, stateUpdates |-> {}, profile |-> Nil]

ZeroService == [namespace |-> "", kind |-> "", replicas |-> Nil, rest |-> Nil,
                metrics |-> {}, operations |-> <<>>]

ZeroJourney == [weight |-> Nil]

LastOf(positions) == CHOOSE i \in positions : \A j \in positions : j <= i

BuildOperation(id, ro) ==
  [name |-> ro.name, service |-> id, logEvents |-> LogEvents(ro.logEvents),
   metrics |-> Metrics(ro.metrics), stateUpdates |-> StateUpdates(ro.stateUpdates),
   profile |-> Profile(ro.profile)]

BuildService(id, rs, namespace) ==
  LET ops == [i \in DOMAIN rs.operations |-> Or(rs.operations[i], ZeroOperation)]
      last(n) == LastOf({i \in DOMAIN ops : ops[i].name = n})
  IN [name |-> id, namespace |-> OrText(rs.namespace, namespace),
      kind |-> Enum(rs.kind, "", ServiceKinds), replicas |-> Or(rs.replicas, 1), rest |-> rs.rest,
      metrics |-> Observables(rs.metrics),
      operations |-> [n \in {op.name : op \in ToSet(ops)} |-> BuildOperation(id, ops[last(n)])]]

buildSchema(raw) ==
  LET namespace == OrText(raw.namespace, DefaultNamespace)
  IN [namespace |-> namespace,
      services |-> [id \in DOMAIN raw.services |->
                     BuildService(id, Or(raw.services[id], ZeroService), namespace)],
      calls |-> <<>>, journeys |-> <<>>, steps |-> <<>>, faults |-> <<>>]

-----------------------------------------------------------------------------
(* resolveReferences.  The errors of a table are kept with the nodes they  *)
(* are found at.                                                           *)

lookupOperationAtPath(s, p) ==
  IF <<>> \in {p[1], p[2]} THEN {"required"}
  ELSE IF p[1] \notin DOMAIN s.services THEN {"service not found"}
  ELSE IF p \notin Operations(s) THEN {"operation not found"}
  ELSE {}

(* Mutant: the errors of the members of a group are lost.                  *)
Reported_top(errs) == UNION {errs[k] : k \in {l \in DOMAIN errs : Len(l[2]) = 1}}

(* The errors that are returned: below a node in error nothing is resolved.*)
Reported(errs) ==
  UNION {errs[k] : k \in {l \in DOMAIN errs : \A m \in DOMAIN errs : Above(m, l) => errs[m] = {}}}

(* The nodes that get into the schema: an error fails all of its tree.     *)
Resolved(errs) == {k \in DOMAIN errs : \A l \in DOMAIN errs : SameTree(k, l) => errs[l] = {}}

(* resolveCallNode, but for its recursion.                                 *)
callError(s, calls, k) ==
  IF calls[k] = Nil THEN {"call required"}
  ELSE IF (calls[k].to # Nil) = HasMembers(calls, k) THEN {"to or parallel"}
  ELSE IF calls[k].to = Nil THEN {}
  ELSE lookupOperationAtPath(s, calls[k].to)

(* With resolveRecoveryPolicy: a fallback that is a group is an error, if  *)
(* there is none in the group.                                             *)
callErrors(s, calls) ==
  LET own == [k \in DOMAIN calls |-> callError(s, calls, k)]
      group(k) == /\ IsFallback(k) /\ HasMembers(calls, k)
                  /\ \A l \in DOMAIN calls : Above(k, l) => own[l] = {}
  IN [k \in DOMAIN calls |->
        IF own[k] = {} /\ group(k) THEN {"fallback is a group"} ELSE own[k]]

(* The edge, or a group.  The edge of a fallback belongs to the owner, too.*)
resolveCallNode(owner, rc) ==
  IF rc.to = Nil THEN [to |-> Nil]
  ELSE [from |-> owner, to |-> rc.to,
        protocol |-> Enum(rc.protocol, "", Protocols), latency |-> Latency(rc.latency),
        errorRate |-> Or(rc.errorRate, 0), timeout |-> Or(rc.timeout, 0), retries |-> Or(rc.retries, 0),
        backoff |-> Enum(rc.backoff, "exponential", Backoffs),
        baseDelay |-> Or(rc.baseDelay, DefaultRetryBaseDelay),
        onFailure |-> IF rc.onFailure = Nil THEN Nil
                      ELSE [onExhausted |-> Enum(rc.onFailure.onExhausted, "propagate", Exhausted),
                            defaultResponse |-> rc.onFailure.defaultResponse]]

(* The operation with the raw calls of owner: all of one name are resolved,*)
(* the last one's calls stay.                                              *)
OwnerOf(raw, owner) == <<owner[1], raw.services[owner[1]].operations[owner[2]].name>>

LastOwner(raw, p) ==
  LET ops == raw.services[p[1]].operations
  IN <<p[1], LastOf({i \in DOMAIN ops : ops[i] # Nil /\ ops[i].name = p[2]})>>

(* resolveReferences: first the calls ...                                  *)
resolveCalls(s, raw, errs) ==
  LET staying == {k \in Resolved(errs) : k[1] = LastOwner(raw, OwnerOf(raw, k[1]))}
      keys == {<<OwnerOf(raw, k[1]), k[2]>> : k \in staying}
  IN [s EXCEPT !.calls =
        [at \in keys |-> resolveCallNode(at[1], raw.calls[<<LastOwner(raw, at[1]), at[2]>>])]]

stepError(s, steps, k) ==
  IF steps[k] = Nil THEN {"step required"}
  ELSE LET p == <<steps[k].service, steps[k].operation>>
       IN IF (p # <<<<>>, <<>>>>) = HasMembers(steps, k) THEN {"service or parallel"}
          ELSE IF HasMembers(steps, k) THEN {}
          ELSE lookupOperationAtPath(s, p)

resolveStep(table, k) ==
  [op |-> IF HasMembers(table, k) THEN Nil ELSE <<table[k].service, table[k].operation>>]

(* The result of resolving a part: [val, errs]; val is Nil if there are    *)
(* errors.                                                                 *)
Good(v) == [val |-> v, errs |-> {}]
Bad(errs) == [val |-> Nil, errs |-> errs]

(* strings.Cut: {<<before, after>>} of the first separator, or {}.         *)
Cut(tokens, sep) ==
  {<<SubSeq(tokens, 1, i - 1), SubSeq(tokens, i + 1, Len(tokens))>> :
     i \in {k \in DOMAIN tokens : tokens[k] = sep /\ \A n \in 1..(k - 1) : tokens[n] # sep}}

(* The parts on both sides of the first separator, if both are there.      *)
Halves(tokens, sep) == {c \in Cut(tokens, sep) : <<>> \notin ToSet(c)}

(* The one result, or an error where the text had no such parts.           *)
Only(results, error) == IF results = {} THEN Bad({error}) ELSE CHOOSE r \in results : TRUE

operationAt(s, tokens) ==
  Only({[val |-> p, errs |-> lookupOperationAtPath(s, p)] : p \in Halves(tokens, ".")},
       "operation reference")

(* The order in which the calls of an operation are visited.               *)
Before(k, l) ==
  \/ Above(k, l)
  \/ \E i \in DOMAIN k[2] \intersect DOMAIN l[2] :
       k[2][i][2] < l[2][i][2] /\ \A j \in 1..(i - 1) : k[2][j] = l[2][j]

(* findEdge: the edges between the two operations; parsed edges from an    *)
(* operation are all among its own calls.                                  *)
findEdges(s, from, to) == {at \in OutgoingEdges(s, from) : s.calls[at].from = from /\ s.calls[at].to = to}

First(keys) == CHOOSE k \in keys : \A l \in keys : ~Before(l, k)

FaultTarget(kind, service, operation, edge) ==
  [kind |-> kind, service |-> service, operation |-> operation, edge |-> edge]

edgeBetween(s, from, to) ==
  IF from.errs # {} THEN from
  ELSE IF to.errs # {} THEN to
  ELSE LET edges == findEdges(s, from.val, to.val)
       IN IF edges = {} THEN Bad({"edge not found"})
          ELSE Good(FaultTarget("edge", Nil, Nil, First(edges)))

resolveEdgeTarget(s, rest) ==
  Only({edgeBetween(s, operationAt(s, ends[1]), operationAt(s, ends[2])) : ends \in Halves(rest, "->")},
       "edge target")

resolveTarget(s, kind, rest) ==
  LET op == operationAt(s, rest)
  IN CASE kind = <<"node">> ->
            IF rest \in DOMAIN s.services THEN Good(FaultTarget("node", rest, Nil, Nil))
            ELSE Bad({"service not found"})
       [] kind = <<"operation">> ->
            IF op.errs # {} THEN op ELSE Good(FaultTarget("operation", Nil, op.val, Nil))
       [] kind = <<"edge">> -> resolveEdgeTarget(s, rest)
       [] OTHER -> Bad({"target kind"})

resolveFaultTarget(s, tokens) ==
  Only({resolveTarget(s, p[1], p[2]) : p \in {c \in Cut(tokens, ":") : c[2] # <<>>}}, "target")

resolveFault(s, rf) ==
  IF rf = Nil THEN Bad({"fault required"})
  ELSE LET target == resolveFaultTarget(s, rf.target)
       IN IF target.errs # {} THEN target
          ELSE Good([target |-> target.val, kind |-> Enum(rf.kind, "", FaultKinds),
                     severity |-> FaultSeverity(rf.severity), schedule |-> Schedule(rf.schedule)])

(* ... then the journeys and the faults, in the schema s with its calls;   *)
(* the faults that are resolved keep their positions here.                 *)
resolveRest(s, raw, errs) ==
  LET wrong == [k \in DOMAIN raw.steps |-> stepError(s, raw.steps, k)]
      faults == [i \in DOMAIN raw.faults |-> resolveFault(s, raw.faults[i])]
  IN [schema |-> [s EXCEPT
        !.journeys = [name \in DOMAIN raw.journeys |->
                        [name |-> name, weight |-> Or(Or(raw.journeys[name], ZeroJourney).weight, 10)]],
        !.steps = [k \in Resolved(wrong) |-> resolveStep(raw.steps, k)],
        !.faults = [i \in {f \in DOMAIN faults : faults[f].errs = {}} |-> faults[i].val]],
      errs |-> errs \union Reported(wrong) \union UNION {faults[i].errs : i \in DOMAIN faults}]

resolveReferences(s, raw) ==
  LET errs == callErrors(s, raw.calls)
  IN resolveRest(resolveCalls(s, raw, errs), raw, Reported(errs))

-----------------------------------------------------------------------------
(* The stages that Parse and Lint share: what is built and resolved of a   *)
(* document, with all errors.                                              *)
Resolve(raw) == resolveReferences(buildSchema(raw), raw)

(* Parse with the resolved document r: [schema, errs]; the schema is Nil   *)
(* if there are errors.                                                    *)
Parse(yaml, r) ==
  LET errs == IF yaml \in {"type", "both", "syntax"} THEN {"yaml"}
              ELSE IF r.errs # {} THEN r.errs ELSE Validate(r.schema)
  IN [schema |-> IF errs = {} THEN r.schema ELSE Nil, errs |-> errs]

(* Mutant: the schema is not validated.                                    *)
Lint_short(yaml, r) ==
  [failed |-> yaml = "syntax", issues |-> {<<"error", e>> : e \in r.errs}]

(* Lint: a syntax error fails the call; a strict decoding that finds only  *)
(* unknown keys gives warnings; what does not fit a type is an error that  *)
(* ends the work; otherwise it goes on after each stage's errors.          *)
Lint(yaml, r) ==
  LET warnings == IF yaml = "unknown" THEN {<<"warning", "unknown key">>} ELSE {}
  IN CASE yaml = "syntax" -> [failed |-> TRUE, issues |-> {}]
       [] yaml \in {"type", "both"} -> [failed |-> FALSE, issues |-> {<<"error", "yaml">>}]
       [] OTHER -> [failed |-> FALSE,
                    issues |-> warnings \union {<<"error", e>> : e \in r.errs \union Validate(r.schema)}]

=============================================================================
