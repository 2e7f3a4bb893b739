------------------------------ MODULE MCTopology ------------------------------
(***************************************************************************)
(* The documents on which TLC checks TopologyLoad: two services a and b    *)
(* with the operations a.x, a.y and b.z.                                   *)
(***************************************************************************)
EXTENDS TopologyLoad

MCRest == {Nil, "body"}

(* A map with a whole float, which is read back as one with an integer.    *)
MCAttributes == {Nil, "empty", "texts", "whole float", "integer"}
MCReread == [m \in MCAttributes |-> IF m = "whole float" THEN "integer" ELSE m]

A == <<"a">>
B == <<"b">>
Ax == <<A, <<"x">>>>
Ay == <<A, <<"y">>>>
Bz == <<B, <<"z">>>>
Ops == {Ax, Ay, Bz}

(* A tree of calls or steps is the table of its nodes, the root under <<>>. *)
List(tag, trees) ==
  [place \in UNION {{<<<<tag, i>>>> \o p : p \in DOMAIN trees[i]} : i \in DOMAIN trees} |->
     trees[Head(place)[2]][Tail(place)]]
Owned(owner, table) == [k \in {owner} \X DOMAIN table |-> table[k[2]]]
NilNode == <<>> :> Nil
Node(node) == <<>> :> node

CallTo(to) == [NoCall EXCEPT !.to = to, !.protocol = "http"]
Call(to) == Node(CallTo(to))
Policy(e) == [onExhausted |-> e, defaultResponse |-> Nil]
Else(node, calls) == Node([node EXCEPT !.onFailure = Policy("")]) @@ List("fallback", calls)
CallElse(to, calls) == Else(CallTo(to), calls)
Fork(calls) == Node(NoCall) @@ List("parallel", calls)

OpDoc(name) == [name |-> name, logEvents |-> {}, metrics |-> {},
                stateUpdates |-> {}, profile |-> Nil]
ServiceDoc(ops) == [namespace |-> "", kind |-> "application", replicas |-> Nil, rest |-> Nil,
                    metrics |-> {}, operations |-> ops]
Step(p) == Node([service |-> p[1], operation |-> p[2]])
ForkSteps(list) == Step(<<<<>>, <<>>>>) @@ List("parallel", list)
JourneyDoc == [weight |-> Nil]

Raw(x, y, z) ==
  [namespace |-> "", services |-> (A :> ServiceDoc(<<OpDoc(<<"x">>), OpDoc(<<"y">>)>>))
                                  @@ (B :> ServiceDoc(<<OpDoc(<<"z">>)>>)),
   calls |-> Owned(<<A, 1>>, List("call", x)) @@ Owned(<<A, 2>>, List("call", y))
             @@ Owned(<<B, 1>>, List("call", z)),
   journeys |-> "j" :> JourneyDoc @@ "k" :> JourneyDoc,
   steps |-> Owned("j", List("step", <<Step(Ax)>>))
             @@ Owned("k", List("step", <<ForkSteps(<<Step(Ay), Step(Bz)>>), Step(Ax)>>)),
   faults |-> <<>>]

Doc(raw) == [yaml |-> "ok", raw |-> raw]

(* Every graph in which an operation has no call, one with or without a    *)
(* fallback, or a group of two; the third operation has at most one.       *)
CallLists ==
  {<<>>} \union {<<Call(t)>> : t \in Ops}
  \union {<<CallElse(t, <<Call(u)>>)>> : t, u \in Ops}
  \union {<<Fork(<<Call(t), Call(u)>>)>> : t, u \in Ops}
GraphDocs ==
  {Doc(Raw(x, y, z)) : x \in CallLists, y \in CallLists,
                       z \in {<<>>} \union {<<Call(t)>> : t \in Ops}}

(* Documents with references that are missing or malformed, nil items and  *)
(* every outcome of the YAML decoder.                                      *)
Gone == <<B, <<"w">>>>
OddCalls == {Call(Bz), Call(Gone), Call(<<A, <<>>>>), NilNode, Node(NoCall),
             Call(Bz) @@ List("parallel", <<Call(Bz)>>),
             CallElse(Bz, <<Call(Bz)>>), CallElse(Bz, <<Call(Gone)>>),
             CallElse(Bz, <<CallElse(Bz, <<Call(Bz)>>)>>), CallElse(Bz, <<CallElse(Bz, <<Call(Gone)>>)>>),
             CallElse(Bz, <<Fork(<<Call(Bz)>>)>>)}
OddSteps == {Step(Ax), Step(Gone), Step(<<A, <<>>>>), NilNode, ForkSteps(<<>>),
             Step(Ax) @@ List("parallel", <<Step(Ax)>>)}
OddServices == {Nil, ServiceDoc(<<>>), ServiceDoc(<<Nil>>),
                ServiceDoc(<<OpDoc(<<"z">>), Nil, OpDoc(<<"z">>)>>),
                [ServiceDoc(<<OpDoc(<<"z">>)>>) EXCEPT !.kind = ""],
                [ServiceDoc(<<OpDoc(<<"z">>)>>) EXCEPT !.replicas = 0]}
Plain == Raw(<<CallElse(Bz, <<Call(Ay)>>)>>, <<>>, <<>>)
OneJourney(j, steps) == [Plain EXCEPT !.journeys = "j" :> j, !.steps = Owned("j", List("step", steps))]
BrokenDocs ==
  {[yaml |-> d, raw |-> Raw(<<c>>, <<>>, <<>>)] :
     d \in {"ok", "unknown", "type", "both", "syntax"}, c \in OddCalls}
  \union {Doc(Raw(<<Fork(<<c, d>>)>>, <<>>, <<>>)) : c, d \in OddCalls}
  \union {Doc(OneJourney(JourneyDoc, <<ForkSteps(<<s, t>>)>>)) : s, t \in OddSteps}
  \union {Doc(OneJourney(JourneyDoc, <<s>>)) : s \in OddSteps}
  \union {Doc(OneJourney(j, <<>>)) : j \in {Nil, JourneyDoc}}
  \union {Doc([Plain EXCEPT !.services[B] = svc]) : svc \in OddServices}
  \union {Doc([Plain EXCEPT !.services = <<>>, !.calls = <<>>]),
          Doc([Plain EXCEPT !.journeys = <<>>, !.steps = <<>>])}
  \union {Doc([Raw(<<>>, <<>>, <<c>>) EXCEPT !.services[B].operations = <<OpDoc(<<"z">>), OpDoc(<<n>>)>>,
                   !.calls = @ @@ Owned(<<B, 2>>, List("call", <<d>>))]) :
            n \in {"z", "w"}, c, d \in {Call(Ax), Call(Gone), Fork(<<Call(Ay)>>)}}

(* Faults: every target that is there and some that are not, alone and in  *)
(* pairs.                                                                  *)
FaultDoc(target) == [target |-> target, kind |-> "Crash", severity |-> Nil, schedule |-> <<>>]
OpText(p) == identifyOp(p)
TargetTexts ==
  {<<"node", ":">> \o A, <<"node", ":", "c">>, <<"node", ":">>, <<"node">>, <<"zone", ":">> \o A}
  \union {<<"operation", ":">> \o OpText(p) : p \in Ops \union {Gone}} \union {<<"operation", ":", "x">>}
  \union {<<"edge", ":">> \o OpText(p) \o <<"->">> \o OpText(q) : p, q \in Ops}
  \union {<<"edge", ":">> \o OpText(Ax), <<"edge", ":">> \o OpText(Ax) \o <<"->">>}
FaultGraph == Raw(<<CallElse(Ay, <<Call(Bz)>>), Fork(<<Call(Bz), Call(Ay)>>)>>, <<Call(Bz)>>, <<>>)
(* Names with separators in them.                                          *)
Dotted == <<"a", ".", "b">>
DottedOps == {<<Dotted, <<"c">>>>, <<A, <<"b", ".", "c">>>>, <<A, <<"d", "->", "e">>>>}
DottedGraph ==
  [Plain EXCEPT !.services = (A :> ServiceDoc(<<OpDoc(<<"x">>), OpDoc(<<"b", ".", "c">>), OpDoc(<<"d", "->", "e">>)>>))
                             @@ (Dotted :> ServiceDoc(<<OpDoc(<<"c">>)>>)),
     !.calls = Owned(<<A, 1>>, List("call", <<Call(<<Dotted, <<"c">>>>), Call(<<A, <<"b", ".", "c">>>>)>>))
               @@ Owned(<<A, 2>>, List("call", <<Call(<<A, <<"d", "->", "e">>>>)>>))
               @@ Owned(<<Dotted, 1>>, List("call", <<Call(<<A, <<"b", ".", "c">>>>)>>)),
     !.journeys = "j" :> JourneyDoc, !.steps = Owned("j", List("step", <<Step(Ax)>>))]
FaultDocs ==
  {Doc([FaultGraph EXCEPT !.faults = <<FaultDoc(t)>>]) : t \in TargetTexts}
  \union {Doc([FaultGraph EXCEPT !.faults = <<FaultDoc(t), [FaultDoc(u) EXCEPT !.kind = "disconnect"]>>]) :
            t, u \in TargetTexts}
  \union {Doc([DottedGraph EXCEPT !.faults = <<FaultDoc(t)>>]) :
            t \in {<<"node", ":">> \o Dotted} \union {<<"operation", ":">> \o OpText(p) : p \in DottedOps}
                  \union {<<"edge", ":">> \o OpText(p) \o <<"->">> \o OpText(q) : p, q \in DottedOps}}

(* The optional keys: left out, given their default, another value, or a   *)
(* value out of range.                                                     *)
Latencies == {Nil} \union
  [distribution : {"", "constant", "lognormal", "bogus"}, p50 : {Nil, 0, 5}, p95 : {Nil, 0, 5, 9}]
EdgeDocs ==
  {Doc(Raw(<<Node([CallTo(Bz) EXCEPT !.latency = l, !.errorRate = e])>>, <<>>, <<>>)) :
     l \in Latencies, e \in {Nil, 0, 3, 11, NaN}}
  \union {Doc(Raw(<<Node([CallTo(Bz) EXCEPT !.protocol = p, !.timeout = t, !.retries = r, !.backoff = b,
                           !.baseDelay = d])>>, <<>>, <<>>)) :
     p \in {" HTTP", ""}, t \in {Nil, 0, 4, -1}, r \in {Nil, 2, -1}, b \in {"", "linear"}, d \in {Nil, 0, 100, 7, -1}}
  \union {Doc(Raw(<<CallElse(Bz, <<Node([CallTo(Bz) EXCEPT !.onFailure = p, !.retries = 1]) @@ List("fallback", f)>>)>>,
                  <<>>, <<>>)) :
     p \in [onExhausted : {"", "propagate", "return_default", "never"}, defaultResponse : MCAttributes],
     f \in {<<>>, <<Call(Bz)>>}}
  \union {Doc(Raw(<<CallElse(Bz, <<CallElse(Ay, <<Node([CallTo(Bz) EXCEPT !.latency = l, !.errorRate = e])>>)>>)>>,
                  <<>>, <<>>)) : l \in Latencies, e \in {11, NaN}}

LinkDocs == {Nil} \union [kind : {"crash", "fire"}, delta : {Nil, 0, 2}, value : {Nil}]
               \union [kind : {"crash"}, delta : {Nil}, value : {0, 2, NaN}]
               \union [kind : {"crash"}, delta : {3}, value : {2}]
Event(n, s, c) == [name |-> n, severity |-> s, condition |-> c, rest |-> Nil, attributes |-> Nil]
MetricDoc(t, b, c, l) ==
  [name |-> <<"m">>, type |-> t, rest |-> Nil, attributes |-> Nil, baseline |-> b, condition |-> c,
   whenFault |-> l, source |-> Nil]
Update(d, c, l) == [key |-> <<"k">>, delta |-> d, condition |-> c, whenFault |-> l]
Stack(w) == [frames |-> <<"f">>, weight |-> w]
ProfileDocs ==
  [enabled : BOOLEAN, sampleRate : {Nil, 0, 100, 50}, baseline : {{}, {Stack(1)}, {Nil, Stack(NaN)}},
   incident : {{}, {Stack(2)}}, whenFault : {Nil, "crash"}]
XWith(field, v) == Doc([Plain EXCEPT !.services[A].operations[1] = [@ EXCEPT ![field] = v]])
Mapped(item) == {{[item EXCEPT !.attributes = m, !.rest = r]} : m \in MCAttributes, r \in MCRest}
MapDocs ==
  {XWith("logEvents", list) : list \in Mapped(Event(<<"e">>, "", ""))}
  \union {XWith("metrics", list) : list \in Mapped(MetricDoc("counter", Nil, "", Nil))}
  \union {Doc([Plain EXCEPT !.services[A].metrics = list]) :
            list \in Mapped(MetricDoc("observable_gauge", Nil, "", Nil))}
LeafDocs ==
  {XWith("logEvents", {Nil, Event(n, s, c)}) : n \in {<<"e">>, <<>>, <<Long>>},
     s \in {"", "WARNING", "error", "loud"}, c \in {"", "always", "on_error", "never"}}
  \union {XWith("metrics", {MetricDoc(t, b, c, l)}) :
     t \in {"counter", "observable_gauge"}, b \in {Nil, 0, 3, NaN}, c \in {"", "on_error"}, l \in LinkDocs}
  \union {XWith("stateUpdates", {Update(d, c, l)}) : d \in {Nil, 0, 1}, c \in {"", "on_error"}, l \in LinkDocs}
  \union {XWith("profile", p) : p \in ProfileDocs}
  \union {Doc([Plain EXCEPT !.services[A].metrics = {[MetricDoc(t, b, "", l) EXCEPT !.source = src]}]) :
     t \in {"observable_gauge", "observable_counter", "counter"}, b \in {Nil, 1}, l \in {Nil} \union
     [kind : {"crash"}, delta : {2}, value : {Nil}],
     src \in {Nil} \union [accumulator : {<<>>, <<"k">>}, minus : {<<>>, <<"l">>}]}

SeverityDocs == {Nil} \union
  [probability : {Nil, 0, 5, 11}, multiplier : {Nil, 0, 20, NaN}, add : {Nil, 3}, value : {Nil, 4}]
Schedules == {<<>>, <<Nil>>, <<[at |-> 0, intensity |-> 0], [at |-> 5, intensity |-> Nil]>>,
              <<[at |-> 5, intensity |-> 1], [at |-> 5, intensity |-> 2]>>, <<[at |-> -1, intensity |-> 1]>>}
RestDocs ==
  {Doc([Plain EXCEPT !.faults = <<[target |-> <<"node", ":", "a">>, kind |-> k, severity |-> s, schedule |-> c]>>]) :
     k \in {"latency_inflation", "crash"}, s \in SeverityDocs, c \in Schedules}
  \union {Doc([Plain EXCEPT !.namespace = n, !.services[A].namespace = m, !.services[B].replicas = r,
                            !.journeys["j"].weight = w]) :
     n \in {"", DefaultNamespace, "prod"}, m \in {"", DefaultNamespace, "prod", "own"}, r \in {Nil, 1, 3},
     w \in {Nil, 10, 5, -1, NaN}}

FieldDocs == EdgeDocs \union MapDocs \union LeafDocs \union RestDocs

MCDocs == GraphDocs \union BrokenDocs \union FaultDocs \union FieldDocs

=============================================================================
