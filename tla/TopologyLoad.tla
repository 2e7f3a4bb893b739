------------------------------ MODULE TopologyLoad ------------------------------
(***************************************************************************)
(* One document through the public functions of topology and the           *)
(* constructor of the journey engine: Lint, Parse, NewEngine, MarshalYAML  *)
(* and Parse again.  Each is one call; which documents there are is the    *)
(* constant Docs.                                                          *)
(***************************************************************************)
EXTENDS JourneyPlan

CONSTANT Docs

(* The documents are what a YAML decoder can produce.                      *)
ASSUME DocsDecoded == \A document \in Docs : RawSchema(document.raw)

VARIABLES
  doc,      \* the document
  lint,     \* what Lint returned
  loaded,   \* what Parse returned
  engine,   \* the plans of the engine
  text,     \* the document MarshalYAML wrote
  again     \* what Parse returned of that

vars == <<doc, lint, loaded, engine, text, again>>

Init == doc \in Docs /\ lint = Nil /\ loaded = Nil /\ engine = Nil /\ text = Nil /\ again = Nil

RunLint ==
  /\ lint = Nil
  /\ \E r \in {Resolve(doc.raw)} : lint' = Lint(doc.yaml, r)
  /\ UNCHANGED <<doc, loaded, engine, text, again>>

RunParse ==
  /\ lint # Nil /\ loaded = Nil
  /\ \E r \in {Resolve(doc.raw)} : loaded' = Parse(doc.yaml, r)
  /\ UNCHANGED <<doc, lint, engine, text, again>>

(* load goes on with the engine only if there was no error.                *)
RunEngine ==
  /\ loaded # Nil /\ engine = Nil
  /\ loaded.schema # Nil
  /\ engine' = NewEngine(loaded.schema)
  /\ UNCHANGED <<doc, lint, loaded, text, again>>

RunMarshal ==
  /\ engine # Nil /\ text = Nil
  /\ text' = MarshalYAML(loaded.schema)
  /\ UNCHANGED <<doc, lint, loaded, engine, again>>

ParseAgain ==
  /\ text # Nil /\ again = Nil
  /\ \E r \in {Resolve(text)} : again' = Parse("ok", r)
  /\ UNCHANGED <<doc, lint, loaded, engine, text>>

Next == RunLint \/ RunParse \/ RunEngine \/ RunMarshal \/ ParseAgain

Spec == Init /\ [][Next]_vars

-----------------------------------------------------------------------------
(* Reference definitions                                                   *)

(* The operations that can be reached from those in from along arcs: those *)
(* that are in every set that holds from and that no arc leads out of.     *)
Reach(s, arcs, from) ==
  {p \in Operations(s) : \A S \in SUBSET Operations(s) :
     from \subseteq S /\ (\A a \in arcs : a[1] \in S => a[2] \in S) => p \in S}

PrimaryCalls(s) == {at \in Nodes(s.calls) : s.calls[at].to # Nil}

Arcs(s, edges) == {<<at[1], s.calls[at].to>> : at \in edges}

(* Over calls, members of groups and their fallbacks.                      *)
Cyclic(s) ==
  LET fallbacks == {at \in DOMAIN s.calls : IsFallback(at) /\ \E of \in PrimaryCalls(s) : Parent(of, at)}
      arcs == Arcs(s, PrimaryCalls(s) \union fallbacks)
  IN \E a \in arcs : a[1] \in Reach(s, arcs, {a[2]})

Accepted == loaded # Nil /\ loaded.schema # Nil

-----------------------------------------------------------------------------
(* Lint finds an error, or fails, exactly for the documents Parse refuses, *)
(* and among its issues are all of Parse's errors (Lint and Parse are two  *)
(* separate sequences of the same stages).                                 *)
LintAgrees ==
  loaded # Nil =>
    LET errors == {i[2] : i \in {j \in lint.issues : j[1] = "error"}}
    IN /\ (lint.failed \/ errors # {}) <=> loaded.errs # {}
       /\ ~lint.failed => loaded.errs \subseteq errors

(* A document whose references are sound is refused for a cycle exactly    *)
(* when one of its operations can reach itself over calls, members of      *)
(* parallel groups and fallbacks (validateDAG).                            *)
CyclesRejected ==
  loaded # Nil /\ doc.yaml = "ok" =>
    \A r \in {Resolve(doc.raw)} :
      r.errs = {} => ("R_STR_4" \in loaded.errs <=> Cyclic(r.schema))

(* The constructor of the engine never panics on a schema Parse accepted:  *)
(* its own search for cycles finds nothing Validate has missed, and every  *)
(* journey has a step.                                                     *)
EngineBuilds == engine # Nil => \A name \in DOMAIN engine : DOMAIN engine[name] # {}

(* A journey's plan invokes every operation that can be reached from its   *)
(* steps over calls and groups, and no other; every invocation but a       *)
(* step's is made over an edge of the operation that makes it, and none is *)
(* made on the way to itself (buildPlan).                                  *)
PlanComplete ==
  engine # Nil =>
    LET s == loaded.schema
    IN \A name \in DOMAIN engine : \A k \in DOMAIN engine[name] :
         LET op == s.steps[k].op
             chains == engine[name][k]
         IN /\ {Invoked(s, op, c) : c \in chains} = Reach(s, Arcs(s, PrimaryCalls(s)), {op})
            /\ \A c \in chains : \A i \in DOMAIN c :
                 /\ c[i][1] = Invoked(s, op, SubSeq(c, 1, i - 1))
                 /\ \A j \in 1..i : s.calls[c[i]].to # c[j][1]

(* Validate and the engine, which traverse the calls in different ways,    *)
(* agree on which graphs can be run, and on what is run of them.           *)
GraphsServed == CyclesRejected /\ EngineBuilds /\ PlanComplete

(* The calls of an operation whose name comes again in its service.        *)
Shadowed(raw) ==
  {k \in DOMAIN raw.calls :
     LET ops == raw.services[k[1][1]].operations
     IN \E i \in DOMAIN ops :
          i > k[1][2] /\ ops[i] # Nil /\ ops[i].name = ops[k[1][2]].name}

(* Every call, step and fault of an accepted document is in the schema if  *)
(* the names of operations are unique in their service, as the reference   *)
(* says (docs/content/en/reference/topology.md:136, "An operation name     *)
(* unique within the service"): none is lost on an error path of the       *)
(* resolver (resolveCallNode drops the members of a group it could not     *)
(* resolve, resolveReferences the calls, steps and faults).  Parse accepts *)
(* a name twice, though, and the later operation takes the place of the    *)
(* earlier: the calls of that one are lost, and no others.                 *)
NothingDropped ==
  Accepted =>
    LET s == loaded.schema
        raw == doc.raw
        kept == DOMAIN raw.calls \ Shadowed(raw)
        InSchema(k) == <<OwnerOf(raw, k[1]), k[2]>>
    IN /\ DOMAIN s.calls = {InSchema(k) : k \in kept}
       /\ \A k \in kept : s.calls[InSchema(k)].to = raw.calls[k].to
       /\ DOMAIN s.steps = DOMAIN raw.steps
       /\ DOMAIN s.faults = DOMAIN raw.faults

(* Each fault of an accepted document is attached to the object its target *)
(* names, and ApplyFaults hands it out for that object and no other; of an *)
(* operation the converse holds unless a dot is in its service's name.     *)
TargetsReadBack ==
  Accepted =>
    LET s == loaded.schema
        overlay == ApplyFaults(s)
    IN \A i \in DOMAIN s.faults :
         LET target == doc.raw.faults[i].target
         IN /\ marshalFaultTarget(s, s.faults[i].target) = target
            /\ \A id \in DOMAIN overlay.nodeFaults :
                 i \in overlay.nodeFaults[id] <=> target = <<"node", ":">> \o id
            /\ \A p \in DOMAIN overlay.operationFaults :
                 LET named == target = <<"operation", ":">> \o identifyOp(p)
                 IN /\ i \in overlay.operationFaults[p] => named
                    /\ named /\ ~Contains(p[1], ".") => i \in overlay.operationFaults[p]
            /\ \A at \in DOMAIN overlay.edgeFaults :
                 i \in overlay.edgeFaults[at] => target = <<"edge", ":">> \o edgeIdentity(s.calls[at])

(* Every pointer of an accepted schema, also of the fallbacks of fallbacks *)
(* Validate does not visit, leads to an operation that is registered, and  *)
(* a call or a fallback leaves from the operation it is in.                *)
PointersClosed ==
  Accepted =>
    LET s == loaded.schema
    IN /\ \A at \in DOMAIN s.calls :
            s.calls[at].to # Nil => s.calls[at].to \in Operations(s) /\ s.calls[at].from = at[1]
       /\ \A k \in DOMAIN s.steps : s.steps[k].op # Nil => s.steps[k].op \in Operations(s)

(* The schema of an accepted document is the whole of it, but for what a   *)
(* repeated name hides, and every reference leads where the document says. *)
SchemaWhole == NothingDropped /\ TargetsReadBack /\ PointersClosed

Links(s) ==
  (UNION {{m.whenFault : m \in s.services[id].metrics} : id \in DOMAIN s.services})
  \union (UNION {{x.whenFault : x \in Op(s, p).metrics \union Op(s, p).stateUpdates} : p \in Operations(s)})

Maps(s) ==
  (UNION {{m.attributes : m \in s.services[id].metrics} : id \in DOMAIN s.services})
  \union (UNION {{x.attributes : x \in Op(s, p).logEvents \union Op(s, p).metrics} : p \in Operations(s)})
  \union {s.calls[at].onFailure.defaultResponse :
            at \in {k \in DOMAIN s.calls : s.calls[k].to # Nil /\ s.calls[k].onFailure # Nil}}

(* What the document that is written can say: of a link delta or value, a  *)
(* sample rate and an upper quantile but 0, a number but NaN, a map but    *)
(* the empty one, with values that keep their type.  Parse accepts more.   *)
Writable(s) ==
  /\ \A m \in Maps(s) : m # Empty /\ Reread[m] = m
  /\ \A link \in Links(s) \ {Nil} : link.hasValue => link.delta = 0
  /\ \A p \in Profiles(s) : p.sampleRate # 0
  /\ \A at \in DOMAIN s.calls :
       s.calls[at].to # Nil /\ s.calls[at].latency.p95 = 0 => s.calls[at].latency.p50 = 0
  /\ NaN \notin Floats(s)

(* What MarshalYAML writes of an accepted schema is accepted, and where    *)
(* the schema is writable, read back as an equal one: no default that is   *)
(* left out differs from the one that is put in, and no name is cut in the *)
(* wrong place.                                                            *)
RoundTrip ==
  again # Nil => again.errs = {} /\ (Writable(loaded.schema) => Equal(loaded.schema, again.schema))

=============================================================================
