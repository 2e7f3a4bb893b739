--------------------------- MODULE TopologyProofs ---------------------------
(***************************************************************************)
(* Proofs about TopologyLoad, for every set of documents a decoder can     *)
(* produce: what Lint and Parse answer (LintAgrees), that an accepted      *)
(* schema is the whole of its document (SchemaWhole), that Validate and    *)
(* the plan builder agree on its graph of calls (GraphsServed), and that   *)
(* what MarshalYAML writes is read back as an equal schema (RoundTrip).    *)
(*                                                                         *)
(* Each variable holds what its function returns for the document          *)
(* (Answers), so the theorems are about those functions: first what Resolve*)
(* returns, then that the calls and steps of a document without errors     *)
(* were all resolved and that a fault's target is written as it was read,  *)
(* then the two traversals of the graph, each of which is shown to         *)
(* compute what its recursion is a way to compute, in the end that each    *)
(* key MarshalYAML writes is read again as what it was written for.        *)
(***************************************************************************)
EXTENDS TopologyLoad, SequenceTheorems, FunctionTheorems, FiniteSetTheorems, WellFoundedInduction, TLAPS

-----------------------------------------------------------------------------
(***************************************************************************)
(* The calls: what each variable holds once it is set.                     *)
(***************************************************************************)
Answers ==
  /\ doc \in Docs
  /\ lint # Nil => lint = Lint(doc.yaml, Resolve(doc.raw))
  /\ loaded # Nil => lint # Nil /\ loaded = Parse(doc.yaml, Resolve(doc.raw))
  /\ engine # Nil => Accepted /\ engine = NewEngine(loaded.schema)
  /\ text # Nil => engine # Nil /\ text = MarshalYAML(loaded.schema)
  /\ again # Nil => text # Nil /\ again = Parse("ok", Resolve(text))

LEMMA AnswersAlways == Spec => []Answers
<1>1. Init => Answers
  BY Zenon DEF Init, Answers
<1>2. Answers /\ [Next]_vars => Answers'
  <2> SUFFICES ASSUME Answers, [Next]_vars
               PROVE  Answers'
    OBVIOUS
  <2>1. CASE RunLint
    BY <2>1, Zenon DEF RunLint, Answers, Accepted
  <2>2. CASE RunParse
    BY <2>2, Zenon DEF RunParse, Answers, Accepted
  <2>3. CASE RunEngine
    BY <2>3, Zenon DEF RunEngine, Answers, Accepted
  <2>4. CASE RunMarshal
    BY <2>4, Zenon DEF RunMarshal, Answers, Accepted
  <2>5. CASE ParseAgain
    BY <2>5, Zenon DEF ParseAgain, Answers, Accepted
  <2>6. CASE UNCHANGED vars
    BY <2>6, Zenon DEF vars, Answers, Accepted
  <2> QED
    BY <2>1, <2>2, <2>3, <2>4, <2>5, <2>6, Zenon DEF Next
<1> QED
  BY <1>1, <1>2, PTL DEF Spec

LEMMA ParseIs ==
  ASSUME NEW yaml, NEW r, NEW p, p = Parse(yaml, r)
  PROVE  /\ yaml \in {"type", "both", "syntax"} => p.errs = {"yaml"}
         /\ yaml \notin {"type", "both", "syntax"} =>
              p.errs = IF r.errs # {} THEN r.errs ELSE Validate(r.schema)
         /\ p.schema = IF p.errs = {} THEN r.schema ELSE Nil
<1> DEFINE v == Validate(r.schema)
<1> HIDE DEF v
<1>1. p = LET errs == IF yaml \in {"type", "both", "syntax"} THEN {"yaml"}
                      ELSE IF r.errs # {} THEN r.errs ELSE v
          IN [schema |-> IF errs = {} THEN r.schema ELSE Nil, errs |-> errs]
  BY Zenon DEF Parse, v
<1> QED
  BY <1>1 DEF v

LEMMA IssueTexts ==
  ASSUME NEW issues, NEW E, NEW W,
         issues = W \union {<<"error", e>> : e \in E}, \A w \in W : w[1] = "warning"
  PROVE  {i[2] : i \in {j \in issues : j[1] = "error"}} = E
<1>1. \A j \in {i \in issues : i[1] = "error"} : j[2] \in E
  <2> SUFFICES ASSUME NEW j \in issues, j[1] = "error"
               PROVE  j[2] \in E
    OBVIOUS
  <2>1. j \notin W
    OBVIOUS
  <2>2. PICK e \in E : j = <<"error", e>>
    BY <2>1
  <2> QED
    BY <2>2
<1>2. \A e \in E : \E j \in {i \in issues : i[1] = "error"} : j[2] = e
  <2> TAKE e \in E
  <2>1. <<"error", e>> \in issues
    OBVIOUS
  <2> QED
    BY <2>1
<1> QED
  BY <1>1, <1>2

(* For every document Lint finds an error, or fails, exactly if Parse      *)
(* refuses the document, and its issues hold all of Parse's errors.        *)
THEOREM LintAgreesCorrect == Spec => []LintAgrees
<1>1. Answers => LintAgrees
  <2> SUFFICES ASSUME Answers, loaded # Nil
               PROVE  LET errors == {i[2] : i \in {j \in lint.issues : j[1] = "error"}}
                      IN /\ (lint.failed \/ errors # {}) <=> loaded.errs # {}
                         /\ ~lint.failed => loaded.errs \subseteq errors
    BY Zenon DEF LintAgrees
  <2> DEFINE r == Resolve(doc.raw)
             v == Validate(r.schema)
             errors == {i[2] : i \in {j \in lint.issues : j[1] = "error"}}
  <2>1. lint = Lint(doc.yaml, r) /\ loaded = Parse(doc.yaml, r)
    BY Zenon DEF Answers
  <2> HIDE DEF r
  <2>2. CASE doc.yaml = "syntax"
    <3>1. loaded.errs = {"yaml"}
      BY <2>1, <2>2, ParseIs
    <3>2. lint.failed
      <4>1. lint = [failed |-> TRUE, issues |-> {}]
        BY <2>1, <2>2, Zenon DEF Lint
      <4> QED
        BY <4>1, SMT
    <3> QED
      BY <3>1, <3>2
  <2>3. CASE doc.yaml \in {"type", "both"}
    <3>1. loaded.errs = {"yaml"}
      BY <2>1, <2>3, ParseIs
    <3>2. lint = [failed |-> FALSE, issues |-> {<<"error", "yaml">>}]
      BY <2>1, <2>3 DEF Lint
    <3> DEFINE E == {"yaml"}
               W == {}
    <3>3. lint.issues = W \union {<<"error", e>> : e \in E} /\ \A w \in W : w[1] = "warning"
      BY <3>2
    <3> HIDE DEF E, W
    <3>5. errors = E
      BY <3>3, IssueTexts
    <3>4. errors = {"yaml"}
      BY <3>5 DEF E
    <3> QED
      BY <3>1, <3>2, <3>4
  <2>4. CASE doc.yaml \notin {"type", "both", "syntax"}
    <3>1. loaded.errs = IF r.errs # {} THEN r.errs ELSE v
      BY <2>1, <2>4, ParseIs
    <3> DEFINE warnings == IF doc.yaml = "unknown" THEN {<<"warning", "unknown key">>} ELSE {}
    <3>2. lint = [failed |-> FALSE,
                  issues |-> warnings \union {<<"error", e>> : e \in r.errs \union v}]
      <4>1. ~(doc.yaml = "syntax") /\ ~(doc.yaml \in {"type", "both"})
        BY <2>4
      <4> QED
        BY <2>1, <4>1, Zenon DEF Lint
    <3> HIDE DEF v
    <3>3. \A w \in warnings : w[1] = "warning"
      <4>1. \A w \in warnings : w = <<"warning", "unknown key">>
        OBVIOUS
      <4>2. <<"warning", "unknown key">>[1] = "warning"
        OBVIOUS
      <4> HIDE DEF warnings
      <4> QED
        BY <4>1, <4>2, Zenon
    <3> HIDE DEF warnings
    <3>4. lint.issues = warnings \union {<<"error", e>> : e \in r.errs \union v} /\ ~lint.failed
      BY <3>2
    <3>5. errors = r.errs \union v
      BY <3>3, <3>4, IssueTexts
    <3> QED
      BY <3>1, <3>4, <3>5
  <2> QED
    BY <2>2, <2>3, <2>4
<1> QED
  BY <1>1, AnswersAlways, PTL

LEMMA LeastNat ==
  ASSUME NEW T, T \subseteq Nat, T # {}
  PROVE  \E x \in T : \A y \in T : x <= y
<1> DEFINE R == OpToRel(<, Nat)
<1>1. \A y, x \in Nat : y < x => <<y, x>> \in R
  BY Zenon DEF OpToRel
<1>2. IsWellFoundedOn(R, Nat)
  BY NatLessThanWellFounded, Zenon
<1> HIDE DEF R
<1>3. PICK x \in T : \A y \in T : ~(<<y, x>> \in R)
  BY <1>2, WFMin, Zenon
<1>4. \A y \in T : ~(y < x)
  BY <1>1, <1>3
<1> QED
  BY <1>4

-----------------------------------------------------------------------------
(***************************************************************************)
(* What is resolved of a document.                                         *)
(***************************************************************************)

\* The schema with its calls, in which journeys and faults are resolved.
WithCalls(raw) == resolveCalls(buildSchema(raw), raw, callErrors(buildSchema(raw), raw.calls))

CallsWrong(raw) == callErrors(buildSchema(raw), raw.calls)
StepsWrong(raw) == [k \in DOMAIN raw.steps |-> stepError(WithCalls(raw), raw.steps, k)]
FaultsRead(raw) == [i \in DOMAIN raw.faults |-> resolveFault(WithCalls(raw), raw.faults[i])]

JourneysRead(raw) ==
  [name \in DOMAIN raw.journeys |->
     [name |-> name, weight |-> Or(Or(raw.journeys[name], ZeroJourney).weight, 10)]]
StepsKept(raw, keys) == [k \in keys |-> resolveStep(raw.steps, k)]
FaultsKept(raw, positions) == [i \in positions |-> FaultsRead(raw)[i].val]

\* The positions of the faults that are resolved.
FaultsFound(raw) == {f \in DOMAIN raw.faults : FaultsRead(raw)[f].errs = {}}

LEMMA BuildIs ==
  ASSUME NEW raw, NEW B, B = buildSchema(raw)
  PROVE  /\ B.namespace = OrText(raw.namespace, DefaultNamespace)
         /\ DOMAIN B.services = DOMAIN raw.services
         /\ \A id \in DOMAIN raw.services :
              B.services[id] = BuildService(id, Or(raw.services[id], ZeroService), B.namespace)
BY DEF buildSchema

\* The keys of the calls that are kept, of those that are resolved.
KeysOf(raw, resolved) ==
  {<<OwnerOf(raw, k[1]), k[2]>> : k \in {l \in resolved : l[1] = LastOwner(raw, OwnerOf(raw, l[1]))}}

LEMMA WithCallsIs ==
  ASSUME NEW raw, NEW B, B = buildSchema(raw), NEW C, C = WithCalls(raw)
  PROVE  /\ C.namespace = B.namespace /\ C.services = B.services
         /\ C.calls = [at \in KeysOf(raw, Resolved(CallsWrong(raw))) |->
              resolveCallNode(at[1], raw.calls[<<LastOwner(raw, at[1]), at[2]>>])]
<1> DEFINE calls == [at \in KeysOf(raw, Resolved(CallsWrong(raw))) |->
                      resolveCallNode(at[1], raw.calls[<<LastOwner(raw, at[1]), at[2]>>])]
<1>1. C = [B EXCEPT !.calls = calls]
  BY Zenon DEF WithCalls, resolveCalls, CallsWrong, KeysOf
<1>2. B = [namespace |-> B.namespace, services |-> B.services, calls |-> <<>>, journeys |-> <<>>,
           steps |-> <<>>, faults |-> <<>>]
  BY DEF buildSchema
<1> HIDE DEF calls
<1>3. C.namespace = B.namespace /\ C.services = B.services /\ C.calls = calls
  BY <1>1, <1>2
<1> QED
  BY <1>3, Zenon DEF calls

LEMMA PutOne ==
  ASSUME NEW n, NEW s, NEW c, NEW j, NEW t, NEW f, NEW C, NEW v,
         C = [namespace |-> n, services |-> s, calls |-> c, journeys |-> j, steps |-> t, faults |-> f]
  PROVE  /\ \A D : D = [C EXCEPT !.journeys = v] =>
                D = [namespace |-> n, services |-> s, calls |-> c, journeys |-> v, steps |-> t, faults |-> f]
         /\ \A D : D = [C EXCEPT !.steps = v] =>
                D = [namespace |-> n, services |-> s, calls |-> c, journeys |-> j, steps |-> v, faults |-> f]
         /\ \A D : D = [C EXCEPT !.faults = v] =>
                D = [namespace |-> n, services |-> s, calls |-> c, journeys |-> j, steps |-> t, faults |-> v]
         /\ n = C.namespace /\ s = C.services /\ c = C.calls
<1>1. ASSUME NEW D, D = [C EXCEPT !.journeys = v]
      PROVE D = [namespace |-> n, services |-> s, calls |-> c, journeys |-> v, steps |-> t, faults |-> f]
  BY <1>1
<1>2. ASSUME NEW D, D = [C EXCEPT !.steps = v]
      PROVE D = [namespace |-> n, services |-> s, calls |-> c, journeys |-> j, steps |-> v, faults |-> f]
  BY <1>2
<1>3. ASSUME NEW D, D = [C EXCEPT !.faults = v]
      PROVE D = [namespace |-> n, services |-> s, calls |-> c, journeys |-> j, steps |-> t, faults |-> v]
  BY <1>3
<1>4. n = C.namespace /\ s = C.services /\ c = C.calls
  OBVIOUS
<1> QED
  BY <1>1, <1>2, <1>3, <1>4, Zenon

LEMMA RestPut ==
  ASSUME NEW n, NEW s, NEW c, NEW j, NEW t, NEW f, NEW C,
         C = [namespace |-> n, services |-> s, calls |-> c, journeys |-> <<>>, steps |-> <<>>, faults |-> <<>>],
         NEW D, D = [C EXCEPT !.journeys = j, !.steps = t, !.faults = f]
  PROVE  D = [namespace |-> C.namespace, services |-> C.services, calls |-> C.calls,
              journeys |-> j, steps |-> t, faults |-> f]
<1> DEFINE D1 == [C EXCEPT !.journeys = j]
           D2 == [D1 EXCEPT !.steps = t]
           D3 == [D2 EXCEPT !.faults = f]
<1>0. [C EXCEPT !.journeys = j, !.steps = t, !.faults = f] = D3
  BY Zenon
<1>d. D1 = [C EXCEPT !.journeys = j] /\ D2 = [D1 EXCEPT !.steps = t] /\ D3 = [D2 EXCEPT !.faults = f]
  OBVIOUS
<1> HIDE DEF D1, D2, D3
<1>1. D1 = [namespace |-> n, services |-> s, calls |-> c, journeys |-> j, steps |-> <<>>, faults |-> <<>>]
  BY <1>d, PutOne, Zenon
<1>2. D2 = [namespace |-> n, services |-> s, calls |-> c, journeys |-> j, steps |-> t, faults |-> <<>>]
  BY <1>d, <1>1, PutOne, Zenon
<1>3. D3 = [namespace |-> n, services |-> s, calls |-> c, journeys |-> j, steps |-> t, faults |-> f]
  BY <1>d, <1>2, PutOne, Zenon
<1>4. n = C.namespace /\ s = C.services /\ c = C.calls
  BY PutOne, Zenon
<1> QED
  BY <1>0, <1>3, <1>4, Zenon

LEMMA ResolveIs ==
  ASSUME NEW raw, NEW r, r = Resolve(raw), NEW C, C = WithCalls(raw)
  PROVE  /\ r.schema = [namespace |-> C.namespace, services |-> C.services, calls |-> C.calls,
                journeys |-> JourneysRead(raw), steps |-> StepsKept(raw, Resolved(StepsWrong(raw))),
                faults |-> FaultsKept(raw, FaultsFound(raw))]
         /\ r.errs = Reported(CallsWrong(raw)) \union Reported(StepsWrong(raw))
                     \union UNION {FaultsRead(raw)[i].errs : i \in DOMAIN raw.faults}
<1> DEFINE B == buildSchema(raw)
           E == Reported(CallsWrong(raw))
           J == [name \in DOMAIN raw.journeys |->
                   [name |-> name, weight |-> Or(Or(raw.journeys[name], ZeroJourney).weight, 10)]]
           T == [k \in Resolved(StepsWrong(raw)) |-> resolveStep(raw.steps, k)]
           F == [i \in {f \in DOMAIN FaultsRead(raw) : FaultsRead(raw)[f].errs = {}} |-> FaultsRead(raw)[i].val]
           G == UNION {FaultsRead(raw)[i].errs : i \in DOMAIN FaultsRead(raw)}
<1>1. r = resolveRest(C, raw, E)
  BY Zenon DEF Resolve, resolveReferences, WithCalls, CallsWrong
<1>2. DOMAIN FaultsRead(raw) = DOMAIN raw.faults
  BY Zenon DEF FaultsRead
<1>3. r = [schema |-> [C EXCEPT !.journeys = J, !.steps = T, !.faults = F],
           errs |-> E \union Reported(StepsWrong(raw)) \union G]
  <2>1. r = resolveRest(WithCalls(raw), raw, E)
    BY <1>1, Zenon
  <2> HIDE DEF E, J
  <2>2. r = [schema |-> [WithCalls(raw) EXCEPT !.journeys = J, !.steps = T, !.faults = F],
             errs |-> E \union Reported(StepsWrong(raw)) \union G]
    BY <2>1, Zenon DEF resolveRest, StepsWrong, FaultsRead, J
  <2> QED
    BY <2>2, Zenon
<1>4. \E n, s, c : C = [namespace |-> n, services |-> s, calls |-> c, journeys |-> <<>>,
                       steps |-> <<>>, faults |-> <<>>]
  <2>1. \E n, s : B = [namespace |-> n, services |-> s, calls |-> <<>>, journeys |-> <<>>,
                      steps |-> <<>>, faults |-> <<>>]
    BY Zenon DEF buildSchema
  <2>2. \E calls : C = [B EXCEPT !.calls = calls]
    BY Zenon DEF WithCalls, resolveCalls
  <2> HIDE DEF B
  <2>3. PICK n, s : B = [namespace |-> n, services |-> s, calls |-> <<>>, journeys |-> <<>>,
                         steps |-> <<>>, faults |-> <<>>]
    BY <2>1
  <2>4. PICK calls : C = [B EXCEPT !.calls = calls]
    BY <2>2
  <2>5. C = [namespace |-> n, services |-> s, calls |-> calls, journeys |-> <<>>,
             steps |-> <<>>, faults |-> <<>>]
    BY <2>3, <2>4
  <2> QED
    BY <2>5, Zenon
<1> HIDE DEF B, E, J, T, F, G
<1>5. r.schema = [namespace |-> C.namespace, services |-> C.services, calls |-> C.calls,
                  journeys |-> J, steps |-> T, faults |-> F]
  <2>1. PICK n, s, c : C = [namespace |-> n, services |-> s, calls |-> c, journeys |-> <<>>,
                            steps |-> <<>>, faults |-> <<>>]
    BY <1>4, Zenon
  <2>2. r.schema = [C EXCEPT !.journeys = J, !.steps = T, !.faults = F]
    BY <1>3
  <2> QED
    BY <2>1, <2>2, RestPut
<1>6. r.errs = E \union Reported(StepsWrong(raw)) \union G
  BY <1>3
<1> QED
  BY <1>2, <1>5, <1>6, Zenon DEF E, J, T, F, G, JourneysRead, StepsKept, FaultsKept, FaultsFound

(* An error anywhere in a table is reported: the topmost of its branch is. *)
LEMMA NothingReported ==
  ASSUME NEW errs, \A k \in DOMAIN errs : Len(k[2]) \in Nat, Reported(errs) = {}
  PROVE  /\ \A k \in DOMAIN errs : errs[k] = {}
         /\ Resolved(errs) = DOMAIN errs
<1> DEFINE wrong == {k \in DOMAIN errs : errs[k] # {}}
           T == {Len(k[2]) : k \in wrong}
<1>1. ASSUME NEW w \in wrong PROVE FALSE
  <2>1. \E n \in T : \A m \in T : n <= m
    <3>1. T # {} /\ T \subseteq Nat
      BY <1>1
    <3> HIDE DEF T
    <3> QED
      BY <3>1, LeastNat, Zenon
  <2>2. PICK k \in wrong : \A l \in wrong : Len(k[2]) <= Len(l[2])
    BY <2>1
  <2>3. \A m \in DOMAIN errs : Above(m, k) => errs[m] = {}
    <3> SUFFICES ASSUME NEW m \in DOMAIN errs, Above(m, k), errs[m] # {}
                 PROVE  FALSE
      OBVIOUS
    <3>1. Len(m[2]) < Len(k[2])
      BY Zenon DEF Above
    <3> QED
      BY <2>2, <3>1
  <2>4. errs[k] \subseteq Reported(errs)
    BY <2>3, Zenon DEF Reported
  <2> QED
    BY <2>4
<1>2. \A k \in DOMAIN errs : errs[k] = {}
  BY <1>1
<1> QED
  BY <1>2 DEF Resolved

LEMMA AcceptedIs ==
  ASSUME NEW yaml, NEW r, NEW p, p = Parse(yaml, r), p.schema # Nil
  PROVE  p.errs = {} /\ p.schema = r.schema /\ r.errs = {} /\ Validate(r.schema) = {}
         /\ yaml \notin {"type", "both", "syntax"}
<1> DEFINE v == Validate(r.schema)
<1>1. /\ yaml \in {"type", "both", "syntax"} => p.errs = {"yaml"}
      /\ yaml \notin {"type", "both", "syntax"} => p.errs = IF r.errs # {} THEN r.errs ELSE v
      /\ p.schema = IF p.errs = {} THEN r.schema ELSE Nil
  BY ParseIs
<1> HIDE DEF v
<1> QED
  BY <1>1 DEF v

(* Subsets of a finite set are well-founded.                               *)
LEMMA LeastSubset ==
  ASSUME NEW S, IsFiniteSet(S), NEW T, T \subseteq SUBSET S, T # {}
  PROVE  \E x \in T : \A y \in T : y \subseteq x => y = x
<1> DEFINE R == StrictSubsetOrdering(S)
           F == FiniteSubsetsOf(S)
<1>1. T \subseteq F
  BY FS_Subset DEF FiniteSubsetsOf
<1>2. IsWellFoundedOn(R, F)
  BY FS_StrictSubsetOrderingWellFounded
<1>3. \A x, y \in SUBSET S : y \subseteq x /\ y # x => <<y, x>> \in R
  BY DEF StrictSubsetOrdering
<1> HIDE DEF R, F
<1>4. PICK x \in T : \A y \in T : ~(<<y, x>> \in R)
  BY <1>1, <1>2, WFMin, Zenon
<1> QED
  BY <1>3, <1>4

(* A document all of whose references are resolved.                        *)
Sound(raw) == RawSchema(raw) /\ Resolve(raw).errs = {}

LEMMA KeyLengths ==
  ASSUME NEW table, NEW top, Trees(table, top), NEW k \in DOMAIN table
  PROVE  /\ Len(k[2]) \in Nat \ {0} /\ DOMAIN k[2] = 1..Len(k[2])
         /\ \A i \in 1..Len(k[2]) : k[2][i] \in {top, "parallel", "fallback"} \X Nat
         /\ \A i \in 1..Len(k[2]) : k[2][i][1] = top <=> i = 1
         /\ k = <<k[1], k[2]>>
<1> DEFINE S == {top, "parallel", "fallback"} \X Nat
           p == k[2]
<1>1. p \in Places(top) /\ k = <<k[1], k[2]>>
  BY Zenon DEF Trees
<1> HIDE DEF p
<1>2. p \in Seq(S) /\ p # <<>> /\ \A i \in DOMAIN p : p[i][1] = top <=> i = 1
  BY <1>1 DEF Places
<1> HIDE DEF S
<1>3. Len(p) \in Nat \ {0} /\ DOMAIN p = 1..Len(p) /\ \A i \in 1..Len(p) : p[i] \in S
  BY <1>2, LenProperties, EmptySeq, ElementOfSeq
<1> QED
  BY <1>1, <1>2, <1>3 DEF p, S

LEMMA TablesSound ==
  ASSUME NEW raw, Sound(raw)
  PROVE  /\ DOMAIN CallsWrong(raw) = DOMAIN raw.calls
         /\ DOMAIN StepsWrong(raw) = DOMAIN raw.steps
         /\ \A k \in DOMAIN raw.calls : CallsWrong(raw)[k] = {}
         /\ \A k \in DOMAIN raw.steps : StepsWrong(raw)[k] = {}
         /\ \A i \in DOMAIN raw.faults : FaultsRead(raw)[i].errs = {}
         /\ Resolved(CallsWrong(raw)) = DOMAIN raw.calls
         /\ Resolved(StepsWrong(raw)) = DOMAIN raw.steps
<1> DEFINE C == CallsWrong(raw)
           T == StepsWrong(raw)
           F == FaultsRead(raw)
<1>1. DOMAIN C = DOMAIN raw.calls
  BY Zenon DEF CallsWrong, callErrors
<1>2. DOMAIN T = DOMAIN raw.steps
  BY Zenon DEF StepsWrong
<1>3. Trees(raw.calls, "call") /\ Trees(raw.steps, "step")
  BY Zenon DEF Sound, RawSchema, RawCalls, RawSteps
<1>4. \A k \in DOMAIN raw.calls : Len(k[2]) \in Nat
  BY <1>3, KeyLengths
<1>5. \A k \in DOMAIN raw.steps : Len(k[2]) \in Nat
  BY <1>3, KeyLengths
<1> HIDE DEF C, T, F
<1>6. Resolve(raw).errs = Reported(C) \union Reported(T) \union UNION {F[i].errs : i \in DOMAIN raw.faults}
  BY ResolveIs, Zenon DEF C, T, F
<1>7. Resolve(raw).errs = {}
  BY Zenon DEF Sound
<1>8. Reported(C) = {} /\ Reported(T) = {} /\ \A i \in DOMAIN raw.faults : F[i].errs = {}
  BY <1>6, <1>7
<1>9. (\A k \in DOMAIN C : C[k] = {}) /\ Resolved(C) = DOMAIN C
  BY <1>1, <1>4, <1>8, NothingReported
<1>10. (\A k \in DOMAIN T : T[k] = {}) /\ Resolved(T) = DOMAIN T
  BY <1>2, <1>5, <1>8, NothingReported
<1> QED
  BY <1>1, <1>2, <1>8, <1>9, <1>10, Zenon DEF C, T, F

LEMMA CallsSound ==
  ASSUME NEW raw, Sound(raw), NEW B, B = buildSchema(raw), NEW k \in DOMAIN raw.calls
  PROVE  /\ raw.calls[k] \in RawCall /\ raw.calls[k] # Nil
         /\ (raw.calls[k].to # Nil) # HasMembers(raw.calls, k)
         /\ raw.calls[k].to # Nil => lookupOperationAtPath(B, raw.calls[k].to) = {}
         /\ ~(/\ IsFallback(k) /\ HasMembers(raw.calls, k)
              /\ \A l \in DOMAIN raw.calls : Above(k, l) => callError(B, raw.calls, l) = {})
         /\ callError(B, raw.calls, k) = {}
<1> DEFINE own == [l \in DOMAIN raw.calls |-> callError(B, raw.calls, l)]
           group(m) == /\ IsFallback(m) /\ HasMembers(raw.calls, m)
                       /\ \A l \in DOMAIN raw.calls : Above(m, l) => own[l] = {}
<1>1. CallsWrong(raw)[k] = IF own[k] = {} /\ group(k) THEN {"fallback is a group"} ELSE own[k]
  BY Zenon DEF CallsWrong, callErrors
<1>2. CallsWrong(raw)[k] = {}
  BY TablesSound, Zenon
<1>3. own[k] = {} /\ ~group(k)
  <2> DEFINE e3 == {"fallback is a group"}
  <2>1. e3 # {}
    OBVIOUS
  <2> HIDE DEF own, group, e3
  <2>2. (IF own[k] = {} /\ group(k) THEN e3 ELSE own[k]) = {}
    BY <1>1, <1>2, Zenon DEF e3
  <2>3. CASE own[k] = {} /\ group(k)
    BY <2>1, <2>2, <2>3, Zenon
  <2>4. CASE ~(own[k] = {} /\ group(k))
    BY <2>2, <2>4, Zenon
  <2> QED
    BY <2>3, <2>4, Zenon
<1>4. callError(B, raw.calls, k) = {}
  BY <1>3
<1>5. ~(/\ IsFallback(k) /\ HasMembers(raw.calls, k)
        /\ \A l \in DOMAIN raw.calls : Above(k, l) => callError(B, raw.calls, l) = {})
  BY <1>3, Zenon
<1>6. raw.calls[k] \in Opt(RawCall)
  BY Zenon DEF Sound, RawSchema, RawCalls
<1> DEFINE e1 == {"call required"}
           e2 == {"to or parallel"}
<1>7. e1 # {} /\ e2 # {}
  OBVIOUS
<1>8. callError(B, raw.calls, k) =
        IF raw.calls[k] = Nil THEN e1
        ELSE IF (raw.calls[k].to # Nil) = HasMembers(raw.calls, k) THEN e2
        ELSE IF raw.calls[k].to = Nil THEN {}
        ELSE lookupOperationAtPath(B, raw.calls[k].to)
  BY Zenon DEF callError
<1> HIDE DEF e1, e2
<1>9. /\ raw.calls[k] # Nil
      /\ (raw.calls[k].to # Nil) # HasMembers(raw.calls, k)
      /\ raw.calls[k].to # Nil => lookupOperationAtPath(B, raw.calls[k].to) = {}
  BY <1>4, <1>7, <1>8, Zenon
<1> QED
  BY <1>4, <1>5, <1>6, <1>9 DEF Opt

LEMMA Found ==
  ASSUME NEW s, NEW p, lookupOperationAtPath(s, p) = {}
  PROVE  p[1] # <<>> /\ p[2] # <<>> /\ p[1] \in DOMAIN s.services /\ p \in Operations(s)
BY DEF lookupOperationAtPath

(* The calls of the schema: those of the last operation of every name.     *)
LEMMA CallsIs ==
  ASSUME NEW raw, Sound(raw), NEW C, C = WithCalls(raw)
  PROVE  /\ \A k \in DOMAIN raw.calls :
              LET p == OwnerOf(raw, k[1])
              IN LastOwner(raw, p) = k[1] =>
                   /\ <<p, k[2]>> \in DOMAIN C.calls
                   /\ C.calls[<<p, k[2]>>] = resolveCallNode(p, raw.calls[k])
         /\ \A at \in DOMAIN C.calls : \E k \in DOMAIN raw.calls :
              /\ at = <<OwnerOf(raw, k[1]), k[2]>>
              /\ LastOwner(raw, at[1]) = k[1]
              /\ k = <<k[1], k[2]>>
              /\ C.calls[at] = resolveCallNode(at[1], raw.calls[k])
<1> DEFINE staying == {k \in DOMAIN raw.calls : k[1] = LastOwner(raw, OwnerOf(raw, k[1]))}
           keys == KeysOf(raw, DOMAIN raw.calls)
<1>1. C.calls = [at \in keys |->
                 resolveCallNode(at[1], raw.calls[<<LastOwner(raw, at[1]), at[2]>>])]
  <2>1. Resolved(CallsWrong(raw)) = DOMAIN raw.calls
    BY TablesSound, Zenon
  <2>2. C.calls = [at \in KeysOf(raw, Resolved(CallsWrong(raw))) |->
                    resolveCallNode(at[1], raw.calls[<<LastOwner(raw, at[1]), at[2]>>])]
    BY WithCallsIs, Zenon
  <2> QED
    BY <2>1, <2>2, Zenon
<1>2. \A k \in DOMAIN raw.calls : k = <<k[1], k[2]>>
  BY KeyLengths DEF Sound, RawSchema, RawCalls
<1>3. DOMAIN C.calls = keys
  BY <1>1
<1>4. \A at \in keys : C.calls[at] = resolveCallNode(at[1], raw.calls[<<LastOwner(raw, at[1]), at[2]>>])
  BY <1>1
<1>5. ASSUME NEW k \in DOMAIN raw.calls, NEW p, p = OwnerOf(raw, k[1]), LastOwner(raw, p) = k[1], NEW at,
             at = <<p, k[2]>>
      PROVE  at \in keys /\ C.calls[at] = resolveCallNode(p, raw.calls[k]) /\ at[1] = p
  <2>1. k \in staying
    BY <1>5
  <2>2. at \in keys
    BY <2>1, <1>5 DEF KeysOf
  <2>3. at[1] = p /\ at[2] = k[2]
    BY <1>5
  <2> HIDE DEF keys
  <2>4. <<LastOwner(raw, at[1]), at[2]>> = k
    BY <1>2, <1>5, <2>3, Zenon
  <2>5. C.calls[at] = resolveCallNode(at[1], raw.calls[<<LastOwner(raw, at[1]), at[2]>>])
    BY <1>4, <2>2, Zenon
  <2> QED
    BY <2>2, <2>3, <2>4, <2>5, Zenon
<1>6. \A k \in DOMAIN raw.calls :
              LET p == OwnerOf(raw, k[1])
              IN LastOwner(raw, p) = k[1] =>
                   /\ <<p, k[2]>> \in DOMAIN C.calls
                   /\ C.calls[<<p, k[2]>>] = resolveCallNode(p, raw.calls[k])
  BY <1>3, <1>5, Zenon
<1>7. ASSUME NEW at \in DOMAIN C.calls
      PROVE  \E k \in DOMAIN raw.calls :
              /\ at = <<OwnerOf(raw, k[1]), k[2]>>
              /\ LastOwner(raw, at[1]) = k[1]
              /\ k = <<k[1], k[2]>>
              /\ C.calls[at] = resolveCallNode(at[1], raw.calls[k])
  <2>1. PICK k \in staying : at = <<OwnerOf(raw, k[1]), k[2]>>
    BY <1>3 DEF KeysOf
  <2>2. k \in DOMAIN raw.calls /\ LastOwner(raw, OwnerOf(raw, k[1])) = k[1]
    BY <2>1
  <2>3. C.calls[at] = resolveCallNode(OwnerOf(raw, k[1]), raw.calls[k]) /\ at[1] = OwnerOf(raw, k[1])
    BY <1>5, <2>1, <2>2, Zenon
  <2> QED
    BY <1>2, <2>1, <2>2, <2>3, Zenon
<1> QED
  BY <1>6, <1>7, Zenon

LEMMA ServicesSame ==
  ASSUME NEW raw
  PROVE  WithCalls(raw).services = buildSchema(raw).services
<1> DEFINE B == buildSchema(raw)
           C == WithCalls(raw)
<1>1. \E calls : C = [B EXCEPT !.calls = calls]
  BY Zenon DEF WithCalls, resolveCalls
<1>2. \E n, s : B = [namespace |-> n, services |-> s, calls |-> <<>>, journeys |-> <<>>,
                    steps |-> <<>>, faults |-> <<>>]
  BY Zenon DEF buildSchema
<1> HIDE DEF B, C
<1>3. C.services = B.services
  BY <1>1, <1>2
<1> QED
  BY <1>3 DEF B, C

LEMMA CallNodeIs ==
  ASSUME NEW owner, NEW rc, NEW e, e = resolveCallNode(owner, rc)
  PROVE  /\ e.to = rc.to
         /\ rc.to # Nil => e.from = owner
<1>1. CASE rc.to = Nil
  <2>1. e = [to |-> Nil]
    BY <1>1, Zenon DEF resolveCallNode
  <2> QED
    BY <1>1, <2>1
<1>2. CASE rc.to # Nil
  <2>1. \E f1, f2, f3, f4, f5, f6, f7, f8 :
          e = [from |-> owner, to |-> rc.to, protocol |-> f1, latency |-> f2, errorRate |-> f3,
               timeout |-> f4, retries |-> f5, backoff |-> f6, baseDelay |-> f7, onFailure |-> f8]
    BY <1>2, Zenon DEF resolveCallNode
  <2> QED
    BY <2>1
<1> QED
  BY <1>1, <1>2

(* Every call leads to an operation that is there.                         *)
LEMMA CallPointers ==
  ASSUME NEW raw, Sound(raw), NEW C, C = WithCalls(raw), NEW at \in DOMAIN C.calls, C.calls[at].to # Nil
  PROVE  /\ C.calls[at].to \in Operations(C) /\ C.calls[at].from = at[1]
<1> DEFINE B == buildSchema(raw)
<1>1. C.services = B.services
  BY ServicesSame, Zenon
<1>2. PICK k \in DOMAIN raw.calls : C.calls[at] = resolveCallNode(at[1], raw.calls[k])
  <2>1. \A a \in DOMAIN C.calls : \E k \in DOMAIN raw.calls :
              C.calls[a] = resolveCallNode(a[1], raw.calls[k])
    BY CallsIs
  <2> QED
    BY <2>1, Zenon
<1>3. C.calls[at].to = raw.calls[k].to /\ C.calls[at].from = at[1]
  <2> DEFINE e == C.calls[at]
             rc == raw.calls[k]
  <2>1. e = resolveCallNode(at[1], rc) /\ e.to # Nil
    BY <1>2
  <2> HIDE DEF e, rc
  <2>2. e.to = rc.to /\ (rc.to # Nil => e.from = at[1])
    BY <2>1, CallNodeIs
  <2> QED
    BY <2>1, <2>2 DEF e, rc
<1>4. lookupOperationAtPath(B, raw.calls[k].to) = {}
  BY <1>3, CallsSound, Zenon
<1>5. raw.calls[k].to \in Operations(B)
  BY <1>4, Found, Zenon
<1>6. Operations(B) = Operations(C)
  BY <1>1, Zenon DEF Operations
<1> QED
  BY <1>3, <1>5, <1>6, Zenon

LEMMA StepPointers ==
  ASSUME NEW raw, Sound(raw), NEW C, C = WithCalls(raw), NEW k \in DOMAIN raw.steps
  PROVE  /\ raw.steps[k] \in RawStep /\ raw.steps[k] # Nil
         /\ LET op == resolveStep(raw.steps, k).op
            IN /\ op # Nil => op \in Operations(C) /\ op = <<raw.steps[k].service, raw.steps[k].operation>>
               /\ op = Nil <=> HasMembers(raw.steps, k)
               /\ HasMembers(raw.steps, k) => raw.steps[k].service = <<>> /\ raw.steps[k].operation = <<>>
<1> DEFINE p == <<raw.steps[k].service, raw.steps[k].operation>>
           e1 == {"step required"}
           e2 == {"service or parallel"}
<1>1. StepsWrong(raw)[k] = stepError(C, raw.steps, k)
  BY Zenon DEF StepsWrong
<1>2. StepsWrong(raw)[k] = {}
  BY TablesSound, Zenon
<1>3. stepError(C, raw.steps, k) = {}
  BY <1>1, <1>2, Zenon
<1>4. stepError(C, raw.steps, k) =
        IF raw.steps[k] = Nil THEN e1
        ELSE IF (p # <<<<>>, <<>>>>) = HasMembers(raw.steps, k) THEN e2
        ELSE IF HasMembers(raw.steps, k) THEN {}
        ELSE lookupOperationAtPath(C, p)
  BY Zenon DEF stepError
<1>5. e1 # {} /\ e2 # {}
  OBVIOUS
<1>6. resolveStep(raw.steps, k).op = IF HasMembers(raw.steps, k) THEN Nil ELSE p
  BY DEF resolveStep
<1>7. raw.steps[k] \in Opt(RawStep)
  BY Zenon DEF Sound, RawSchema, RawSteps
<1> HIDE DEF e1, e2
<1>8. /\ raw.steps[k] # Nil
      /\ (p # <<<<>>, <<>>>>) # HasMembers(raw.steps, k)
      /\ ~HasMembers(raw.steps, k) => lookupOperationAtPath(C, p) = {}
  BY <1>3, <1>4, <1>5, Zenon
<1>9. raw.steps[k] \in RawStep
  BY <1>7, <1>8 DEF Opt
<1>10. p \in Name \X Name
  BY <1>9 DEF RawStep
<1>11. ~HasMembers(raw.steps, k) => p \in Operations(C)
  BY <1>8, Found, Zenon
<1>12. p # Nil
  BY <1>10, NilApart
<1>13. HasMembers(raw.steps, k) => raw.steps[k].service = <<>> /\ raw.steps[k].operation = <<>>
  BY <1>8
<1> QED
  BY <1>6, <1>8, <1>9, <1>11, <1>12, <1>13, Zenon

-----------------------------------------------------------------------------
(***************************************************************************)
(* The order of the edges of an operation, and the first of them.          *)
(***************************************************************************)
Placed(k) == Len(k[2]) \in Nat /\ DOMAIN k[2] = 1..Len(k[2]) /\ \A i \in 1..Len(k[2]) : k[2][i][2] \in Nat

Differ(p, q, i) == i \in DOMAIN p \intersect DOMAIN q /\ p[i][2] < q[i][2] /\ \A j \in 1..(i - 1) : p[j] = q[j]
Under(p, q) == Len(p) < Len(q) /\ \A i \in DOMAIN p : p[i] = q[i]

LEMMA BeforeIs ==
  ASSUME NEW k, NEW l, k[1] = l[1]
  PROVE  Before(k, l) <=> Under(k[2], l[2]) \/ \E i : Differ(k[2], l[2], i)
<1>1. Above(k, l) <=> Under(k[2], l[2])
  BY Zenon DEF Above, Under
<1>2. (\E i : Differ(k[2], l[2], i)) <=>
        \E i \in DOMAIN k[2] \intersect DOMAIN l[2] :
          k[2][i][2] < l[2][i][2] /\ \A j \in 1..(i - 1) : k[2][j] = l[2][j]
  BY Zenon DEF Differ
<1> QED
  BY <1>1, <1>2, Zenon DEF Before

LEMMA BeforeOrder ==
  ASSUME NEW a, NEW b, NEW c, Placed(a), Placed(b), Placed(c), a[1] = b[1], b[1] = c[1]
  PROVE  /\ ~Before(a, a)
         /\ Before(a, b) /\ Before(b, c) => Before(a, c)
<1> DEFINE p == a[2]
           q == b[2]
           r == c[2]
<1>1. /\ Before(a, a) <=> Under(p, p) \/ \E i : Differ(p, p, i)
      /\ Before(a, b) <=> Under(p, q) \/ \E i : Differ(p, q, i)
      /\ Before(b, c) <=> Under(q, r) \/ \E i : Differ(q, r, i)
      /\ Before(a, c) <=> Under(p, r) \/ \E i : Differ(p, r, i)
  BY BeforeIs
<1>2. /\ Len(p) \in Nat /\ DOMAIN p = 1..Len(p) /\ \A i \in 1..Len(p) : p[i][2] \in Nat
      /\ Len(q) \in Nat /\ DOMAIN q = 1..Len(q) /\ \A i \in 1..Len(q) : q[i][2] \in Nat
      /\ Len(r) \in Nat /\ DOMAIN r = 1..Len(r) /\ \A i \in 1..Len(r) : r[i][2] \in Nat
  BY Zenon DEF Placed
<1> HIDE DEF p, q, r
<1>3. ~(Under(p, p) \/ \E i : Differ(p, p, i))
  <2>1. ~Under(p, p)
    BY <1>2 DEF Under
  <2>2. ASSUME NEW i, Differ(p, p, i) PROVE FALSE
    BY <1>2, <2>2 DEF Differ
  <2> QED
    BY <2>1, <2>2
<1>4. ASSUME Under(p, q), Under(q, r) PROVE Under(p, r)
  BY <1>2, <1>4 DEF Under
<1>5. ASSUME Under(p, q), NEW i, Differ(q, r, i) PROVE Under(p, r) \/ Differ(p, r, i)
  <2>1. i \in 1..Len(q) /\ i \in 1..Len(r)
    BY <1>2, <1>5 DEF Differ
  <2>2. CASE i <= Len(p)
    <3>1. i \in 1..Len(p) /\ p[i] = q[i]
      BY <1>2, <1>5, <2>1, <2>2 DEF Under
    <3>2. \A j \in 1..(i - 1) : p[j] = r[j]
      <4> TAKE j \in 1..(i - 1)
      <4>1. j \in 1..Len(p)
        BY <1>2, <2>1, <2>2
      <4> QED
        BY <1>2, <1>5, <4>1 DEF Under, Differ
    <3> QED
      BY <1>2, <1>5, <2>1, <3>1, <3>2 DEF Differ
  <2>3. CASE Len(p) < i
    <3>1. \A j \in 1..Len(p) : p[j] = r[j]
      <4> TAKE j \in 1..Len(p)
      <4>1. j \in 1..(i - 1)
        BY <1>2, <2>1, <2>3
      <4> QED
        BY <1>2, <1>5, <4>1 DEF Under, Differ
    <3> QED
      BY <1>2, <2>1, <2>3, <3>1 DEF Under
  <2> QED
    BY <1>2, <2>1, <2>2, <2>3
<1>6. ASSUME NEW i, Differ(p, q, i), Under(q, r) PROVE Differ(p, r, i)
  <2>1. i \in 1..Len(q) /\ i \in 1..Len(p) /\ i \in 1..Len(r) /\ q[i] = r[i]
    BY <1>2, <1>6 DEF Differ, Under
  <2>2. \A j \in 1..(i - 1) : p[j] = r[j]
    <3> TAKE j \in 1..(i - 1)
    <3>1. j \in 1..Len(q)
      BY <1>2, <2>1
    <3> QED
      BY <1>2, <1>6, <3>1 DEF Under, Differ
  <2> QED
    BY <1>2, <1>6, <2>1, <2>2 DEF Differ
<1>7. ASSUME NEW i, Differ(p, q, i), NEW j, Differ(q, r, j) PROVE Differ(p, r, i) \/ Differ(p, r, j)
  <2>1. i \in 1..Len(q) /\ i \in 1..Len(p) /\ j \in 1..Len(q) /\ j \in 1..Len(r)
    BY <1>2, <1>7 DEF Differ
  <2>2. CASE i < j
    <3>0. i \in 1..(j - 1) /\ i \in 1..Len(r)
      BY <1>2, <2>1, <2>2
    <3>1. q[i] = r[i] /\ i \in 1..Len(r)
      BY <1>7, <3>0 DEF Differ
    <3>2. \A n \in 1..(i - 1) : p[n] = r[n]
      <4> TAKE n \in 1..(i - 1)
      <4>1. n \in 1..(j - 1)
        BY <1>2, <2>1, <2>2
      <4> QED
        BY <1>7, <4>1 DEF Differ
    <3> QED
      BY <1>2, <1>7, <2>1, <3>1, <3>2 DEF Differ
  <2>3. CASE j <= i
    <3>1. j \in 1..Len(p) /\ p[j][2] < r[j][2]
      <4>1. CASE j = i
        BY <1>2, <1>7, <2>1, <4>1 DEF Differ
      <4>2. CASE j < i
        <5>1. p[j] = q[j] /\ j \in 1..Len(p)
          BY <1>2, <1>7, <2>1, <4>2 DEF Differ
        <5> QED
          BY <1>7, <5>1 DEF Differ
      <4> QED
        BY <1>2, <2>1, <2>3, <4>1, <4>2
    <3>2. \A n \in 1..(j - 1) : p[n] = r[n]
      <4> TAKE n \in 1..(j - 1)
      <4>1. n \in 1..(i - 1)
        BY <1>2, <2>1, <2>3
      <4> QED
        BY <1>7, <4>1 DEF Differ
    <3> QED
      BY <1>2, <2>1, <3>1, <3>2 DEF Differ
  <2> QED
    BY <1>2, <2>1, <2>2, <2>3
<1> QED
  BY <1>1, <1>3, <1>4, <1>5, <1>6, <1>7, Zenon

LEMMA FirstIs ==
  ASSUME NEW E, IsFiniteSet(E), E # {}, NEW owner, \A k \in E : k[1] = owner /\ Placed(k)
  PROVE  First(E) \in E
<1> DEFINE down(k) == {l \in E : Before(l, k)}
           T == {down(k) : k \in E}
<1>1. T \subseteq SUBSET E /\ T # {}
  OBVIOUS
<1>2. \E x \in T : \A y \in T : y \subseteq x => y = x
  <2> HIDE DEF T
  <2> QED
    BY <1>1, LeastSubset
<1>3. PICK k \in E : \A l \in E : down(l) \subseteq down(k) => down(l) = down(k)
  <2>1. PICK x \in T : \A y \in T : y \subseteq x => y = x
    BY <1>2, Zenon
  <2>2. PICK k \in E : x = down(k)
    BY <2>1
  <2>3. \A l \in E : down(l) \in T
    OBVIOUS
  <2> HIDE DEF T, down
  <2> QED
    BY <2>1, <2>2, <2>3
<1>4. \A l \in E : ~Before(l, k)
  <2> SUFFICES ASSUME NEW l \in E, Before(l, k) PROVE FALSE
    OBVIOUS
  <2>1. \A m \in E : Before(m, l) => Before(m, k)
    BY BeforeOrder
  <2>2. down(l) \subseteq down(k)
    BY <2>1
  <2>3. l \in down(k) /\ ~Before(l, l)
    BY BeforeOrder
  <2> QED
    BY <1>3, <2>2, <2>3
<1> QED
  BY <1>4, Zenon DEF First

-----------------------------------------------------------------------------
(***************************************************************************)
(* The texts of targets.                                                   *)
(***************************************************************************)
\* c is what is before and after the first sep of t.
IsCut(S, t, sep, c) ==
  /\ c[1] \in Seq(S) /\ c[2] \in Seq(S) /\ c = <<c[1], c[2]>>
  /\ t = (c[1] \o <<sep>>) \o c[2]
  /\ \A n \in 1..Len(c[1]) : c[1][n] # sep

LEMMA CutIs ==
  ASSUME NEW S, NEW t \in Seq(S), NEW sep, sep \in S, NEW c \in Cut(t, sep)
  PROVE  IsCut(S, t, sep, c)
<1>1. PICK i \in DOMAIN t : /\ t[i] = sep /\ \A n \in 1..(i - 1) : t[n] # sep
                            /\ c = <<SubSeq(t, 1, i - 1), SubSeq(t, i + 1, Len(t))>>
  BY Zenon DEF Cut
<1> DEFINE a == SubSeq(t, 1, i - 1)
           b == SubSeq(t, i + 1, Len(t))
<1>2. Len(t) \in Nat /\ i \in 1..Len(t) /\ \A n \in 1..Len(t) : t[n] \in S
  BY <1>1, LenProperties, ElementOfSeq
<1>3. a \in Seq(S) /\ Len(a) = i - 1 /\ \A n \in 1..(i - 1) : a[n] = t[n]
  <2>1. i - 1 \in Int /\ 1 \in Int /\ \A n \in 1..(i - 1) : t[n] \in S
    BY <1>2
  <2>2. /\ a \in Seq(S) /\ Len(a) = (IF 1 <= i - 1 THEN (i - 1) - 1 + 1 ELSE 0)
        /\ \A n \in 1..((i - 1) - 1 + 1) : a[n] = t[1 + n - 1]
    BY <2>1, SubSeqProperties
  <2> HIDE DEF a
  <2> QED
    BY <2>2, <1>2
<1>4. b \in Seq(S) /\ Len(b) = Len(t) - i /\ \A n \in 1..(Len(t) - i) : b[n] = t[i + n]
  <2>1. i + 1 \in Int /\ Len(t) \in Int /\ \A n \in (i + 1)..Len(t) : t[n] \in S
    BY <1>2
  <2>2. /\ b \in Seq(S) /\ Len(b) = (IF i + 1 <= Len(t) THEN Len(t) - (i + 1) + 1 ELSE 0)
        /\ \A n \in 1..(Len(t) - (i + 1) + 1) : b[n] = t[(i + 1) + n - 1]
    BY <2>1, SubSeqProperties
  <2> HIDE DEF b
  <2> QED
    BY <2>2, <1>2
<1> HIDE DEF a, b
<1>5. c[1] = a /\ c[2] = b
  BY <1>1 DEF a, b
<1> DEFINE one == <<sep>>
<1>6. one \in Seq(S) /\ Len(one) = 1 /\ one[1] = sep
  OBVIOUS
<1> HIDE DEF one
<1>7. /\ a \o one \in Seq(S) /\ Len(a \o one) = i
      /\ \A n \in 1..i : (a \o one)[n] = IF n <= i - 1 THEN a[n] ELSE one[n - (i - 1)]
  <2>1. /\ a \o one \in Seq(S) /\ Len(a \o one) = Len(a) + Len(one)
        /\ \A n \in 1..(Len(a) + Len(one)) : (a \o one)[n] = IF n <= Len(a) THEN a[n] ELSE one[n - Len(a)]
    BY <1>3, <1>6, ConcatProperties
  <2> QED
    BY <1>2, <1>3, <1>6, <2>1
<1> DEFINE h == a \o one
           w == h \o b
<1>8. \A n \in 1..i : h[n] = t[n]
  <2> SUFFICES ASSUME NEW n \in 1..i
               PROVE  h[n] = t[n]
    OBVIOUS
  <2>1. h[n] = IF n <= i - 1 THEN a[n] ELSE one[n - (i - 1)]
    BY <1>7
  <2> HIDE DEF h
  <2>2. CASE n <= i - 1
    <3>1. n \in 1..(i - 1)
      BY <1>2, <2>2
    <3> QED
      BY <1>3, <2>1, <2>2, <3>1
  <2>3. CASE n = i
    <3>1. ~(n <= i - 1) /\ n - (i - 1) = 1
      BY <1>2, <2>3
    <3> QED
      BY <1>1, <1>6, <2>1, <2>3, <3>1
  <2> QED
    BY <1>2, <2>2, <2>3
<1>9. h \in Seq(S) /\ Len(h) = i
  BY <1>7
<1> HIDE DEF h
<1>10. /\ w \in Seq(S) /\ Len(w) = Len(t)
       /\ \A n \in 1..Len(t) : w[n] = IF n <= i THEN h[n] ELSE b[n - i]
  <2>1. /\ w \in Seq(S) /\ Len(w) = Len(h) + Len(b)
        /\ \A n \in 1..(Len(h) + Len(b)) : w[n] = IF n <= Len(h) THEN h[n] ELSE b[n - Len(h)]
    BY <1>4, <1>9, ConcatProperties
  <2> HIDE DEF w
  <2>2. Len(h) + Len(b) = Len(t) /\ Len(h) = i
    BY <1>2, <1>4, <1>9
  <2> QED
    BY <2>1, <2>2
<1> HIDE DEF w
<1>11. \A n \in 1..Len(t) : w[n] = t[n]
  <2> TAKE n \in 1..Len(t)
  <2>1. CASE n <= i
    <3>1. n \in 1..i
      BY <1>2, <2>1
    <3> QED
      BY <1>8, <1>10, <2>1, <3>1
  <2>2. CASE ~(n <= i)
    <3>1. n - i \in 1..(Len(t) - i) /\ i + (n - i) = n
      BY <1>2, <2>2
    <3> QED
      BY <1>4, <1>10, <2>2, <3>1
  <2> QED
    BY <2>1, <2>2
<1>12. w = t
  BY <1>10, <1>11, SeqEqual
<1> QED
  BY <1>1, <1>3, <1>4, <1>5, <1>12 DEF w, h, one, IsCut

LEMMA OnlyIs ==
  ASSUME NEW results, NEW error, NEW r, r = Only(results, error), r.errs = {}
  PROVE  r \in results
<1>1. CASE results = {}
  <2>1. r = [val |-> Nil, errs |-> {error}]
    BY <1>1, Zenon DEF Only, Bad
  <2> QED
    BY <2>1
<1>2. CASE results # {}
  <2>1. r = CHOOSE x \in results : TRUE
    BY <1>2, Zenon DEF Only
  <2> QED
    BY <1>2, <2>1, Zenon
<1> QED
  BY <1>1, <1>2

LEMMA Tokens ==
  ASSUME NEW S, NEW a, NEW b, a \in S, b \in S
  PROVE  <<a, b>> = <<a>> \o <<b>>
<1> DEFINE x == <<a>>
           y == <<b>>
           z == <<a, b>>
<1>1. /\ x \in Seq(S) /\ Len(x) = 1 /\ x[1] = a
      /\ y \in Seq(S) /\ Len(y) = 1 /\ y[1] = b
      /\ z \in Seq(S) /\ Len(z) = 2 /\ z[1] = a /\ z[2] = b
  OBVIOUS
<1> HIDE DEF x, y, z
<1>2. /\ x \o y \in Seq(S) /\ Len(x \o y) = Len(x) + Len(y)
      /\ \A i \in 1..(Len(x) + Len(y)) : (x \o y)[i] = IF i <= Len(x) THEN x[i] ELSE y[i - Len(x)]
  BY <1>1, ConcatProperties
<1>3. Len(x \o y) = 2 /\ (x \o y)[1] = a /\ (x \o y)[2] = b
  <2>1. Len(x) + Len(y) = 2 /\ 1 \in 1..2 /\ 2 \in 1..2 /\ 1 <= Len(x) /\ ~(2 <= Len(x)) /\ 2 - Len(x) = 1
    BY <1>1
  <2> QED
    BY <1>1, <1>2, <2>1
<1> DEFINE w == x \o y
<1>4. w \in Seq(S) /\ Len(w) = 2 /\ w[1] = a /\ w[2] = b
  BY <1>2, <1>3
<1> HIDE DEF w
<1>5. \A i \in 1..2 : w[i] = z[i]
  <2>1. \A i \in 1..2 : i = 1 \/ i = 2
    OBVIOUS
  <2> QED
    BY <1>1, <1>4, <2>1
<1>6. w = z
  BY <1>1, <1>4, <1>5, SeqEqual
<1> QED
  BY <1>6 DEF w, x, y, z

LEMMA HalvesIs ==
  ASSUME NEW S, NEW t \in Seq(S), NEW sep, sep \in S, NEW c \in Halves(t, sep)
  PROVE  IsCut(S, t, sep, c)
<1>1. c \in Cut(t, sep)
  BY Zenon DEF Halves
<1> QED
  BY <1>1, CutIs, Zenon

(* The texts of the three kinds of targets, and what they are resolved to. *)
Written(kind, rest) == (<<kind>> \o <<":">>) \o rest
Parted(p) == p[1] \in Name /\ p[2] \in Name /\ p = <<p[1], p[2]>> /\ \A n \in 1..Len(p[1]) : p[1][n] # "."

NodeTarget(C, tokens, t) ==
  \E rest \in DOMAIN C.services :
    rest \in Name /\ tokens = Written("node", rest) /\ t = FaultTarget("node", rest, Nil, Nil)

OperationTarget(C, tokens, t) ==
  \E p \in Operations(C) :
    Parted(p) /\ tokens = Written("operation", identifyOp(p)) /\ t = FaultTarget("operation", Nil, p, Nil)

EdgeTarget(C, tokens, t) ==
  \E p, q \in Operations(C) :
    /\ Parted(p) /\ Parted(q)
    /\ tokens = Written("edge", (identifyOp(p) \o <<"->">>) \o identifyOp(q))
    /\ findEdges(C, p, q) # {}
    /\ t = FaultTarget("edge", Nil, Nil, First(findEdges(C, p, q)))

LEMMA LiteralStrings ==
  \A x \in Literals : x \in Strings
BY DEF Strings

LEMMA Separators ==
  "." \in Strings /\ "->" \in Strings /\ ":" \in Strings
BY DEF Strings, Literals

LEMMA ResultIs ==
  ASSUME NEW v
  PROVE  Good(v).val = v /\ Good(v).errs = {} /\ Bad(v).val = Nil /\ Bad(v).errs = v
BY DEF Good, Bad

LEMMA CutOfName ==
  ASSUME NEW t \in Name, NEW sep, sep \in Strings
  PROVE  /\ \A c \in Cut(t, sep) : IsCut(Strings, t, sep, c)
         /\ \A c \in Halves(t, sep) : IsCut(Strings, t, sep, c)
<1> DEFINE S == Strings
<1>1. t \in Seq(S) /\ sep \in S
  BY DEF Name
<1> HIDE DEF S
<1>2. \A c \in Cut(t, sep) : IsCut(S, t, sep, c)
  BY <1>1, CutIs, Zenon
<1>3. \A c \in Halves(t, sep) : IsCut(S, t, sep, c)
  BY <1>1, HalvesIs, Zenon
<1> QED
  BY <1>2, <1>3, Zenon DEF S

LEMMA NamePair ==
  ASSUME NEW p, p[1] \in Name, p[2] \in Name, p = <<p[1], p[2]>>
  PROVE  p \in Name \X Name /\ p # Nil
<1>1. p \in Name \X Name
  <2> DEFINE S == Name
  <2>1. p[1] \in S /\ p[2] \in S
    OBVIOUS
  <2> HIDE DEF S
  <2>2. \A a, b \in S : <<a, b>> \in S \X S
    OBVIOUS
  <2>3. <<p[1], p[2]>> \in S \X S
    BY <2>1, <2>2, Zenon
  <2> QED
    BY <2>3, Zenon DEF S
<1> QED
  BY <1>1, NilApart, Zenon

LEMMA OperationAtIs ==
  ASSUME NEW C, NEW rest \in Name, NEW op, op = operationAt(C, rest), op.errs = {}
  PROVE  /\ op.val \in Operations(C) /\ Parted(op.val) /\ rest = identifyOp(op.val)
<1>1. op \in {[val |-> p, errs |-> lookupOperationAtPath(C, p)] : p \in Halves(rest, ".")}
  BY OnlyIs, Zenon DEF operationAt
<1>2. PICK p \in Halves(rest, ".") : op = [val |-> p, errs |-> lookupOperationAtPath(C, p)]
  BY <1>1
<1>3. op.val = p /\ lookupOperationAtPath(C, p) = {}
  BY <1>2
<1>4. p \in Operations(C)
  BY <1>3, Found, Zenon
<1>5. IsCut(Strings, rest, ".", p)
  BY Separators, CutOfName, Zenon
<1>6. Parted(p)
  BY <1>5, Zenon DEF IsCut, Parted, Name
<1>7. rest = (p[1] \o <<".">>) \o p[2]
  BY <1>5, Zenon DEF IsCut
<1>8. p # Nil
  BY <1>6, NamePair, Zenon DEF Parted
<1>9. identifyOp(p) = (p[1] \o <<".">>) \o p[2]
  BY <1>8, Zenon DEF identifyOp
<1> QED
  BY <1>3, <1>4, <1>6, <1>7, <1>9, Zenon

LEMMA EdgeAtIs ==
  ASSUME NEW C, NEW rest \in Name, NEW r, r = resolveEdgeTarget(C, rest), r.errs = {}
  PROVE  EdgeTarget(C, Written("edge", rest), r.val)
<1>1. PICK ends \in Halves(rest, "->") :
        r = edgeBetween(C, operationAt(C, ends[1]), operationAt(C, ends[2]))
  <2>1. r \in {edgeBetween(C, operationAt(C, ends[1]), operationAt(C, ends[2])) : ends \in Halves(rest, "->")}
    BY OnlyIs, Zenon DEF resolveEdgeTarget
  <2> QED
    BY <2>1
<1>2. IsCut(Strings, rest, "->", ends)
  BY Separators, CutOfName, Zenon
<1>3. ends[1] \in Name /\ ends[2] \in Name /\ rest = (ends[1] \o <<"->">>) \o ends[2]
  BY <1>2, Zenon DEF IsCut, Name
<1> DEFINE from == operationAt(C, ends[1])
           to == operationAt(C, ends[2])
           edges == findEdges(C, from.val, to.val)
<1>4. r = IF from.errs # {} THEN from
          ELSE IF to.errs # {} THEN to
          ELSE IF edges = {} THEN Bad({"edge not found"})
          ELSE Good(FaultTarget("edge", Nil, Nil, First(edges)))
  BY <1>1, Zenon DEF edgeBetween
<1> HIDE DEF edges
<1>5. from.errs = {} /\ to.errs = {} /\ edges # {} /\ r = Good(FaultTarget("edge", Nil, Nil, First(edges)))
  <2>0. Bad({"edge not found"}).errs # {}
    BY DEF Bad
  <2> HIDE DEF from, to
  <2>1. from.errs = {}
    BY <1>4, Zenon
  <2>2. to.errs = {}
    BY <1>4, <2>1, Zenon
  <2>3. edges # {}
    BY <1>4, <2>0, <2>1, <2>2, Zenon
  <2> QED
    BY <1>4, <2>1, <2>2, <2>3, Zenon
<1>6. r.val = FaultTarget("edge", Nil, Nil, First(edges))
  BY <1>5 DEF Good
<1>7. /\ from.val \in Operations(C) /\ Parted(from.val) /\ ends[1] = identifyOp(from.val)
      /\ to.val \in Operations(C) /\ Parted(to.val) /\ ends[2] = identifyOp(to.val)
  BY <1>3, <1>5, OperationAtIs, Zenon
<1> HIDE DEF from, to
<1>8. rest = (identifyOp(from.val) \o <<"->">>) \o identifyOp(to.val)
  BY <1>3, <1>7, Zenon
<1> QED
  BY <1>5, <1>6, <1>7, <1>8, Zenon DEF EdgeTarget, edges

LEMMA TargetIs ==
  ASSUME NEW C, NEW tokens \in Name, NEW r, r = resolveFaultTarget(C, tokens), r.errs = {}
  PROVE  NodeTarget(C, tokens, r.val) \/ OperationTarget(C, tokens, r.val) \/ EdgeTarget(C, tokens, r.val)
<1> DEFINE cuts == {c \in Cut(tokens, ":") : c[2] # <<>>}
<1>1. PICK c \in cuts : r = resolveTarget(C, c[1], c[2])
  <2>1. r \in {resolveTarget(C, p[1], p[2]) : p \in cuts}
    BY OnlyIs, Zenon DEF resolveFaultTarget
  <2> HIDE DEF cuts
  <2> QED
    BY <2>1
<1>2. IsCut(Strings, tokens, ":", c)
  BY Separators, CutOfName, Zenon
<1> DEFINE kind == c[1]
           rest == c[2]
           op == operationAt(C, rest)
<1>3. rest \in Name /\ tokens = (kind \o <<":">>) \o rest
  BY <1>2, Zenon DEF IsCut, Name
<1>4. CASE kind = <<"node">>
  <2>0. ~(kind = <<"operation">>) /\ ~(kind = <<"edge">>)
    BY <1>4
  <2>1. r = IF rest \in DOMAIN C.services THEN Good(FaultTarget("node", rest, Nil, Nil))
            ELSE Bad({"service not found"})
    BY <1>1, <1>4, <2>0, Zenon DEF resolveTarget
  <2>2. Bad({"service not found"}).errs # {} /\ Good(FaultTarget("node", rest, Nil, Nil)).val = FaultTarget("node", rest, Nil, Nil)
    BY DEF Bad, Good
  <2>3. rest \in DOMAIN C.services /\ r.val = FaultTarget("node", rest, Nil, Nil)
    BY <2>1, <2>2, Zenon
  <2>4. tokens = Written("node", rest)
    BY <1>3, <1>4, Zenon DEF Written
  <2> QED
    BY <1>3, <2>3, <2>4, Zenon DEF NodeTarget
<1>5. CASE kind = <<"operation">>
  <2>0. ~(kind = <<"node">>) /\ ~(kind = <<"edge">>)
    BY <1>5
  <2>1. r = IF op.errs # {} THEN op ELSE Good(FaultTarget("operation", Nil, op.val, Nil))
    BY <1>1, <1>5, <2>0, Zenon DEF resolveTarget
  <2>2. Good(FaultTarget("operation", Nil, op.val, Nil)).val = FaultTarget("operation", Nil, op.val, Nil)
    BY DEF Good
  <2>3. op.errs = {} /\ r.val = FaultTarget("operation", Nil, op.val, Nil)
    BY <2>1, <2>2, Zenon
  <2>4. op.val \in Operations(C) /\ Parted(op.val) /\ rest = identifyOp(op.val)
    BY <1>3, <2>3, OperationAtIs, Zenon
  <2>5. tokens = Written("operation", identifyOp(op.val))
    BY <1>3, <1>5, <2>4, Zenon DEF Written
  <2> HIDE DEF op
  <2> QED
    BY <2>3, <2>4, <2>5, Zenon DEF OperationTarget
<1>6. CASE kind = <<"edge">>
  <2>0. ~(kind = <<"node">>) /\ ~(kind = <<"operation">>)
    BY <1>6
  <2>1. r = resolveEdgeTarget(C, rest)
    BY <1>1, <1>6, <2>0, Zenon DEF resolveTarget
  <2>2. tokens = Written("edge", rest)
    BY <1>3, <1>6, Zenon DEF Written
  <2> QED
    BY <1>3, <2>1, <2>2, EdgeAtIs, Zenon
<1>7. CASE ~(kind = <<"node">>) /\ ~(kind = <<"operation">>) /\ ~(kind = <<"edge">>)
  <2>1. r = Bad({"target kind"})
    BY <1>1, <1>7, Zenon DEF resolveTarget
  <2> DEFINE e == {"target kind"}
  <2>2. e # {}
    OBVIOUS
  <2> HIDE DEF e
  <2>3. r = Bad(e)
    BY <2>1 DEF e
  <2> QED
    BY <2>2, <2>3, ResultIs, Zenon
<1> QED
  BY <1>4, <1>5, <1>6, <1>7, Zenon

LEMMA SchemaIs ==
  ASSUME NEW raw, Sound(raw), NEW C, C = WithCalls(raw), NEW s, s = Resolve(raw).schema
  PROVE  /\ s.namespace = C.namespace /\ s.services = C.services /\ s.calls = C.calls
         /\ s.journeys = JourneysRead(raw)
         /\ s.steps = StepsKept(raw, DOMAIN raw.steps)
         /\ s.faults = FaultsKept(raw, DOMAIN raw.faults)
<1>1. s = [namespace |-> C.namespace, services |-> C.services, calls |-> C.calls,
           journeys |-> JourneysRead(raw), steps |-> StepsKept(raw, Resolved(StepsWrong(raw))),
           faults |-> FaultsKept(raw, FaultsFound(raw))]
  BY ResolveIs, Zenon
<1>2. Resolved(StepsWrong(raw)) = DOMAIN raw.steps
  BY TablesSound, Zenon
<1>3. FaultsFound(raw) = DOMAIN raw.faults
  <2>1. \A i \in DOMAIN raw.faults : FaultsRead(raw)[i].errs = {}
    BY TablesSound, Zenon
  <2> QED
    BY <2>1 DEF FaultsFound
<1> DEFINE j == JourneysRead(raw)
           t == StepsKept(raw, DOMAIN raw.steps)
           f == FaultsKept(raw, DOMAIN raw.faults)
           a == C.namespace
           b == C.services
           c == C.calls
<1>4. s = [namespace |-> a, services |-> b, calls |-> c, journeys |-> j, steps |-> t, faults |-> f]
  BY <1>1, <1>2, <1>3, Zenon
<1> HIDE DEF j, t, f, a, b, c
<1>5. s.namespace = a /\ s.services = b /\ s.calls = c /\ s.journeys = j /\ s.steps = t /\ s.faults = f
  BY <1>4
<1> QED
  BY <1>5, Zenon DEF a, b, c, j, t, f

FaultRead(C, rf, f) ==
  /\ rf \in RawFault
  /\ resolveFaultTarget(C, rf.target).errs = {}
  /\ f = [target |-> resolveFaultTarget(C, rf.target).val, kind |-> Enum(rf.kind, "", FaultKinds),
          severity |-> FaultSeverity(rf.severity), schedule |-> Schedule(rf.schedule)]

LEMMA FaultIs ==
  ASSUME NEW raw, Sound(raw), NEW C, C = WithCalls(raw), NEW i \in DOMAIN raw.faults
  PROVE  FaultRead(C, raw.faults[i], FaultsRead(raw)[i].val)
<1> DEFINE rf == raw.faults[i]
           f == FaultsRead(raw)[i].val
           target == resolveFaultTarget(C, rf.target)
           x == FaultsRead(raw)[i]
           e == {"fault required"}
           g == [target |-> target.val, kind |-> Enum(rf.kind, "", FaultKinds),
                 severity |-> FaultSeverity(rf.severity), schedule |-> Schedule(rf.schedule)]
<1>1. x = resolveFault(C, rf)
  BY Zenon DEF FaultsRead
<1>2. x.errs = {}
  BY TablesSound, Zenon
<1>3. resolveFault(C, rf) = IF rf = Nil THEN Bad(e) ELSE IF target.errs # {} THEN target ELSE Good(g)
  BY Zenon DEF resolveFault
<1>4. e # {}
  OBVIOUS
<1>5. raw.faults \in Seq(Opt(RawFault))
  BY Zenon DEF Sound, RawSchema
<1>6. rf \in Opt(RawFault)
  <2> DEFINE S == Opt(RawFault)
  <2> HIDE DEF S
  <2>1. raw.faults \in Seq(S)
    BY <1>5 DEF S
  <2>2. DOMAIN raw.faults = 1..Len(raw.faults)
    BY <2>1, LenProperties
  <2> QED
    BY <2>1, <2>2, ElementOfSeq DEF S
<1> HIDE DEF target, x, e, g
<1>7. rf # Nil /\ target.errs = {} /\ x = Good(g)
  BY <1>1, <1>2, <1>3, <1>4, ResultIs, Zenon
<1>8. rf \in RawFault
  BY <1>6, <1>7 DEF Opt
<1>9. f = g
  BY <1>7, ResultIs, Zenon DEF x
<1> QED
  BY <1>7, <1>8, <1>9, Zenon DEF target, g, FaultRead

-----------------------------------------------------------------------------
(***************************************************************************)
(* Names, and the keys of calls.                                           *)
(***************************************************************************)
LEMMA OperationNames ==
  ASSUME NEW id, NEW rs, NEW namespace, NEW v, v = BuildService(id, rs, namespace)
  PROVE  DOMAIN v.operations = {Or(rs.operations[i], ZeroOperation).name : i \in DOMAIN rs.operations}
<1> DEFINE ops == [i \in DOMAIN rs.operations |-> Or(rs.operations[i], ZeroOperation)]
           last(n) == LastOf({i \in DOMAIN ops : ops[i].name = n})
           names == {op.name : op \in ToSet(ops)}
           built == [n \in names |-> BuildOperation(id, ops[last(n)])]
<1>1. \E a, b, c, d, e, f : v = [name |-> a, namespace |-> b, kind |-> c, replicas |-> d, rest |-> e,
                                metrics |-> f, operations |-> built]
  BY Zenon DEF BuildService
<1>2. DOMAIN built = names
  OBVIOUS
<1>3. names = {Or(rs.operations[i], ZeroOperation).name : i \in DOMAIN rs.operations}
  BY DEF ToSet
<1> HIDE DEF built, names
<1>4. v.operations = built
  BY <1>1
<1> QED
  BY <1>2, <1>3, <1>4, Zenon

LEMMA OperationTyped ==
  ASSUME NEW ro, ro \in Opt(RawOperation)
  PROVE  Or(ro, ZeroOperation).name \in Name
<1>1. CASE ro = Nil
  <2>1. Or(ro, ZeroOperation) = ZeroOperation
    BY <1>1, Zenon DEF Or
  <2>2. ZeroOperation.name = <<>>
    BY DEF ZeroOperation
  <2>3. <<>> \in Name
    BY DEF Name
  <2> QED
    BY <2>1, <2>2, <2>3
<1>2. CASE ro # Nil
  <2>1. Or(ro, ZeroOperation) = ro
    BY <1>2, Zenon DEF Or
  <2>2. ro \in RawOperation
    BY <1>2 DEF Opt
  <2>3. ro.name \in Name
    <3> DEFINE N == Name
               A == SUBSET Opt(RawLogEvent)
               B == SUBSET Opt(RawMetric)
               D == SUBSET Opt(RawStateUpdate)
               E == Opt(RawProfile)
    <3>1. ro \in [name : N, logEvents : A, metrics : B, stateUpdates : D, profile : E]
      BY <2>2 DEF RawOperation
    <3> HIDE DEF N, A, B, D, E
    <3>2. ro.name \in N
      BY <3>1
    <3> QED
      BY <3>2 DEF N
  <2> QED
    BY <2>1, <2>3
<1> QED
  BY <1>1, <1>2

LEMMA ServiceTyped ==
  ASSUME NEW raw, RawSchema(raw), NEW id \in DOMAIN raw.services, NEW rs, rs = Or(raw.services[id], ZeroService)
  PROVE  rs.operations \in Seq(Opt(RawOperation))
<1> DEFINE x == raw.services[id]
<1>1. x \in Opt(RawService)
  BY Zenon DEF RawSchema
<1>2. CASE x = Nil
  <2>1. rs = ZeroService
    BY <1>2, Zenon DEF Or
  <2>2. ZeroService.operations = <<>>
    BY DEF ZeroService
  <2>3. <<>> \in Seq(Opt(RawOperation))
    <3> DEFINE S == Opt(RawOperation)
    <3> HIDE DEF S
    <3>1. <<>> \in Seq(S)
      OBVIOUS
    <3> QED
      BY <3>1 DEF S
  <2> QED
    BY <2>1, <2>2, <2>3, Zenon
<1>3. CASE x # Nil
  <2>1. rs = x
    BY <1>3, Zenon DEF Or
  <2> HIDE DEF x
  <2>2. x \in RawService
    BY <1>1, <1>3 DEF Opt
  <2>3. x.operations \in Seq(Opt(RawOperation))
    <3> DEFINE N == Strings
               A == Opt(Int)
               D == SUBSET Opt(RawMetric)
               E == Seq(Opt(RawOperation))
    <3>1. x \in [namespace : N, kind : N, replicas : A, rest : Rest, metrics : D, operations : E]
      BY <2>2, Zenon DEF RawService
    <3> HIDE DEF N, A, D, E
    <3>2. x.operations \in E
      BY <3>1
    <3> QED
      BY <3>2 DEF E
  <2> QED
    BY <2>1, <2>3
<1> QED
  BY <1>2, <1>3

LEMMA NamesTyped ==
  ASSUME NEW raw, RawSchema(raw), NEW C, C = WithCalls(raw)
  PROVE  /\ DOMAIN C.services = DOMAIN raw.services
         /\ \A id \in DOMAIN C.services : id \in Name
         /\ \A p \in Operations(C) : p[1] \in DOMAIN C.services /\ p[1] \in Name /\ p[2] \in Name /\ p = <<p[1], p[2]>>
<1> DEFINE B == buildSchema(raw)
<1>1. C.services = B.services
  BY ServicesSame, Zenon
<1>2. /\ DOMAIN B.services = DOMAIN raw.services
      /\ \A id \in DOMAIN raw.services :
              B.services[id] = BuildService(id, Or(raw.services[id], ZeroService), B.namespace)
  BY BuildIs, Zenon
<1> HIDE DEF B
<1>3. \A id \in DOMAIN raw.services : id \in Name
  BY Zenon DEF RawSchema
<1>4. ASSUME NEW id \in DOMAIN raw.services, NEW n \in DOMAIN C.services[id].operations
      PROVE  n \in Name
  <2> DEFINE rs == Or(raw.services[id], ZeroService)
             v == C.services[id]
  <2>1. v = BuildService(id, rs, B.namespace)
    BY <1>1, <1>2, <1>4
  <2>2. rs.operations \in Seq(Opt(RawOperation))
    BY <1>4, ServiceTyped, Zenon
  <2> HIDE DEF rs, v
  <2>3. DOMAIN v.operations = {Or(rs.operations[i], ZeroOperation).name : i \in DOMAIN rs.operations}
    BY <2>1, OperationNames
  <2>4. PICK i \in DOMAIN rs.operations : n = Or(rs.operations[i], ZeroOperation).name
    BY <1>4, <2>3 DEF v
  <2>5. rs.operations[i] \in Opt(RawOperation)
    <3> DEFINE S == Opt(RawOperation)
    <3> HIDE DEF S
    <3>1. rs.operations \in Seq(S)
      BY <2>2 DEF S
    <3>2. DOMAIN rs.operations = 1..Len(rs.operations)
      BY <3>1, LenProperties
    <3> QED
      BY <2>4, <3>1, <3>2, ElementOfSeq DEF S
  <2> QED
    BY <2>4, <2>5, OperationTyped, Zenon
<1>5. ASSUME NEW p \in Operations(C)
      PROVE  p[1] \in DOMAIN C.services /\ p[1] \in Name /\ p[2] \in Name /\ p = <<p[1], p[2]>>
  <2>1. PICK id \in DOMAIN C.services : p \in {id} \X DOMAIN C.services[id].operations
    BY <1>5 DEF Operations
  <2>2. p[1] = id /\ p[2] \in DOMAIN C.services[id].operations /\ p = <<p[1], p[2]>>
    BY <2>1
  <2> QED
    BY <1>1, <1>2, <1>3, <1>4, <2>1, <2>2, Zenon
<1> QED
  BY <1>1, <1>2, <1>3, <1>5, Zenon

LEMMA CallKeys ==
  ASSUME NEW raw, Sound(raw), NEW C, C = WithCalls(raw)
  PROVE  /\ IsFiniteSet(DOMAIN C.calls)
         /\ \A at \in DOMAIN C.calls : at = <<at[1], at[2]>> /\ Placed(at)
<1>0. Trees(raw.calls, "call")
  BY Zenon DEF Sound, RawSchema, RawCalls
<1>1. ASSUME NEW at \in DOMAIN C.calls
      PROVE  \E k \in DOMAIN raw.calls : at = <<OwnerOf(raw, k[1]), k[2]>>
  <2>1. \A a \in DOMAIN C.calls : \E k \in DOMAIN raw.calls : a = <<OwnerOf(raw, k[1]), k[2]>>
    BY CallsIs
  <2> QED
    BY <1>1, <2>1
<1>2. IsFiniteSet(DOMAIN C.calls)
  <2> DEFINE S == DOMAIN raw.calls
             f == [k \in S |-> <<OwnerOf(raw, k[1]), k[2]>>]
             T == {f[k] : k \in S}
  <2>1. IsFiniteSet(S)
    BY <1>0, Zenon DEF Trees
  <2>2. f \in [S -> T] /\ \A t \in T : \E k \in S : f[k] = t
    OBVIOUS
  <2>0. \A k \in S : f[k] = <<OwnerOf(raw, k[1]), k[2]>>
    OBVIOUS
  <2> HIDE DEF f
  <2>3. \A at \in DOMAIN C.calls : at \in T
    <3>1. \A at \in DOMAIN C.calls : \E k \in S : at = f[k]
      BY <1>1, <2>0
    <3> QED
      BY <3>1
  <2> HIDE DEF S, T
  <2>4. f \in Surjection(S, T)
    BY <2>2, Fun_IsSurj
  <2>5. IsFiniteSet(T)
    BY <2>1, <2>4, FS_Surjection
  <2> QED
    BY <2>3, <2>5, FS_Subset
<1>3. ASSUME NEW at \in DOMAIN C.calls
      PROVE  at = <<at[1], at[2]>> /\ Placed(at)
  <2>1. PICK k \in DOMAIN raw.calls : at = <<OwnerOf(raw, k[1]), k[2]>>
    BY <1>1, <1>3
  <2>2. /\ Len(k[2]) \in Nat /\ DOMAIN k[2] = 1..Len(k[2])
        /\ \A i \in 1..Len(k[2]) : k[2][i] \in {"call", "parallel", "fallback"} \X Nat
    BY <1>0, KeyLengths
  <2>3. \A i \in 1..Len(k[2]) : k[2][i][2] \in Nat
    BY <2>2
  <2>4. at[2] = k[2] /\ at = <<at[1], at[2]>>
    BY <2>1
  <2> QED
    BY <2>2, <2>3, <2>4 DEF Placed
<1> QED
  BY <1>2, <1>3

LEMMA EdgesFirst ==
  ASSUME NEW raw, Sound(raw), NEW C, C = WithCalls(raw), NEW p, NEW q, findEdges(C, p, q) # {}
  PROVE  First(findEdges(C, p, q)) \in findEdges(C, p, q)
<1> DEFINE E == findEdges(C, p, q)
<1>1. E \subseteq DOMAIN C.calls /\ \A k \in E : k[1] = p
  BY DEF findEdges, OutgoingEdges, AllEdges
<1>2. IsFiniteSet(DOMAIN C.calls) /\ \A at \in DOMAIN C.calls : Placed(at)
  BY CallKeys, Zenon
<1> HIDE DEF E
<1>3. IsFiniteSet(E)
  BY <1>1, <1>2, FS_Subset
<1>4. First(E) \in E
  <2>1. E # {}
    BY DEF E
  <2>2. \A k \in E : k[1] = p /\ Placed(k)
    BY <1>1, <1>2
  <2> QED
    BY <1>3, <2>1, <2>2, FirstIs
<1> QED
  BY <1>4 DEF E

-----------------------------------------------------------------------------
(***************************************************************************)
(* What a target is written as.                                            *)
(***************************************************************************)
LEMMA CancelLeft ==
  ASSUME NEW S, NEW h \in Seq(S), NEW a \in Seq(S), NEW b \in Seq(S), h \o a = h \o b
  PROVE  a = b
BY ConcatSimplifications, Zenon

LEMMA WrittenIs ==
  ASSUME NEW kind, kind \in Strings, NEW rest \in Name
  PROVE  /\ Written(kind, rest) = <<kind, ":">> \o rest
         /\ Written(kind, rest)[1] = kind
         /\ \A other \in Name : Written(kind, other) = Written(kind, rest) => other = rest
<1> DEFINE S == Strings
           h == <<kind, ":">>
<1>1. kind \in S /\ ":" \in S /\ rest \in Seq(S) /\ Name = Seq(S)
  BY Separators DEF Name
<1> HIDE DEF S
<1>2. h = <<kind>> \o <<":">>
  BY <1>1, Tokens, Zenon
<1>3. \A x : Written(kind, x) = h \o x
  BY <1>2, Zenon DEF Written
<1>4. h \in Seq(S) /\ Len(h) = 2 /\ h[1] = kind
  BY <1>1
<1>5. \A other \in Seq(S) : h \o other = h \o rest => other = rest
  <2> HIDE DEF h
  <2> QED
    BY <1>1, <1>4, CancelLeft, Zenon
<1>6. (h \o rest)[1] = kind
  <2> HIDE DEF h
  <2>1. /\ Len(rest) \in Nat
        /\ \A i \in 1..(Len(h) + Len(rest)) : (h \o rest)[i] = IF i <= Len(h) THEN h[i] ELSE rest[i - Len(h)]
    BY <1>1, <1>4, ConcatProperties, LenProperties
  <2>2. 1 \in 1..(Len(h) + Len(rest)) /\ 1 <= Len(h)
    BY <1>4, <2>1
  <2> QED
    BY <1>4, <2>1, <2>2
<1>7. \A other \in Name : Written(kind, other) = Written(kind, rest) => other = rest
  BY <1>1, <1>3, <1>5, Zenon
<1> QED
  BY <1>3, <1>6, <1>7, Zenon

\* Where the first separator is, if none is in the first part.
LEMMA Separated ==
  ASSUME NEW S, NEW sep \in S, NEW a \in Seq(S), NEW b \in Seq(S),
         NEW v, v = (a \o <<sep>>) \o b
  PROVE  /\ v \in Seq(S) /\ Len(a) \in Nat
         /\ \A i \in 1..Len(a) : v[i] = a[i]
         /\ v[Len(a) + 1] = sep
<1> DEFINE one == <<sep>>
           h == a \o one
<1>1. one \in Seq(S) /\ Len(one) = 1 /\ one[1] = sep
  OBVIOUS
<1>2. Len(a) \in Nat /\ Len(b) \in Nat
  BY LenProperties
<1> HIDE DEF one
<1>3. /\ h \in Seq(S) /\ Len(h) = Len(a) + Len(one)
      /\ \A i \in 1..(Len(a) + Len(one)) : h[i] = IF i <= Len(a) THEN a[i] ELSE one[i - Len(a)]
  BY <1>1, ConcatProperties
<1> HIDE DEF h
<1>4. Len(h) = Len(a) + 1 /\ (\A i \in 1..Len(a) : h[i] = a[i]) /\ h[Len(a) + 1] = sep
  <2>1. Len(a) + Len(one) = Len(a) + 1
    BY <1>1
  <2>2. \A i \in 1..Len(a) : i \in 1..(Len(a) + 1) /\ i <= Len(a)
    BY <1>2
  <2>3. Len(a) + 1 \in 1..(Len(a) + 1) /\ ~(Len(a) + 1 <= Len(a)) /\ (Len(a) + 1) - Len(a) = 1
    BY <1>2
  <2> QED
    BY <1>1, <1>3, <2>1, <2>2, <2>3
<1>a. h \in Seq(S)
  BY <1>3
<1> DEFINE w == h \o b
<1>5. /\ w \in Seq(S) /\ Len(w) = Len(h) + Len(b)
      /\ \A i \in 1..(Len(h) + Len(b)) : w[i] = IF i <= Len(h) THEN h[i] ELSE b[i - Len(h)]
  BY <1>a, ConcatProperties, Zenon
<1> HIDE DEF w
<1>6. \A i \in 1..(Len(a) + 1) : i \in 1..(Len(h) + Len(b)) /\ i <= Len(h)
  BY <1>2, <1>4
<1>7. \A i \in 1..(Len(a) + 1) : w[i] = h[i]
  BY <1>5, <1>6
<1>8. /\ \A i \in 1..Len(a) : i \in 1..(Len(a) + 1)
      /\ Len(a) + 1 \in 1..(Len(a) + 1)
  BY <1>2
<1>9. (\A i \in 1..Len(a) : w[i] = a[i]) /\ w[Len(a) + 1] = sep
  BY <1>4, <1>7, <1>8
<1>10. v = w
  BY Zenon DEF w, h, one
<1> QED
  BY <1>2, <1>5, <1>9, <1>10

LEMMA SeparatedOnce ==
  ASSUME NEW S, NEW sep \in S, NEW a \in Seq(S), NEW b \in Seq(S), NEW c \in Seq(S), NEW d \in Seq(S),
         \A n \in 1..Len(a) : a[n] # sep, \A n \in 1..Len(c) : c[n] # sep,
         (a \o <<sep>>) \o b = (c \o <<sep>>) \o d
  PROVE  a = c /\ b = d
<1> DEFINE v == (a \o <<sep>>) \o b
           w == (c \o <<sep>>) \o d
<1>2. v = w
  OBVIOUS
<1>0. v = (a \o <<sep>>) \o b /\ w = (c \o <<sep>>) \o d
  OBVIOUS
<1> HIDE DEF v, w
<1>1. /\ Len(a) \in Nat /\ (\A i \in 1..Len(a) : v[i] = a[i]) /\ v[Len(a) + 1] = sep
      /\ Len(c) \in Nat /\ (\A i \in 1..Len(c) : w[i] = c[i]) /\ w[Len(c) + 1] = sep
  <2>1. Len(a) \in Nat /\ (\A i \in 1..Len(a) : v[i] = a[i]) /\ v[Len(a) + 1] = sep
    BY <1>0, Separated
  <2>2. Len(c) \in Nat /\ (\A i \in 1..Len(c) : w[i] = c[i]) /\ w[Len(c) + 1] = sep
    BY <1>0, Separated
  <2> QED
    BY <2>1, <2>2
<1>3. ~(Len(a) < Len(c))
  <2> SUFFICES ASSUME Len(a) < Len(c) PROVE FALSE
    OBVIOUS
  <2>1. Len(a) + 1 \in 1..Len(c)
    BY <1>1
  <2> QED
    BY <1>1, <1>2, <2>1
<1>4. ~(Len(c) < Len(a))
  <2> SUFFICES ASSUME Len(c) < Len(a) PROVE FALSE
    OBVIOUS
  <2>1. Len(c) + 1 \in 1..Len(a)
    BY <1>1
  <2> QED
    BY <1>1, <1>2, <2>1
<1>5. Len(a) = Len(c)
  BY <1>1, <1>3, <1>4
<1>6. \A i \in 1..Len(a) : a[i] = c[i]
  BY <1>1, <1>2, <1>5
<1>7. a = c
  BY <1>5, <1>6, SeqEqual
<1>8. b = d
  <2> DEFINE h == a \o <<sep>>
  <2>0. <<sep>> \in Seq(S)
    OBVIOUS
  <2>1. h \in Seq(S)
    BY <2>0, ConcatProperties, Zenon
  <2>2. h \o b = h \o d
    BY <1>7
  <2> HIDE DEF h
  <2> QED
    BY <2>1, <2>2, CancelLeft, Zenon
<1> QED
  BY <1>7, <1>8

LEMMA IdentityIs ==
  ASSUME NEW p, p[1] \in Name, p[2] \in Name, p = <<p[1], p[2]>>
  PROVE  identifyOp(p) = (p[1] \o <<".">>) \o p[2] /\ identifyOp(p) \in Name
<1>1. p # Nil
  BY NamePair, Zenon
<1>2. identifyOp(p) = (p[1] \o <<".">>) \o p[2]
  BY <1>1, Zenon DEF identifyOp
<1> DEFINE S == Strings
<1>3. p[1] \in Seq(S) /\ p[2] \in Seq(S) /\ "." \in S /\ Name = Seq(S)
  BY Separators DEF Name
<1> HIDE DEF S
<1>4. (p[1] \o <<".">>) \o p[2] \in Seq(S)
  <2> DEFINE one == <<".">>
  <2>1. one \in Seq(S)
    BY <1>3
  <2> HIDE DEF one
  <2>2. p[1] \o one \in Seq(S)
    BY <1>3, <2>1, ConcatProperties, Zenon
  <2> DEFINE h == p[1] \o one
  <2> HIDE DEF h
  <2>3. h \in Seq(S)
    BY <2>2 DEF h
  <2>4. h \o p[2] \in Seq(S)
    BY <1>3, <2>3, ConcatProperties, Zenon
  <2> QED
    BY <2>4 DEF h, one
<1> QED
  BY <1>2, <1>3, <1>4, Zenon

LEMMA IdentityOnce ==
  ASSUME NEW p, NEW q, Parted(p), Parted(q), identifyOp(p) = identifyOp(q)
  PROVE  p = q
<1> DEFINE S == Strings
<1>1. /\ p[1] \in Seq(S) /\ p[2] \in Seq(S) /\ q[1] \in Seq(S) /\ q[2] \in Seq(S) /\ "." \in S
      /\ p = <<p[1], p[2]>> /\ q = <<q[1], q[2]>>
      /\ \A n \in 1..Len(p[1]) : p[1][n] # "."
      /\ \A n \in 1..Len(q[1]) : q[1][n] # "."
  BY Separators DEF Name, Parted
<1> HIDE DEF S
<1>2. identifyOp(p) = (p[1] \o <<".">>) \o p[2] /\ identifyOp(q) = (q[1] \o <<".">>) \o q[2]
  BY IdentityIs, Zenon DEF Parted
<1>3. p[1] = q[1] /\ p[2] = q[2]
  <2>1. (p[1] \o <<".">>) \o p[2] = (q[1] \o <<".">>) \o q[2]
    BY <1>2
  <2> DEFINE a == p[1]
             b == p[2]
             c == q[1]
             d == q[2]
             sep == "."
  <2>2. /\ a \in Seq(S) /\ b \in Seq(S) /\ c \in Seq(S) /\ d \in Seq(S) /\ sep \in S
        /\ (\A n \in 1..Len(a) : a[n] # sep) /\ (\A n \in 1..Len(c) : c[n] # sep)
        /\ (a \o <<sep>>) \o b = (c \o <<sep>>) \o d
    BY <1>1, <2>1
  <2> HIDE DEF a, b, c, d, sep
  <2>3. a = c /\ b = d
    BY <2>2, SeparatedOnce, Zenon
  <2> QED
    BY <2>3 DEF a, b, c, d
<1> QED
  BY <1>1, <1>3, Zenon

LEMMA FaultTargetIs ==
  ASSUME NEW k, NEW a, NEW b, NEW c
  PROVE  LET t == FaultTarget(k, a, b, c) IN t.kind = k /\ t.service = a /\ t.operation = b /\ t.edge = c
BY DEF FaultTarget

LEMMA Kinds == "node" # "operation" /\ "node" # "edge" /\ "operation" # "edge"
OBVIOUS

LEMMA KindStrings == "node" \in Strings /\ "operation" \in Strings /\ "edge" \in Strings
BY DEF Strings, Literals

IsWritten(kind, rest) ==
  /\ Written(kind, rest) = <<kind, ":">> \o rest
  /\ Written(kind, rest)[1] = kind
  /\ \A other \in Name : Written(kind, other) = Written(kind, rest) => other = rest

LEMMA WrittenSo ==
  ASSUME NEW kind, kind \in Strings, NEW rest \in Name
  PROVE  IsWritten(kind, rest)
BY WrittenIs, Zenon DEF IsWritten

LEMMA TargetsWritten ==
  ASSUME NEW rest \in Name
  PROVE  IsWritten("node", rest) /\ IsWritten("operation", rest) /\ IsWritten("edge", rest)
BY WrittenSo, KindStrings, Zenon

(* A target is written as the text it was resolved from.                   *)
LEMMA TargetWritten ==
  ASSUME NEW raw, Sound(raw), NEW C, C = WithCalls(raw), NEW s, s.calls = C.calls, NEW tokens \in Name, NEW t,
         NodeTarget(C, tokens, t) \/ OperationTarget(C, tokens, t) \/ EdgeTarget(C, tokens, t)
  PROVE  /\ marshalFaultTarget(s, t) = tokens
         /\ \/ t.kind = "node" /\ t.service \in Name /\ tokens = Written("node", t.service)
            \/ t.kind = "operation" /\ Parted(t.operation) /\ tokens = Written("operation", identifyOp(t.operation))
            \/ /\ t.kind = "edge" /\ edgeIdentity(s.calls[t.edge]) \in Name
               /\ tokens = Written("edge", edgeIdentity(s.calls[t.edge]))
<1>1. CASE NodeTarget(C, tokens, t)
  <2>1. PICK rest \in DOMAIN C.services :
          rest \in Name /\ tokens = Written("node", rest) /\ t = FaultTarget("node", rest, Nil, Nil)
    BY <1>1, Zenon DEF NodeTarget
  <2>2. t.kind = "node" /\ t.service = rest
    BY <2>1, FaultTargetIs
  <2>3. marshalFaultTarget(s, t) = <<"node", ":">> \o t.service
    <3>1. ~(t.kind = "operation") /\ ~(t.kind = "edge")
      BY <2>2, Kinds, Zenon
    <3> QED
      BY <2>2, <3>1, Zenon DEF marshalFaultTarget
  <2> QED
    <3>1. IsWritten("node", rest)
      BY <2>1, TargetsWritten, Zenon
    <3> QED
      BY <2>1, <2>2, <2>3, <3>1, Zenon DEF IsWritten
<1>2. CASE OperationTarget(C, tokens, t)
  <2>1. PICK p \in Operations(C) :
          Parted(p) /\ tokens = Written("operation", identifyOp(p)) /\ t = FaultTarget("operation", Nil, p, Nil)
    BY <1>2, Zenon DEF OperationTarget
  <2>2. t.kind = "operation" /\ t.operation = p
    BY <2>1, FaultTargetIs
  <2>3. marshalFaultTarget(s, t) = <<"operation", ":">> \o identifyOp(t.operation)
    <3>1. ~(t.kind = "node") /\ ~(t.kind = "edge")
      BY <2>2, Kinds, Zenon
    <3> QED
      BY <2>2, <3>1, Zenon DEF marshalFaultTarget
  <2>4. identifyOp(p) \in Name
    BY <2>1, IdentityIs, Zenon DEF Parted
  <2> QED
    <3>1. IsWritten("operation", identifyOp(p))
      BY <2>4, TargetsWritten, Zenon
    <3> QED
      BY <2>1, <2>2, <2>3, <3>1, Zenon DEF IsWritten
<1>3. CASE EdgeTarget(C, tokens, t)
  <2>1. PICK p \in Operations(C), q \in Operations(C) :
          /\ Parted(p) /\ Parted(q)
          /\ tokens = Written("edge", (identifyOp(p) \o <<"->">>) \o identifyOp(q))
          /\ findEdges(C, p, q) # {}
          /\ t = FaultTarget("edge", Nil, Nil, First(findEdges(C, p, q)))
    BY <1>3, Zenon DEF EdgeTarget
  <2>2. t.kind = "edge" /\ t.edge = First(findEdges(C, p, q))
    BY <2>1, FaultTargetIs
  <2>3. t.edge \in findEdges(C, p, q)
    BY <2>1, <2>2, EdgesFirst, Zenon
  <2>4. C.calls[t.edge].from = p /\ C.calls[t.edge].to = q
    BY <2>3 DEF findEdges
  <2>5. edgeIdentity(s.calls[t.edge]) = (identifyOp(p) \o <<"->">>) \o identifyOp(q)
    BY <2>4, Zenon DEF edgeIdentity
  <2>6. edgeIdentity(s.calls[t.edge]) \in Name
    <3> DEFINE S == Strings
    <3>1. identifyOp(p) \in Name /\ identifyOp(q) \in Name
      BY <2>1, IdentityIs, Zenon DEF Parted
    <3>2. identifyOp(p) \in Seq(S) /\ identifyOp(q) \in Seq(S) /\ "->" \in S /\ Name = Seq(S)
      BY <3>1, Separators DEF Name
    <3> HIDE DEF S
    <3>3. edgeIdentity(s.calls[t.edge]) \in Seq(S)
      BY <2>5, <3>2, Separated
    <3> QED
      BY <3>2, <3>3
  <2>7. marshalFaultTarget(s, t) = <<"edge", ":">> \o edgeIdentity(s.calls[t.edge])
    <3>1. ~(t.kind = "node") /\ ~(t.kind = "operation")
      BY <2>2, Kinds, Zenon
    <3> QED
      BY <2>2, <3>1, Zenon DEF marshalFaultTarget
  <2>8. tokens = Written("edge", edgeIdentity(s.calls[t.edge]))
    BY <2>1, <2>5, Zenon
  <2> QED
    <3>1. IsWritten("edge", edgeIdentity(s.calls[t.edge]))
      BY <2>6, TargetsWritten, Zenon
    <3> QED
      BY <2>2, <2>6, <2>7, <2>8, <3>1, Zenon DEF IsWritten
<1> QED
  BY <1>1, <1>2, <1>3, Zenon

HandedOut(s, i, t, pointer) ==
  /\ i \in FaultsOf(s, "node", pointer) <=> t.kind = "node" /\ pointer = t.service
  /\ i \in FaultsOf(s, "operation", pointer) <=> t.kind = "operation" /\ pointer = t.operation
  /\ i \in FaultsOf(s, "edge", pointer) <=> t.kind = "edge" /\ pointer = t.edge

LEMMA FaultsOfIs ==
  ASSUME NEW s, NEW i \in DOMAIN s.faults, NEW pointer
  PROVE  HandedOut(s, i, s.faults[i].target, pointer)
<1> DEFINE t == s.faults[i].target
           of(kind) == CASE kind = "node"      -> t.service
                         [] kind = "operation" -> t.operation
                         [] kind = "edge"      -> t.edge
<1>1. \A kind : i \in FaultsOf(s, kind, pointer) <=> t.kind = kind /\ pointer = of(kind)
  BY Zenon DEF FaultsOf
<1>2. of("node") = t.service
  BY Kinds, Zenon
<1>3. of("operation") = t.operation
  BY Kinds, Zenon
<1>4. of("edge") = t.edge
  BY Kinds, Zenon
<1> HIDE DEF of
<1> QED
  BY <1>1, <1>2, <1>3, <1>4, Zenon DEF HandedOut

LEMMA ApplyIs ==
  ASSUME NEW s, NEW o, o = ApplyFaults(s)
  PROVE  /\ DOMAIN o.nodeFaults = DOMAIN s.services
         /\ \A id \in DOMAIN s.services : o.nodeFaults[id] = FaultsOf(s, "node", id)
         /\ DOMAIN o.operationFaults = Operations(s)
         /\ \A p \in Operations(s) : o.operationFaults[p] = FaultsOf(s, "operation", p)
         /\ DOMAIN o.edgeFaults = AllEdges(s)
         /\ \A at \in AllEdges(s) : o.edgeFaults[at] = FaultsOf(s, "edge", at)
<1> DEFINE a == [id \in DOMAIN s.services |-> FaultsOf(s, "node", id)]
           b == [p \in Operations(s) |-> FaultsOf(s, "operation", p)]
           c == [at \in AllEdges(s) |-> FaultsOf(s, "edge", at)]
<1>1. o = [nodeFaults |-> a, operationFaults |-> b, edgeFaults |-> c]
  BY Zenon DEF ApplyFaults
<1> HIDE DEF a, b, c
<1>2. o.nodeFaults = a /\ o.operationFaults = b /\ o.edgeFaults = c
  BY <1>1
<1> QED
  BY <1>2, Zenon DEF a, b, c

(* What NothingDropped, TargetsReadBack and PointersClosed say, of a sound *)
(* document.                                                               *)
ReadsBack(s, overlay, i, target) ==
  /\ marshalFaultTarget(s, s.faults[i].target) = target
  /\ \A id \in DOMAIN overlay.nodeFaults : i \in overlay.nodeFaults[id] <=> target = <<"node", ":">> \o id
  /\ \A p \in DOMAIN overlay.operationFaults :
       LET named == target = <<"operation", ":">> \o identifyOp(p)
       IN /\ i \in overlay.operationFaults[p] => named
          /\ named /\ ~Contains(p[1], ".") => i \in overlay.operationFaults[p]
  /\ \A at \in DOMAIN overlay.edgeFaults :
       i \in overlay.edgeFaults[at] => target = <<"edge", ":">> \o edgeIdentity(s.calls[at])

LEMMA SoundFaults ==
  ASSUME NEW raw, Sound(raw), NEW s, s = Resolve(raw).schema, NEW overlay, overlay = ApplyFaults(s),
         NEW i \in DOMAIN s.faults
  PROVE  ReadsBack(s, overlay, i, raw.faults[i].target)
<1> DEFINE target == raw.faults[i].target
           C == WithCalls(raw)
           t == s.faults[i].target
           f == FaultsRead(raw)[i].val
           rf == raw.faults[i]
<1>1. s.services = C.services /\ s.calls = C.calls /\ s.faults = FaultsKept(raw, DOMAIN raw.faults)
  BY SchemaIs
<1>2. i \in DOMAIN raw.faults /\ s.faults[i] = f
  BY <1>1 DEF FaultsKept
<1>3. FaultRead(C, rf, f)
  <2> HIDE DEF C
  <2>1. C = WithCalls(raw)
    BY DEF C
  <2> QED
    BY <1>2, <2>1, FaultIs, Zenon
<1>4. target \in Name
  <2> DEFINE A == Strings
             D == Opt(RawSeverity)
             E == Seq(Opt(RawPoint))
             N == Name
  <2>1. rf \in [target : N, kind : A, severity : D, schedule : E]
    BY <1>3, Zenon DEF FaultRead, RawFault
  <2> HIDE DEF A, D, E, N, rf
  <2>2. rf.target \in N
    BY <2>1
  <2> QED
    BY <2>2 DEF N, rf
<1>5. t = resolveFaultTarget(C, target).val
  <2> DEFINE x == resolveFaultTarget(C, rf.target).val
             k == Enum(rf.kind, "", FaultKinds)
             v == FaultSeverity(rf.severity)
             c == Schedule(rf.schedule)
  <2>1. f = [target |-> x, kind |-> k, severity |-> v, schedule |-> c]
    BY <1>3, Zenon DEF FaultRead
  <2> HIDE DEF x, k, v, c, f
  <2>2. f.target = x
    BY <2>1
  <2> QED
    BY <1>2, <2>2 DEF x
<1>6. NodeTarget(C, target, t) \/ OperationTarget(C, target, t) \/ EdgeTarget(C, target, t)
  BY <1>3, <1>4, <1>5, TargetIs, Zenon DEF FaultRead
<1> HIDE DEF C, t, f, rf
<1>c. C = WithCalls(raw)
  BY DEF C
<1>7. /\ marshalFaultTarget(s, t) = target
      /\ \/ t.kind = "node" /\ t.service \in Name /\ target = Written("node", t.service)
         \/ t.kind = "operation" /\ Parted(t.operation) /\ target = Written("operation", identifyOp(t.operation))
         \/ /\ t.kind = "edge" /\ edgeIdentity(s.calls[t.edge]) \in Name
            /\ target = Written("edge", edgeIdentity(s.calls[t.edge]))
  BY <1>c, <1>1, <1>4, <1>6, TargetWritten
<1>8. /\ t.kind = "node" => target[1] = "node"
      /\ t.kind = "operation" => target[1] = "operation"
      /\ t.kind = "edge" => target[1] = "edge"
      /\ t.kind \in {"node", "operation", "edge"}
  <2>1. ASSUME t.kind = "node" PROVE target[1] = "node"
    <3>1. t.service \in Name /\ target = Written("node", t.service)
      BY <1>7, <2>1, Kinds, Zenon
    <3>2. IsWritten("node", t.service)
      BY <3>1, TargetsWritten, Zenon
    <3> QED
      BY <3>1, <3>2, Zenon DEF IsWritten
  <2>2. ASSUME t.kind = "operation" PROVE target[1] = "operation"
    <3>1. Parted(t.operation) /\ target = Written("operation", identifyOp(t.operation))
      BY <1>7, <2>2, Kinds, Zenon
    <3>2. identifyOp(t.operation) \in Name
      BY <3>1, IdentityIs, Zenon DEF Parted
    <3>3. IsWritten("operation", identifyOp(t.operation))
      BY <3>2, TargetsWritten, Zenon
    <3> QED
      BY <3>1, <3>3, Zenon DEF IsWritten
  <2>3. ASSUME t.kind = "edge" PROVE target[1] = "edge"
    <3>1. edgeIdentity(s.calls[t.edge]) \in Name /\ target = Written("edge", edgeIdentity(s.calls[t.edge]))
      BY <1>7, <2>3, Kinds, Zenon
    <3>2. IsWritten("edge", edgeIdentity(s.calls[t.edge]))
      BY <3>1, TargetsWritten, Zenon
    <3> QED
      BY <3>1, <3>2, Zenon DEF IsWritten
  <2> QED
    BY <1>7, <2>1, <2>2, <2>3, Zenon
<1>9. ASSUME NEW id \in DOMAIN overlay.nodeFaults
      PROVE  i \in overlay.nodeFaults[id] <=> target = <<"node", ":">> \o id
  <2>1. id \in Name
    BY <1>c, <1>1, <1>9, ApplyIs, NamesTyped DEF Sound
  <2>2. i \in overlay.nodeFaults[id] <=> t.kind = "node" /\ id = t.service
    <3>1. overlay.nodeFaults[id] = FaultsOf(s, "node", id)
      <4>1. DOMAIN overlay.nodeFaults = DOMAIN s.services
        BY ApplyIs
      <4>2. \A x \in DOMAIN s.services : overlay.nodeFaults[x] = FaultsOf(s, "node", x)
        BY ApplyIs
      <4> QED
        BY <1>9, <4>1, <4>2, Zenon
    <3>2. HandedOut(s, i, t, id)
      BY FaultsOfIs, Zenon DEF t
    <3> QED
      BY <3>1, <3>2, Zenon DEF HandedOut
  <2>w. IsWritten("node", id)
    BY <2>1, TargetsWritten, Zenon
  <2>3. Written("node", id) = <<"node", ":">> \o id /\ Written("node", id)[1] = "node"
    BY <2>w, Zenon DEF IsWritten
  <2>4. ASSUME t.kind = "node", id = t.service PROVE target = Written("node", id)
    BY <1>7, <2>4, Kinds, Zenon
  <2>5. ASSUME target = Written("node", id) PROVE t.kind = "node" /\ id = t.service
    <3>1. t.kind = "node"
      BY <1>8, <2>3, <2>5, Kinds
    <3>2. t.service \in Name /\ target = Written("node", t.service)
      BY <1>7, <3>1, Kinds, Zenon
    <3> QED
      BY <2>w, <2>5, <3>1, <3>2, Zenon DEF IsWritten
  <2> QED
    BY <2>2, <2>3, <2>4, <2>5, Zenon
<1>10. ASSUME NEW p \in DOMAIN overlay.operationFaults
       PROVE  /\ i \in overlay.operationFaults[p] => target = <<"operation", ":">> \o identifyOp(p)
              /\ target = <<"operation", ":">> \o identifyOp(p) /\ ~Contains(p[1], ".")
                   => i \in overlay.operationFaults[p]
  <2>0. p \in Operations(s) /\ Operations(s) = Operations(C)
    BY <1>1, <1>10, ApplyIs DEF Operations
  <2>1. p[1] \in Name /\ p[2] \in Name /\ p = <<p[1], p[2]>>
    BY <1>c, <2>0, NamesTyped, Zenon DEF Sound
  <2>2. i \in overlay.operationFaults[p] <=> t.kind = "operation" /\ p = t.operation
    <3>1. overlay.operationFaults[p] = FaultsOf(s, "operation", p)
      BY <2>0, ApplyIs
    <3>2. HandedOut(s, i, t, p)
      BY FaultsOfIs, Zenon DEF t
    <3> QED
      BY <3>1, <3>2, Zenon DEF HandedOut
  <2>a. identifyOp(p) \in Name
    BY <2>1, IdentityIs, Zenon
  <2>w. IsWritten("operation", identifyOp(p))
    BY <2>a, TargetsWritten, Zenon
  <2>3. /\ Written("operation", identifyOp(p)) = <<"operation", ":">> \o identifyOp(p)
        /\ Written("operation", identifyOp(p))[1] = "operation"
    BY <2>w, Zenon DEF IsWritten
  <2>4. ASSUME t.kind = "operation", p = t.operation PROVE target = Written("operation", identifyOp(p))
    BY <1>7, <2>4, Kinds, Zenon
  <2>5. ASSUME target = Written("operation", identifyOp(p)), ~Contains(p[1], ".")
        PROVE t.kind = "operation" /\ p = t.operation
    <3>1. t.kind = "operation"
      BY <1>8, <2>3, <2>5, Kinds
    <3>2. Parted(t.operation) /\ target = Written("operation", identifyOp(t.operation))
      BY <1>7, <3>1, Kinds, Zenon
    <3>3. identifyOp(t.operation) \in Name
      BY <3>2, IdentityIs, Zenon DEF Parted
    <3>4. identifyOp(t.operation) = identifyOp(p)
      BY <2>5, <2>w, <3>2, <3>3, Zenon DEF IsWritten
    <3>5. Parted(p)
      BY <2>1, <2>5, Zenon DEF Parted, Contains
    <3>6. p = t.operation
      BY <3>2, <3>4, <3>5, IdentityOnce, Zenon
    <3> QED
      BY <3>1, <3>6
  <2> QED
    BY <2>2, <2>3, <2>4, <2>5, Zenon
<1>11. ASSUME NEW at \in DOMAIN overlay.edgeFaults, i \in overlay.edgeFaults[at]
       PROVE  target = <<"edge", ":">> \o edgeIdentity(s.calls[at])
  <2>1. t.kind = "edge" /\ at = t.edge
    <3>1. overlay.edgeFaults[at] = FaultsOf(s, "edge", at)
      BY <1>11, ApplyIs
    <3>2. HandedOut(s, i, t, at)
      BY FaultsOfIs, Zenon DEF t
    <3> QED
      BY <1>11, <3>1, <3>2, Zenon DEF HandedOut
  <2>2. edgeIdentity(s.calls[at]) \in Name /\ target = Written("edge", edgeIdentity(s.calls[at]))
    BY <1>7, <2>1, Kinds, Zenon
  <2> QED
    <3>1. IsWritten("edge", edgeIdentity(s.calls[at]))
      BY <2>2, TargetsWritten, Zenon
    <3> QED
      BY <2>2, <3>1, Zenon DEF IsWritten
<1> QED
  BY <1>7, <1>9, <1>10, <1>11, Zenon DEF t, ReadsBack

LEMMA LastIs ==
  ASSUME NEW n \in Nat, NEW T, T \subseteq 1..n, T # {}
  PROVE  LastOf(T) \in T /\ \A j \in T : j <= LastOf(T)
<1> DEFINE U == {u \in Nat : \E i \in T : u = n - i}
<1>1. U \subseteq Nat /\ U # {}
  <2>1. \A i \in T : i \in 1..n
    OBVIOUS
  <2>2. PICK i \in T : TRUE
    OBVIOUS
  <2>3. n - i \in Nat
    BY <2>1
  <2>4. n - i \in U
    BY <2>3
  <2> QED
    BY <2>4
<1>2. PICK u \in U : \A v \in U : u <= v
  BY <1>1, LeastNat
<1>3. PICK i \in T : u = n - i
  OBVIOUS
<1>4. ASSUME NEW j \in T PROVE j <= i
  <2>1. i \in 1..n /\ j \in 1..n
    OBVIOUS
  <2>2. n - j \in U
    BY <2>1
  <2>3. n - i <= n - j
    BY <1>2, <1>3, <2>2
  <2> HIDE DEF U
  <2> QED
    BY <2>1, <2>3
<1> HIDE DEF U
<1>5. i \in T /\ \A j \in T : j <= i
  BY <1>4
<1> QED
  BY <1>5, Zenon DEF LastOf

LEMMA LaterOnes ==
  ASSUME NEW m \in Nat, NEW T, T \subseteq 1..m, NEW n \in T
  PROVE  (\E i \in T : i > n) <=> LastOf(T) # n
<1>1. LastOf(T) \in T /\ \A j \in T : j <= LastOf(T)
  BY LastIs
<1>2. \A j \in T : j \in Nat
  OBVIOUS
<1>3. ASSUME NEW i \in T, i > n PROVE LastOf(T) # n
  <2>1. i <= LastOf(T) /\ i \in Nat /\ LastOf(T) \in Nat /\ n \in Nat
    BY <1>1, <1>2
  <2> QED
    BY <1>3, <2>1
<1>4. ASSUME LastOf(T) # n PROVE LastOf(T) > n
  <2>1. n <= LastOf(T) /\ LastOf(T) \in Nat /\ n \in Nat
    BY <1>1, <1>2
  <2> QED
    BY <1>4, <2>1
<1> QED
  BY <1>1, <1>3, <1>4

(* The calls that stay are those of the operations no later one hides.     *)
LEMMA ShadowedIs ==
  ASSUME NEW raw, RawSchema(raw), NEW k \in DOMAIN raw.calls
  PROVE  k \notin Shadowed(raw) <=> LastOwner(raw, OwnerOf(raw, k[1])) = k[1]
<1> DEFINE ops == raw.services[k[1][1]].operations
           n == k[1][2]
           T == {i \in DOMAIN ops : ops[i] # Nil /\ ops[i].name = ops[n].name}
<1>1. /\ k[1] = <<k[1][1], n>> /\ k[1][1] \in DOMAIN raw.services /\ raw.services[k[1][1]] # Nil
      /\ n \in DOMAIN ops /\ ops[n] # Nil
  BY Zenon DEF RawSchema, RawCalls
<1>2. ops \in Seq(Opt(RawOperation))
  <2>1. raw.services[k[1][1]] \in RawService
    BY <1>1 DEF RawSchema, Opt
  <2> QED
    BY <2>1 DEF RawService
<1>3. LastOwner(raw, OwnerOf(raw, k[1])) = <<k[1][1], LastOf(T)>>
  <2> DEFINE p == OwnerOf(raw, k[1])
  <2>1. p[1] = k[1][1] /\ p[2] = ops[n].name
    BY DEF OwnerOf
  <2> HIDE DEF p
  <2> QED
    BY <2>1, Zenon DEF LastOwner, p
<1>4. k \in Shadowed(raw) <=> \E i \in T : i > n
  BY Zenon DEF Shadowed
<1> HIDE DEF ops
<1>5. Len(ops) \in Nat /\ DOMAIN ops = 1..Len(ops)
  BY <1>2
<1>6. n \in T /\ T \subseteq 1..Len(ops)
  BY <1>1, <1>5
<1> HIDE DEF T
<1>7. (\E i \in T : i > n) <=> LastOf(T) # n
  <2> HIDE DEF n
  <2> QED
    BY <1>5, <1>6, LaterOnes
<1>8. LastOf(T) = n <=> <<k[1][1], LastOf(T)>> = k[1]
  BY <1>1
<1> QED
  BY <1>3, <1>4, <1>7, <1>8

LEMMA AcceptedSound ==
  ASSUME Answers, Accepted
  PROVE  /\ Sound(doc.raw) /\ loaded.schema = Resolve(doc.raw).schema
         /\ Validate(Resolve(doc.raw).schema) = {}
<1>1. loaded = Parse(doc.yaml, Resolve(doc.raw)) /\ loaded.schema # Nil /\ doc \in Docs
  BY Zenon DEF Answers, Accepted
<1>2. Resolve(doc.raw).errs = {} /\ loaded.schema = Resolve(doc.raw).schema /\ Validate(Resolve(doc.raw).schema) = {}
  BY <1>1, AcceptedIs
<1> QED
  BY <1>1, <1>2, DocsDecoded, Zenon DEF Sound

(* For every document Parse accepts, no call but those of an operation that*)
(* is hidden by a later one of its name, no step and no fault is lost by   *)
(* the resolver, each fault is on the object its target names and          *)
(* ApplyFaults hands it out for that object only, and every pointer leads  *)
(* to a registered operation.                                              *)
THEOREM SchemaWholeCorrect == Spec => []SchemaWhole
<1>1. Answers => SchemaWhole
  <2> SUFFICES ASSUME Answers, Accepted
               PROVE  SchemaWhole
    BY Zenon DEF SchemaWhole, NothingDropped, TargetsReadBack, PointersClosed
  <2> DEFINE s == loaded.schema
             raw == doc.raw
             C == WithCalls(raw)
  <2>1. Sound(raw) /\ s = Resolve(raw).schema
    BY AcceptedSound, Zenon
  <2>2. /\ s.services = C.services /\ s.calls = C.calls
        /\ s.steps = StepsKept(raw, DOMAIN raw.steps)
        /\ s.faults = FaultsKept(raw, DOMAIN raw.faults)
    BY <2>1, SchemaIs
  <2>3. Operations(s) = Operations(C)
    BY <2>2, Zenon DEF Operations
  <2> HIDE DEF C
  <2>c. C = WithCalls(raw)
    BY DEF C
  <2>4. NothingDropped
    <3> DEFINE kept == DOMAIN raw.calls \ Shadowed(raw)
               InSchema(k) == <<OwnerOf(raw, k[1]), k[2]>>
    <3>0. \A k \in DOMAIN raw.calls : k \in kept <=> LastOwner(raw, OwnerOf(raw, k[1])) = k[1]
      BY <2>1, ShadowedIs DEF Sound
    <3>1. ASSUME NEW k \in kept
          PROVE  InSchema(k) \in DOMAIN s.calls /\ s.calls[InSchema(k)].to = raw.calls[k].to
      <4> DEFINE p == OwnerOf(raw, k[1])
                 at == <<p, k[2]>>
      <4> HIDE DEF InSchema
      <4>0. k \in DOMAIN raw.calls /\ LastOwner(raw, p) = k[1]
        BY <3>0
      <4> HIDE DEF kept
      <4>1. at \in DOMAIN C.calls /\ C.calls[at] = resolveCallNode(p, raw.calls[k])
        BY <2>c, <2>1, <4>0, CallsIs, Zenon
      <4> HIDE DEF p, at
      <4>2. C.calls[at].to = raw.calls[k].to
        BY <4>1, CallNodeIs
      <4> QED
        BY <2>2, <4>1, <4>2, Zenon DEF p, at, InSchema
    <3>2. ASSUME NEW at \in DOMAIN s.calls
          PROVE  \E k \in kept : at = InSchema(k)
      <4>0. at \in DOMAIN C.calls
        BY <2>2
      <4>1. PICK k \in DOMAIN raw.calls : at = <<OwnerOf(raw, k[1]), k[2]>> /\ LastOwner(raw, at[1]) = k[1]
        <5> HIDE DEF raw, kept, InSchema
        <5>1. \A a \in DOMAIN C.calls : \E k \in DOMAIN raw.calls :
                /\ a = <<OwnerOf(raw, k[1]), k[2]>>
                /\ LastOwner(raw, a[1]) = k[1]
                /\ k = <<k[1], k[2]>>
                /\ C.calls[a] = resolveCallNode(a[1], raw.calls[k])
          BY <2>c, <2>1, CallsIs
        <5> QED
          BY <4>0, <5>1, Zenon
      <4>2. at[1] = OwnerOf(raw, k[1])
        BY <4>1
      <4>3. k \in kept
        BY <3>0, <4>1, <4>2
      <4> QED
        BY <4>1, <4>3
    <3> HIDE DEF kept
    <3>3. DOMAIN s.calls = {InSchema(k) : k \in kept}
      BY <3>1, <3>2
    <3>4. DOMAIN s.steps = DOMAIN raw.steps
      BY <2>2, Zenon DEF StepsKept
    <3>5. DOMAIN s.faults = DOMAIN raw.faults
      BY <2>2, Zenon DEF FaultsKept
    <3> QED
      BY <3>1, <3>3, <3>4, <3>5, Zenon DEF NothingDropped, kept
  <2>5. TargetsReadBack
    <3> DEFINE o == ApplyFaults(s)
    <3>1. \A i \in DOMAIN s.faults : ReadsBack(s, o, i, raw.faults[i].target)
      <4> HIDE DEF s, raw, o
      <4>1. o = ApplyFaults(s)
        BY DEF o
      <4> QED
        BY <2>1, <4>1, SoundFaults, Zenon
    <3> QED
      BY <3>1, Zenon DEF TargetsReadBack, ReadsBack
  <2>6. PointersClosed
    <3>1. ASSUME NEW at \in DOMAIN s.calls, s.calls[at].to # Nil
          PROVE  s.calls[at].to \in Operations(s) /\ s.calls[at].from = at[1]
      <4>1. C.calls[at].to \in Operations(C) /\ C.calls[at].from = at[1]
        BY <2>c, <2>1, <2>2, <3>1, CallPointers, Zenon
      <4> QED
        BY <2>2, <2>3, <4>1, Zenon
    <3>2. ASSUME NEW k \in DOMAIN s.steps, s.steps[k].op # Nil
          PROVE  s.steps[k].op \in Operations(s)
      <4>1. k \in DOMAIN raw.steps /\ s.steps[k] = resolveStep(raw.steps, k)
        BY <2>2 DEF StepsKept
      <4>2. s.steps[k].op \in Operations(C)
        BY <2>c, <2>1, <3>2, <4>1, StepPointers
      <4> QED
        BY <2>3, <4>2, Zenon
    <3> QED
      BY <3>1, <3>2, Zenon DEF PointersClosed
  <2> QED
    BY <2>4, <2>5, <2>6, Zenon DEF SchemaWhole
<1> QED
  BY <1>1, AnswersAlways, PTL

-----------------------------------------------------------------------------
(***************************************************************************)
(* Graphs: nodes N and arcs, pairs of nodes.                               *)
(***************************************************************************)
ReachOf(N, arcs, from) ==
  {p \in N : \A S \in SUBSET N : from \subseteq S /\ (\A a \in arcs : a[1] \in S => a[2] \in S) => p \in S}

Arrows(N, arcs) == \A a \in arcs : a[1] \in N /\ a[2] \in N

\* The nodes that arcs from T lead to.
Targets(arcs, T) == {a[2] : a \in {x \in arcs : x[1] \in T}}

\* A node can reach itself.
Loops(N, arcs) == \E a \in arcs : a[1] \in ReachOf(N, arcs, {a[2]})

LEMMA ReachStart ==
  ASSUME NEW N, NEW arcs, NEW p \in N
  PROVE  p \in ReachOf(N, arcs, {p})
BY DEF ReachOf

LEMMA ReachStep ==
  ASSUME NEW N, NEW arcs, Arrows(N, arcs), NEW from, NEW a \in arcs, a[1] \in ReachOf(N, arcs, from)
  PROVE  a[2] \in ReachOf(N, arcs, from)
BY DEF ReachOf, Arrows

LEMMA ReachLeast ==
  ASSUME NEW N, NEW arcs, NEW from, NEW S, S \subseteq N, from \subseteq S,
         \A a \in arcs : a[1] \in S => a[2] \in S
  PROVE  ReachOf(N, arcs, from) \subseteq S
BY DEF ReachOf

LEMMA ReachNodes ==
  ASSUME NEW N, NEW arcs, NEW from
  PROVE  ReachOf(N, arcs, from) \subseteq N
BY DEF ReachOf

LEMMA ReachChain ==
  ASSUME NEW N, NEW arcs, Arrows(N, arcs), NEW from, NEW p \in ReachOf(N, arcs, from)
  PROVE  ReachOf(N, arcs, {p}) \subseteq ReachOf(N, arcs, from)
<1> DEFINE S == ReachOf(N, arcs, from)
<1>1. S \subseteq N
  BY ReachNodes, Zenon
<1>2. \A a \in arcs : a[1] \in S => a[2] \in S
  BY ReachStep, Zenon
<1>3. {p} \subseteq S
  OBVIOUS
<1> HIDE DEF S
<1>4. ReachOf(N, arcs, {p}) \subseteq S
  BY <1>1, <1>2, <1>3, ReachLeast, Zenon
<1> QED
  BY <1>4 DEF S

(* A set of nodes that are all called from within it holds a cycle, and    *)
(* the nodes of a cycle are such a set.                                    *)
LEMMA CalledWithin ==
  ASSUME NEW N, IsFiniteSet(N), NEW arcs, Arrows(N, arcs),
         NEW T, T \subseteq N, T # {}, T \subseteq Targets(arcs, T)
  PROVE  Loops(N, arcs)
<1> DEFINE Over(p) == {q \in T : p \in ReachOf(N, arcs, {q})}
           W == {Over(p) : p \in T}
<1>0. \A p : Over(p) \in SUBSET N
  OBVIOUS
<1> HIDE DEF Over
<1>1. W \subseteq SUBSET N /\ W # {}
  BY <1>0
<1>2. PICK x \in W : \A y \in W : y \subseteq x => y = x
  <2> HIDE DEF W
  <2> QED
    BY <1>1, LeastSubset
<1>3. PICK p \in T : x = Over(p)
  BY <1>2
<1>4. PICK a \in arcs : a[1] \in T /\ a[2] = p
  BY <1>3 DEF Targets
<1>5. Over(a[1]) \subseteq Over(p)
  <2> SUFFICES ASSUME NEW q \in T, a[1] \in ReachOf(N, arcs, {q})
               PROVE  p \in ReachOf(N, arcs, {q})
    BY DEF Over
  <2> QED
    BY <1>4, ReachStep, Zenon
<1>6. Over(a[1]) = Over(p)
  <2>1. Over(a[1]) \in W
    BY <1>4
  <2> QED
    BY <1>2, <1>3, <1>5, <2>1, Zenon
<1>7. p \in Over(p)
  BY <1>3, ReachStart DEF Over
<1>8. a[1] \in ReachOf(N, arcs, {a[2]})
  BY <1>4, <1>6, <1>7 DEF Over
<1> QED
  BY <1>8, Zenon DEF Loops

LEMMA LoopCalls ==
  ASSUME NEW N, NEW arcs, Arrows(N, arcs), Loops(N, arcs)
  PROVE  \E T \in SUBSET N : T # {} /\ T \subseteq Targets(arcs, T)
<1>1. PICK a \in arcs : a[1] \in ReachOf(N, arcs, {a[2]})
  BY Zenon DEF Loops
<1> DEFINE T == ReachOf(N, arcs, {a[2]})
           S == T \intersect Targets(arcs, T)
<1>2. T \subseteq N
  BY ReachNodes, Zenon
<1>3. a[2] \in T
  BY <1>1, ReachStart DEF Arrows
<1>4. a[2] \in S
  BY <1>1, <1>3 DEF Targets
<1>5. \A b \in arcs : b[1] \in T => b[2] \in T
  BY ReachStep, Zenon
<1>6. \A b \in arcs : b[1] \in S => b[2] \in S
  BY <1>5 DEF Targets
<1>7. T \subseteq S
  <2>1. S \subseteq N /\ {a[2]} \subseteq S
    BY <1>2, <1>4
  <2> HIDE DEF S
  <2> QED
    BY <1>6, <2>1, ReachLeast, Zenon
<1> QED
  BY <1>2, <1>3, <1>7

(* More arcs reach no less.                                                *)
LEMMA ReachMore ==
  ASSUME NEW N, NEW arcs, NEW more, arcs \subseteq more, NEW from
  PROVE  ReachOf(N, arcs, from) \subseteq ReachOf(N, more, from)
BY DEF ReachOf

-----------------------------------------------------------------------------
(***************************************************************************)
(* validateDAG: what is left is the largest set of operations that are all *)
(* called from within it.                                                  *)
(***************************************************************************)
Kept(s, left) == UNION {T \in SUBSET left : T \subseteq Called(s, T)}

Visiting(s, visit) ==
  visit = [left \in SUBSET Operations(s) |->
            IF left \intersect Called(s, left) = left THEN left ELSE visit[left \intersect Called(s, left)]]

LEMMA CalledMore ==
  ASSUME NEW s, NEW T, NEW left, T \subseteq left
  PROVE  Called(s, T) \subseteq Called(s, left)
BY DEF Called

LEMMA KeptIs ==
  ASSUME NEW s, NEW left
  PROVE  Kept(s, left) = IF left \intersect Called(s, left) = left THEN left
                         ELSE Kept(s, left \intersect Called(s, left))
<1> DEFINE some == left \intersect Called(s, left)
           of(l) == {T \in SUBSET l : T \subseteq Called(s, T)}
<1>1. CASE some = left
  <2>1. left \in of(left)
    BY <1>1
  <2>2. Kept(s, left) = left
    BY <2>1 DEF Kept
  <2> QED
    BY <1>1, <2>2, Zenon
<1>2. CASE some # left
  <2>1. of(left) = of(some)
    <3>1. ASSUME NEW T, T \subseteq left, T \subseteq Called(s, T) PROVE T \subseteq some
      BY <3>1, CalledMore
    <3>2. some \subseteq left
      OBVIOUS
    <3> HIDE DEF some
    <3> QED
      BY <3>1, <3>2
  <2>2. Kept(s, left) = UNION of(left) /\ Kept(s, some) = UNION of(some)
    BY Zenon DEF Kept
  <2> HIDE DEF of
  <2>3. Kept(s, left) = Kept(s, some)
    BY <2>1, <2>2
  <2> QED
    BY <1>2, <2>3, Zenon
<1> QED
  BY <1>1, <1>2, Zenon

LEMMA VisitingUnique ==
  ASSUME NEW s, IsFiniteSet(Operations(s)), NEW visit, Visiting(s, visit), NEW left \in SUBSET Operations(s)
  PROVE  visit[left] = Kept(s, left)
<1> DEFINE N == Operations(s)
           W == {l \in SUBSET N : visit[l] # Kept(s, l)}
<1>0. ASSUME NEW l \in SUBSET N
      PROVE  visit[l] = IF l \intersect Called(s, l) = l THEN l ELSE visit[l \intersect Called(s, l)]
  BY <1>0, Zenon DEF Visiting
<1>1. SUFFICES ASSUME W # {} PROVE FALSE
  OBVIOUS
<1>2. PICK x \in W : \A y \in W : y \subseteq x => y = x
  <2>1. W \subseteq SUBSET N
    OBVIOUS
  <2> HIDE DEF W
  <2> QED
    BY <1>1, <2>1, LeastSubset
<1> DEFINE some == x \intersect Called(s, x)
<1>3. x \in SUBSET N /\ visit[x] # Kept(s, x)
  BY <1>2
<1>4. some \in SUBSET N /\ some \subseteq x
  BY <1>3
<1>5. visit[x] = IF some = x THEN x ELSE visit[some]
  BY <1>0, <1>3, Zenon
<1>6. Kept(s, x) = IF some = x THEN x ELSE Kept(s, some)
  BY KeptIs, Zenon
<1>7. some # x /\ visit[some] # Kept(s, some)
  <2> HIDE DEF some
  <2>1. ASSUME some = x PROVE FALSE
    BY <1>3, <1>5, <1>6, <2>1
  <2>2. ASSUME some # x PROVE visit[x] = visit[some] /\ Kept(s, x) = Kept(s, some)
    BY <1>5, <1>6, <2>2, Zenon
  <2> QED
    BY <1>3, <2>1, <2>2
<1> QED
  BY <1>2, <1>4, <1>7

LEMMA UnvisitedIs ==
  ASSUME NEW s, IsFiniteSet(Operations(s))
  PROVE  Unvisited(s) = Kept(s, Operations(s))
<1> DEFINE g == [left \in SUBSET Operations(s) |-> Kept(s, left)]
           v == CHOOSE w : Visiting(s, w)
<1>1. Visiting(s, g)
  <2>1. ASSUME NEW left \in SUBSET Operations(s)
        PROVE  /\ g[left] = Kept(s, left)
               /\ left \intersect Called(s, left) \in SUBSET Operations(s)
               /\ g[left \intersect Called(s, left)] = Kept(s, left \intersect Called(s, left))
    BY <2>1
  <2>2. ASSUME NEW left \in SUBSET Operations(s)
        PROVE  g[left] = IF left \intersect Called(s, left) = left THEN left ELSE g[left \intersect Called(s, left)]
    BY <2>1, KeptIs, Zenon
  <2>3. g = [left \in SUBSET Operations(s) |-> g[left]]
    OBVIOUS
  <2> HIDE DEF g
  <2> QED
    BY <2>2, <2>3, Zenon DEF Visiting
<1> HIDE DEF g
<1>2. Visiting(s, v)
  BY <1>1, Zenon
<1>3. Unvisited(s) = v[Operations(s)]
  BY Zenon DEF Unvisited, Visiting
<1>4. Operations(s) \in SUBSET Operations(s)
  OBVIOUS
<1> HIDE DEF v
<1> QED
  BY <1>2, <1>3, <1>4, VisitingUnique, Zenon

-----------------------------------------------------------------------------
(***************************************************************************)
(* The graph of a sound document: operations and calls.                    *)
(***************************************************************************)
RawOps(raw, id) == Or(raw.services[id], ZeroService).operations
RawNames(raw, id) == {Or(RawOps(raw, id)[i], ZeroOperation).name : i \in DOMAIN RawOps(raw, id)}

LEMMA ServiceOperations ==
  ASSUME NEW raw, RawSchema(raw), NEW C, C = WithCalls(raw), NEW id \in DOMAIN raw.services
  PROVE  /\ DOMAIN C.services[id].operations = RawNames(raw, id)
         /\ IsFiniteSet(DOMAIN RawOps(raw, id))
         /\ \A i \in DOMAIN RawOps(raw, id) : RawOps(raw, id)[i] \in Opt(RawOperation)
<1> DEFINE B == buildSchema(raw)
           rs == Or(raw.services[id], ZeroService)
           v == C.services[id]
<1>1. C.services = B.services
  BY ServicesSame, Zenon
<1>2. B.services[id] = BuildService(id, Or(raw.services[id], ZeroService), B.namespace)
  BY BuildIs, Zenon
<1> HIDE DEF B
<1>r. rs = Or(raw.services[id], ZeroService)
  OBVIOUS
<1> HIDE DEF rs
<1>3. v = BuildService(id, rs, B.namespace)
  BY <1>1, <1>2, <1>r, Zenon
<1> HIDE DEF v
<1>4. DOMAIN v.operations = {Or(rs.operations[i], ZeroOperation).name : i \in DOMAIN rs.operations}
  BY <1>3, OperationNames
<1>5. rs.operations \in Seq(Opt(RawOperation))
  BY <1>r, ServiceTyped, Zenon
<1>6. /\ IsFiniteSet(DOMAIN rs.operations)
      /\ \A i \in DOMAIN rs.operations : rs.operations[i] \in Opt(RawOperation)
  <2> DEFINE S == Opt(RawOperation)
  <2> HIDE DEF S
  <2>1. rs.operations \in Seq(S)
    BY <1>5 DEF S
  <2>2. DOMAIN rs.operations = 1..Len(rs.operations) /\ Len(rs.operations) \in Nat
    BY <2>1, LenProperties
  <2>3. IsFiniteSet(1..Len(rs.operations))
    BY <2>2, FS_Interval
  <2>4. \A i \in DOMAIN rs.operations : rs.operations[i] \in S
    BY <2>1, <2>2, ElementOfSeq
  <2> QED
    BY <2>2, <2>3, <2>4 DEF S
<1> QED
  BY <1>4, <1>6, Zenon DEF v, rs, RawOps, RawNames

LEMMA FiniteImage ==
  ASSUME NEW S, IsFiniteSet(S), NEW f, DOMAIN f = S, NEW T, \A t \in T : \E x \in S : f[x] = t
  PROVE  IsFiniteSet(T)
<1> DEFINE U == {f[x] : x \in S}
           g == [x \in S |-> f[x]]
<1>1. g \in [S -> U] /\ \A t \in U : \E x \in S : g[x] = t
  OBVIOUS
<1>2. T \subseteq U
  OBVIOUS
<1> HIDE DEF U, g
<1>3. g \in Surjection(S, U)
  BY <1>1, Fun_IsSurj
<1>4. IsFiniteSet(U)
  BY <1>3, FS_Surjection
<1> QED
  BY <1>2, <1>4, FS_Subset

LEMMA OperationsFinite ==
  ASSUME NEW raw, RawSchema(raw), NEW C, C = WithCalls(raw)
  PROVE  IsFiniteSet(Operations(C))
<1> DEFINE D == DOMAIN raw.services
           of(id) == {id} \X DOMAIN C.services[id].operations
           F == [id \in D |-> of(id)]
           U == {F[id] : id \in D}
<1>1. DOMAIN C.services = D
  BY NamesTyped, Zenon
<1>2. IsFiniteSet(D)
  BY Zenon DEF RawSchema
<1>3. ASSUME NEW id \in D PROVE IsFiniteSet(of(id))
  <2> DEFINE ops == RawOps(raw, id)
             ns == [i \in DOMAIN ops |-> Or(ops[i], ZeroOperation).name]
             T == DOMAIN C.services[id].operations
  <2>1. T = {Or(ops[i], ZeroOperation).name : i \in DOMAIN ops} /\ IsFiniteSet(DOMAIN ops)
    <3>1. T = RawNames(raw, id) /\ IsFiniteSet(DOMAIN ops)
      BY <1>3, ServiceOperations, Zenon
    <3> QED
      BY <3>1, Zenon DEF RawNames
  <2>2. DOMAIN ns = DOMAIN ops /\ \A t \in T : \E i \in DOMAIN ops : ns[i] = t
    BY <2>1
  <2>3. IsFiniteSet(T)
    <3> HIDE DEF T, ns, ops
    <3> QED
      BY <2>1, <2>2, FiniteImage
  <2>4. IsFiniteSet({id})
    BY FS_Singleton, Zenon
  <2> HIDE DEF T
  <2>5. IsFiniteSet({id} \X T)
    BY <2>3, <2>4, FS_Product, Zenon
  <2> QED
    BY <2>5 DEF T
<1>4. DOMAIN F = D /\ \A t \in U : \E id \in D : F[id] = t
  OBVIOUS
<1>5. \A t \in U : IsFiniteSet(t)
  BY <1>3
<1>6. Operations(C) = UNION U
  <2>1. U = {of(id) : id \in D}
    OBVIOUS
  <2> QED
    BY <1>1, <2>1, Zenon DEF Operations
<1> HIDE DEF F, U, D
<1>7. IsFiniteSet(U)
  BY <1>2, <1>4, FiniteImage
<1> QED
  BY <1>5, <1>6, <1>7, FS_UNION

\* What a key of a table of calls is.
CallKey(at) ==
  /\ at = <<at[1], at[2]>>
  /\ Len(at[2]) \in Nat \ {0} /\ DOMAIN at[2] = 1..Len(at[2])
  /\ \A i \in 1..Len(at[2]) : at[2][i][1] \in {"call", "parallel", "fallback"} /\ (at[2][i][1] = "call" <=> i = 1)

LEMMA RawKey ==
  ASSUME NEW raw, Sound(raw), NEW k \in DOMAIN raw.calls
  PROVE  CallKey(k)
<1>1. Trees(raw.calls, "call")
  BY Zenon DEF Sound, RawSchema, RawCalls
<1>2. /\ Len(k[2]) \in Nat \ {0} /\ DOMAIN k[2] = 1..Len(k[2])
      /\ \A i \in 1..Len(k[2]) : k[2][i] \in {"call", "parallel", "fallback"} \X Nat
      /\ \A i \in 1..Len(k[2]) : k[2][i][1] = "call" <=> i = 1
      /\ k = <<k[1], k[2]>>
  BY <1>1, KeyLengths
<1>3. \A i \in 1..Len(k[2]) : k[2][i][1] \in {"call", "parallel", "fallback"}
  BY <1>2
<1> QED
  BY <1>2, <1>3 DEF CallKey

LEMMA CallFrom ==
  ASSUME NEW raw, Sound(raw), NEW C, C = WithCalls(raw), NEW at \in DOMAIN C.calls
  PROVE  \E k \in DOMAIN raw.calls :
           /\ at = <<OwnerOf(raw, k[1]), k[2]>> /\ LastOwner(raw, at[1]) = k[1]
           /\ C.calls[at].to = raw.calls[k].to
<1>1. PICK k \in DOMAIN raw.calls :
        /\ at = <<OwnerOf(raw, k[1]), k[2]>> /\ LastOwner(raw, at[1]) = k[1]
        /\ C.calls[at] = resolveCallNode(at[1], raw.calls[k])
  <2>1. \A a \in DOMAIN C.calls : \E k \in DOMAIN raw.calls :
              /\ a = <<OwnerOf(raw, k[1]), k[2]>> /\ LastOwner(raw, a[1]) = k[1]
              /\ C.calls[a] = resolveCallNode(a[1], raw.calls[k])
    BY CallsIs
  <2> QED
    BY <2>1, Zenon
<1>2. C.calls[at].to = raw.calls[k].to
  BY <1>1, CallNodeIs
<1> QED
  BY <1>1, <1>2

(* The owner of a call is an operation of the schema, too.                 *)
LEMMA CallOwners ==
  ASSUME NEW raw, Sound(raw), NEW C, C = WithCalls(raw), NEW at \in DOMAIN C.calls
  PROVE  at[1] \in Operations(C)
<1>1. PICK k \in DOMAIN raw.calls : at = <<OwnerOf(raw, k[1]), k[2]>>
  BY CallFrom
<1> DEFINE id == k[1][1]
           i == k[1][2]
           ops == RawOps(raw, id)
<1>2. RawSchema(raw)
  BY Zenon DEF Sound
<1>3. /\ id \in DOMAIN raw.services /\ raw.services[id] # Nil
      /\ i \in DOMAIN raw.services[id].operations /\ raw.services[id].operations[i] # Nil
  BY <1>2, Zenon DEF RawSchema, RawCalls
<1>4. OwnerOf(raw, k[1]) = <<id, raw.services[id].operations[i].name>>
  BY Zenon DEF OwnerOf
<1>5. ops = raw.services[id].operations /\ Or(ops[i], ZeroOperation) = ops[i]
  BY <1>3, Zenon DEF Or, RawOps
<1>6. DOMAIN C.services[id].operations = {Or(ops[j], ZeroOperation).name : j \in DOMAIN ops}
  <2>1. DOMAIN C.services[id].operations = RawNames(raw, id)
    BY <1>2, <1>3, ServiceOperations, Zenon
  <2> QED
    BY <2>1, Zenon DEF RawNames
<1> HIDE DEF id, i, ops
<1>7. ops[i].name \in DOMAIN C.services[id].operations
  BY <1>3, <1>5, <1>6
<1>8. id \in DOMAIN C.services
  BY <1>2, <1>3, NamesTyped, Zenon
<1>9. <<id, ops[i].name>> \in Operations(C)
  BY <1>7, <1>8 DEF Operations
<1> QED
  BY <1>1, <1>4, <1>5, <1>9

(* The tree of the calls: what Trees and RawCalls say, in the schema; a    *)
(* fallback is an edge, and one of an edge.                                *)
LEMMA CallTree ==
  ASSUME NEW raw, Sound(raw), NEW C, C = WithCalls(raw), NEW at \in DOMAIN C.calls
  PROVE  /\ CallKey(at)
         /\ Len(at[2]) > 1 => \E of \in DOMAIN C.calls :
              CallKey(of) /\ Parent(of, at) /\ (IsFallback(at) => C.calls[of].to # Nil)
         /\ IsFallback(at) => C.calls[at].to # Nil
<1>1. PICK k \in DOMAIN raw.calls :
        /\ at = <<OwnerOf(raw, k[1]), k[2]>> /\ LastOwner(raw, at[1]) = k[1]
        /\ C.calls[at].to = raw.calls[k].to
  BY CallFrom
<1>2. at[1] = OwnerOf(raw, k[1]) /\ at[2] = k[2] /\ at = <<at[1], at[2]>>
  BY <1>1
<1>3. CallKey(k)
  BY RawKey, Zenon
<1>4. CallKey(at)
  BY <1>2, <1>3 DEF CallKey
<1>5. IsFallback(at) = IsFallback(k)
  BY <1>2, Zenon DEF IsFallback, Role
<1>6. ASSUME Len(at[2]) > 1
      PROVE  \E of \in DOMAIN C.calls :
               CallKey(of) /\ Parent(of, at) /\ (IsFallback(at) => C.calls[of].to # Nil)
  <2>1. PICK l \in DOMAIN raw.calls : Parent(l, k) /\ raw.calls[l] # Nil
    <3>1. Trees(raw.calls, "call")
      BY Zenon DEF Sound, RawSchema, RawCalls
    <3>2. Len(k[2]) > 1
      BY <1>2, <1>6
    <3> QED
      BY <3>1, <3>2, Zenon DEF Trees
  <2>2. IsFallback(k) => raw.calls[l].to # Nil
    BY <2>1, Zenon DEF Sound, RawSchema, RawCalls
  <2>3. l[1] = k[1]
    BY <2>1, Zenon DEF Parent, Above
  <2> DEFINE of == <<OwnerOf(raw, l[1]), l[2]>>
  <2>4. of[1] = at[1] /\ of[2] = l[2]
    BY <1>2, <2>3
  <2>5. LastOwner(raw, OwnerOf(raw, l[1])) = l[1]
    BY <1>1, <1>2, <2>3
  <2>6. of \in DOMAIN C.calls /\ C.calls[of] = resolveCallNode(OwnerOf(raw, l[1]), raw.calls[l])
    BY <2>5, CallsIs, Zenon
  <2>7. Parent(of, at)
    BY <1>2, <2>1, <2>4, Zenon DEF Parent, Above
  <2>8. CallKey(l)
    BY RawKey, Zenon
  <2>9. CallKey(of)
    BY <2>8 DEF CallKey
  <2> HIDE DEF of
  <2>10. C.calls[of].to = raw.calls[l].to
    BY <2>6, CallNodeIs
  <2> QED
    BY <1>5, <2>2, <2>6, <2>7, <2>9, <2>10, Zenon
<1>7. ASSUME IsFallback(k) PROVE raw.calls[k].to # Nil
  <2> DEFINE B == buildSchema(raw)
  <2> HIDE DEF B
  <2>1. \A l \in DOMAIN raw.calls : callError(B, raw.calls, l) = {}
    BY CallsSound DEF B
  <2>2. /\ (raw.calls[k].to # Nil) # HasMembers(raw.calls, k)
        /\ ~(/\ IsFallback(k) /\ HasMembers(raw.calls, k)
             /\ \A l \in DOMAIN raw.calls : Above(k, l) => callError(B, raw.calls, l) = {})
    BY CallsSound DEF B
  <2>3. HasMembers(raw.calls, k) \in BOOLEAN
    BY Zenon DEF HasMembers
  <2>4. ~HasMembers(raw.calls, k)
    BY <1>7, <2>1, <2>2, Zenon
  <2> QED
    BY <2>2, <2>3, <2>4
<1> QED
  BY <1>1, <1>4, <1>5, <1>6, <1>7, Zenon

\* What Validate and the plan builder rely on, of the calls of a schema.
GraphWhole(s) ==
  /\ IsFiniteSet(Operations(s))
  /\ \A at \in DOMAIN s.calls :
       /\ CallKey(at) /\ at[1] \in Operations(s)
       /\ s.calls[at].to # Nil => s.calls[at].to \in Operations(s)
       /\ Len(at[2]) > 1 => \E of \in DOMAIN s.calls :
            CallKey(of) /\ Parent(of, at) /\ (IsFallback(at) => s.calls[of].to # Nil)
       /\ IsFallback(at) => s.calls[at].to # Nil

LEMMA SoundGraph ==
  ASSUME NEW raw, Sound(raw)
  PROVE  GraphWhole(Resolve(raw).schema)
<1> DEFINE s == Resolve(raw).schema
           C == WithCalls(raw)
<1>1. s.services = C.services /\ s.calls = C.calls
  BY SchemaIs
<1>2. Operations(s) = Operations(C)
  BY <1>1, Zenon DEF Operations
<1> HIDE DEF s, C
<1>c. C = WithCalls(raw)
  BY DEF C
<1>3. IsFiniteSet(Operations(C))
  BY <1>c, OperationsFinite, Zenon DEF Sound
<1>4. ASSUME NEW at \in DOMAIN C.calls
      PROVE  /\ CallKey(at) /\ at[1] \in Operations(C)
             /\ C.calls[at].to # Nil => C.calls[at].to \in Operations(C)
             /\ Len(at[2]) > 1 => \E of \in DOMAIN C.calls :
                  CallKey(of) /\ Parent(of, at) /\ (IsFallback(at) => C.calls[of].to # Nil)
             /\ IsFallback(at) => C.calls[at].to # Nil
  BY <1>c, <1>4, CallTree, CallOwners, CallPointers
<1> QED
  BY <1>1, <1>2, <1>3, <1>4, Zenon DEF GraphWhole, s

FallbackCalls(s) == {at \in DOMAIN s.calls : IsFallback(at) /\ \E of \in PrimaryCalls(s) : Parent(of, at)}

\* The key of a node of a group at every level.
Members(at) == \A i \in 2..Len(at[2]) : at[2][i][1] = "parallel"

LEMMA PrimaryIs ==
  ASSUME NEW s, NEW at
  PROVE  at \in PrimaryCalls(s) <=> at \in DOMAIN s.calls /\ Members(at) /\ s.calls[at].to # Nil
BY DEF PrimaryCalls, Nodes, Members

LEMMA EdgesAre ==
  ASSUME NEW s, GraphWhole(s)
  PROVE  AllEdges(s) = PrimaryCalls(s) \union FallbackCalls(s)
<1>1. ASSUME NEW at \in AllEdges(s) PROVE at \in PrimaryCalls(s) \/ at \in FallbackCalls(s)
  <2> DEFINE n == Len(at[2])
  <2>1. at \in DOMAIN s.calls /\ s.calls[at].to # Nil /\ \A i \in 2..(n - 1) : at[2][i][1] = "parallel"
    BY <1>1 DEF AllEdges
  <2>2. CallKey(at)
    BY <2>1, Zenon DEF GraphWhole
  <2>3. n \in Nat \ {0} /\ at[2][n][1] \in {"call", "parallel", "fallback"} /\ (at[2][n][1] = "call" <=> n = 1)
    <3>1. /\ n \in Nat \ {0}
          /\ \A i \in 1..n : at[2][i][1] \in {"call", "parallel", "fallback"} /\ (at[2][i][1] = "call" <=> i = 1)
      BY <2>2, Zenon DEF CallKey
    <3> HIDE DEF n
    <3>2. n \in 1..n
      BY <3>1
    <3> QED
      BY <3>1, <3>2, Zenon
  <2>4. CASE n = 1 \/ at[2][n][1] = "parallel"
    <3>1. Members(at)
      BY <2>1, <2>3, <2>4 DEF Members
    <3> QED
      <4> HIDE DEF n
      <4>1. at \in DOMAIN s.calls /\ s.calls[at].to # Nil
        BY <2>1
      <4>2. at \in PrimaryCalls(s)
        BY <3>1, <4>1, PrimaryIs, Zenon
      <4> QED
        BY <4>2, Zenon
  <2>5. CASE n # 1 /\ at[2][n][1] = "fallback"
    <3>1. n > 1 /\ IsFallback(at)
      <4>1. n > 1
        <5> HIDE DEF n
        <5> QED
          BY <2>3, <2>5
      <4> QED
        BY <2>5, <4>1, Zenon DEF IsFallback, Role
    <3>2. PICK of \in DOMAIN s.calls : CallKey(of) /\ Parent(of, at) /\ s.calls[of].to # Nil
      BY <2>1, <3>1, Zenon DEF GraphWhole
    <3>3. n = Len(of[2]) + 1 /\ \A i \in DOMAIN of[2] : of[2][i] = at[2][i]
      BY <3>2 DEF Parent, Above
    <3>4. DOMAIN of[2] = 1..Len(of[2]) /\ Len(of[2]) \in Nat
      BY <3>2 DEF CallKey
    <3>5. Members(of)
      BY <2>1, <3>3, <3>4 DEF Members
    <3>6. of \in PrimaryCalls(s)
      BY <3>2, <3>5, PrimaryIs, Zenon
    <3> QED
      BY <2>1, <3>1, <3>2, <3>6 DEF FallbackCalls
  <2> QED
    BY <2>3, <2>4, <2>5
<1>2. ASSUME NEW at \in PrimaryCalls(s) PROVE at \in AllEdges(s)
  <2>1. at \in DOMAIN s.calls /\ Members(at) /\ s.calls[at].to # Nil
    BY <1>2, PrimaryIs, Zenon
  <2>2. Len(at[2]) \in Nat
    BY <2>1 DEF GraphWhole, CallKey
  <2> QED
    BY <2>1, <2>2 DEF AllEdges, Members
<1>3. ASSUME NEW at \in FallbackCalls(s) PROVE at \in AllEdges(s)
  <2>1. at \in DOMAIN s.calls /\ IsFallback(at)
    BY <1>3 DEF FallbackCalls
  <2>2. PICK of \in PrimaryCalls(s) : Parent(of, at)
    BY <1>3 DEF FallbackCalls
  <2>3. of \in DOMAIN s.calls /\ Members(of)
    BY <2>2, PrimaryIs, Zenon
  <2>4. CallKey(of) /\ CallKey(at) /\ s.calls[at].to # Nil
    BY <2>1, <2>3, Zenon DEF GraphWhole
  <2>5. Len(at[2]) = Len(of[2]) + 1 /\ \A i \in DOMAIN of[2] : of[2][i] = at[2][i]
    BY <2>2 DEF Parent, Above
  <2>6. Len(of[2]) \in Nat /\ DOMAIN of[2] = 1..Len(of[2])
    BY <2>4 DEF CallKey
  <2>7. \A i \in 2..(Len(at[2]) - 1) : at[2][i][1] = "parallel"
    BY <2>3, <2>5, <2>6 DEF Members
  <2> QED
    BY <2>1, <2>4, <2>7 DEF AllEdges
<1> QED
  BY <1>1, <1>2, <1>3

LEMMA EdgeArrows ==
  ASSUME NEW s, GraphWhole(s)
  PROVE  /\ Arrows(Operations(s), Arcs(s, AllEdges(s)))
         /\ \A T : Called(s, T) = Targets(Arcs(s, AllEdges(s)), T)
<1>1. \A at \in AllEdges(s) : at[1] \in Operations(s) /\ s.calls[at].to \in Operations(s)
  BY DEF AllEdges, GraphWhole
<1>2. \A a \in Arcs(s, AllEdges(s)) : \E at \in AllEdges(s) : a[1] = at[1] /\ a[2] = s.calls[at].to
  BY DEF Arcs
<1>3. \A at \in AllEdges(s) : <<at[1], s.calls[at].to>> \in Arcs(s, AllEdges(s))
  BY DEF Arcs
<1>4. Arrows(Operations(s), Arcs(s, AllEdges(s)))
  BY <1>1, <1>2, Zenon DEF Arrows
<1>5. ASSUME NEW T PROVE Called(s, T) = Targets(Arcs(s, AllEdges(s)), T)
  <2> DEFINE A == Arcs(s, AllEdges(s))
  <2>1. ASSUME NEW p \in Called(s, T) PROVE p \in Targets(A, T)
    <3>1. PICK at \in AllEdges(s) : at[1] \in T /\ p = s.calls[at].to
      BY <2>1 DEF Called
    <3>2. <<at[1], s.calls[at].to>> \in A
      BY <1>3
    <3> HIDE DEF A
    <3> QED
      BY <3>1, <3>2 DEF Targets
  <2>2. ASSUME NEW p \in Targets(A, T) PROVE p \in Called(s, T)
    <3> HIDE DEF A
    <3>1. PICK a \in A : a[1] \in T /\ p = a[2]
      BY <2>2 DEF Targets
    <3>2. PICK at \in AllEdges(s) : a[1] = at[1] /\ a[2] = s.calls[at].to
      BY <1>2, <3>1, Zenon DEF A
    <3> QED
      BY <3>1, <3>2 DEF Called
  <2> QED
    BY <2>1, <2>2
<1> QED
  BY <1>4, <1>5, Zenon

LEMMA CyclicIs ==
  ASSUME NEW s, GraphWhole(s)
  PROVE  Cyclic(s) <=> Loops(Operations(s), Arcs(s, AllEdges(s)))
<1>1. AllEdges(s) = PrimaryCalls(s) \union FallbackCalls(s)
  BY EdgesAre, Zenon
<1>2. \A arcs, from : Reach(s, arcs, from) = ReachOf(Operations(s), arcs, from)
  BY Zenon DEF Reach, ReachOf
<1>3. Cyclic(s) <=> LET arcs == Arcs(s, PrimaryCalls(s) \union FallbackCalls(s))
                    IN \E a \in arcs : a[1] \in Reach(s, arcs, {a[2]})
  BY Zenon DEF Cyclic, FallbackCalls
<1> QED
  BY <1>1, <1>2, <1>3, Zenon DEF Loops

(* validateDAG leaves operations exactly if there is a cycle.              *)
LEMMA UnvisitedLoops ==
  ASSUME NEW s, GraphWhole(s)
  PROVE  Unvisited(s) # {} <=> Cyclic(s)
<1> DEFINE N == Operations(s)
           A == Arcs(s, AllEdges(s))
<1>1. Arrows(N, A) /\ (\A T : Called(s, T) = Targets(A, T)) /\ (Cyclic(s) <=> Loops(N, A)) /\ IsFiniteSet(N)
  BY EdgeArrows, CyclicIs, Zenon DEF GraphWhole
<1>2. Unvisited(s) = Kept(s, N)
  BY <1>1, UnvisitedIs, Zenon
<1> HIDE DEF N, A
<1>3. ASSUME Unvisited(s) # {} PROVE Loops(N, A)
  <2>1. PICK T \in SUBSET N : T # {} /\ T \subseteq Called(s, T)
    BY <1>2, <1>3 DEF Kept
  <2>2. T \subseteq Targets(A, T)
    BY <1>1, <2>1, Zenon
  <2> QED
    BY <1>1, <2>1, <2>2, CalledWithin
<1>4. ASSUME Loops(N, A) PROVE Unvisited(s) # {}
  <2>1. PICK T \in SUBSET N : T # {} /\ T \subseteq Targets(A, T)
    BY <1>1, <1>4, LoopCalls, Zenon
  <2>2. T \subseteq Called(s, T)
    BY <1>1, <2>1, Zenon
  <2> QED
    BY <1>2, <2>1, <2>2 DEF Kept
<1> QED
  BY <1>1, <1>3, <1>4, Zenon

-----------------------------------------------------------------------------
(***************************************************************************)
(* The rule of the cycles is that of validateDAG, and of nothing else.     *)
(***************************************************************************)
LEMMA NotInLink == ASSUME NEW x PROVE "R_STR_4" \notin LinkErrors(x)
BY DEF LinkErrors

LEMMA NotInEvent == ASSUME NEW x PROVE "R_STR_4" \notin EventErrors(x)
BY DEF EventErrors

LEMMA NotInMetric == ASSUME NEW x PROVE "R_STR_4" \notin MetricErrors(x)
BY NotInLink DEF MetricErrors

LEMMA NotInUpdate == ASSUME NEW x PROVE "R_STR_4" \notin UpdateErrors(x)
BY NotInLink DEF UpdateErrors

LEMMA NotInObservable == ASSUME NEW x PROVE "R_STR_4" \notin ObservableErrors(x)
BY NotInLink DEF ObservableErrors

LEMMA NotInProfile == ASSUME NEW x PROVE "R_STR_4" \notin ProfileErrors(x)
BY DEF ProfileErrors

LEMMA NotInOperation == ASSUME NEW x PROVE "R_STR_4" \notin OperationErrors(x)
<1> DEFINE a == IF NameOk(x.name) THEN {} ELSE {"D_OP"}
           b == UNION {EventErrors(ev) : ev \in x.logEvents}
           c == UNION {MetricErrors(m) : m \in x.metrics}
           d == UNION {UpdateErrors(u) : u \in x.stateUpdates}
           e == ProfileErrors(x.profile)
<1>1. "R_STR_4" \notin a
  OBVIOUS
<1>2. "R_STR_4" \notin b
  BY NotInEvent
<1>3. "R_STR_4" \notin c
  BY NotInMetric
<1>4. "R_STR_4" \notin d
  BY NotInUpdate
<1>5. "R_STR_4" \notin e
  BY NotInProfile
<1>6. OperationErrors(x) = a \union b \union c \union d \union e
  BY Zenon DEF OperationErrors
<1> HIDE DEF a, b, c, d, e
<1> QED
  BY <1>1, <1>2, <1>3, <1>4, <1>5, <1>6

LEMMA NotInService == ASSUME NEW x PROVE "R_STR_4" \notin ServiceErrors(x)
<1> DEFINE a == IF x.replicas >= 1 THEN {} ELSE {"D_1"}
           b == IF x.kind \in ServiceKinds THEN {} ELSE {"D_ENUM"}
           c == IF DOMAIN x.operations # {} THEN {} ELSE {"D_12"}
           d == UNION {ObservableErrors(m) : m \in x.metrics}
           e == UNION {OperationErrors(x.operations[n]) : n \in DOMAIN x.operations}
<1>1. "R_STR_4" \notin a /\ "R_STR_4" \notin b /\ "R_STR_4" \notin c
  OBVIOUS
<1>2. "R_STR_4" \notin d
  BY NotInObservable
<1>3. "R_STR_4" \notin e
  BY NotInOperation
<1>4. ServiceErrors(x) = a \union b \union c \union d \union e
  BY Zenon DEF ServiceErrors
<1> HIDE DEF a, b, c, d, e
<1> QED
  BY <1>1, <1>2, <1>3, <1>4

LEMMA NotInEdge == ASSUME NEW x PROVE "R_STR_4" \notin EdgeErrors(x)
BY DEF EdgeErrors

LEMMA NotInFault == ASSUME NEW x PROVE "R_STR_4" \notin FaultErrors(x)
BY DEF FaultErrors

LEMMA NotInJourney == ASSUME NEW s, NEW x PROVE "R_STR_4" \notin JourneyErrors(s, x)
BY DEF JourneyErrors

LEMMA NotInDomain == ASSUME NEW s PROVE "R_STR_4" \notin DomainErrors(s)
<1> DEFINE a == IF DOMAIN s.services = {} THEN {"D_13"} ELSE {}
           b == IF DOMAIN s.journeys = {} THEN {"D_14"} ELSE {}
           c == UNION {ServiceErrors(s.services[id]) : id \in DOMAIN s.services}
           d == UNION {EdgeErrors(s.calls[at]) : at \in AllEdges(s)}
           e == UNION {JourneyErrors(s, name) : name \in DOMAIN s.journeys}
           f == UNION {FaultErrors(x) : x \in ToSet(s.faults)}
<1>1. "R_STR_4" \notin a /\ "R_STR_4" \notin b
  OBVIOUS
<1>2. "R_STR_4" \notin c
  BY NotInService
<1>3. "R_STR_4" \notin d
  BY NotInEdge
<1>4. "R_STR_4" \notin e
  BY NotInJourney
<1>5. "R_STR_4" \notin f
  BY NotInFault
<1>6. DomainErrors(s) = a \union b \union c \union d \union e \union f
  BY Zenon DEF DomainErrors
<1> HIDE DEF a, b, c, d, e, f
<1> QED
  BY <1>1, <1>2, <1>3, <1>4, <1>5, <1>6

LEMMA RulesAre ==
  ASSUME NEW s
  PROVE  "R_STR_4" \in Validate(s) <=> Unvisited(s) # {}
<1> DEFINE a == \A id \in DOMAIN s.services : s.services[id].name = id
           b == BackPointers(s)
           c == NoOrphans(s)
           d == Unvisited(s) = {}
           e == StepsReachable(s)
           f == \A x \in ToSet(s.faults) : TargetFound(s, x.target)
           g == CallVariants(s)
           h == FallbacksOwned(s)
           rules == [R_STR_1 |-> a, R_STR_2 |-> b, R_STR_3 |-> c, R_STR_4 |-> d,
                     R_STR_5 |-> e, R_STR_6 |-> f, R_STR_7 |-> g, R_STR_8 |-> h]
           D == DomainErrors(s)
<1>1. Validate(s) = {r \in DOMAIN rules : ~rules[r]} \union D
  BY Zenon DEF Validate
<1>2. "R_STR_4" \notin D
  BY NotInDomain
<1> HIDE DEF a, b, c, e, f, g, h, D
<1>3. "R_STR_4" \in DOMAIN rules /\ (rules["R_STR_4"] <=> d)
  BY DEF rules
<1> HIDE DEF rules
<1> QED
  BY <1>1, <1>2, <1>3

LEMMA CyclesAlways == Answers => CyclesRejected
<1> SUFFICES ASSUME Answers, loaded # Nil, doc.yaml = "ok", Resolve(doc.raw).errs = {}
             PROVE  "R_STR_4" \in loaded.errs <=> Cyclic(Resolve(doc.raw).schema)
  BY Zenon DEF CyclesRejected
<1> DEFINE r == Resolve(doc.raw)
           s == r.schema
<1>1. loaded = Parse(doc.yaml, r) /\ doc \in Docs
  BY Zenon DEF Answers
<1>2. Sound(doc.raw)
  BY <1>1, DocsDecoded, Zenon DEF Sound
<1>3. GraphWhole(s)
  BY <1>2, SoundGraph, Zenon
<1>4. doc.yaml \notin {"type", "both", "syntax"}
  OBVIOUS
<1> HIDE DEF s
<1>5. loaded.errs = IF r.errs # {} THEN r.errs ELSE Validate(r.schema)
  BY <1>1, <1>4, ParseIs
<1>6. loaded.errs = Validate(s)
  BY <1>5 DEF s
<1>7. "R_STR_4" \in Validate(s) <=> Unvisited(s) # {}
  BY RulesAre, Zenon
<1> QED
  BY <1>3, <1>6, <1>7, UnvisitedLoops, Zenon DEF s

-----------------------------------------------------------------------------
(***************************************************************************)
(* buildOperationNode: in a graph without a cycle the tree of an operation *)
(* holds every path that leads from it.                                    *)
(***************************************************************************)
Paths(s, op) ==
  {c \in Seq(PrimaryCalls(s)) :
     \A i \in 1..Len(c) : c[i][1] = IF i = 1 THEN op ELSE s.calls[c[i - 1]].to}

PrimaryArcs(s) == Arcs(s, PrimaryCalls(s))

\* What the nodes below a call are put below, and the whole of a tree.
Behind(at, chains) == {<<at>> \o chain : chain \in chains}

LEMMA CallsAre ==
  ASSUME NEW s, NEW op
  PROVE  Calls(s, op) = {at \in PrimaryCalls(s) : at[1] = op}
BY DEF Calls, PrimaryCalls

LEMMA PathEmpty ==
  ASSUME NEW s, NEW op
  PROVE  <<>> \in Paths(s, op)
<1>1. <<>> \in Seq(PrimaryCalls(s)) /\ Len(<<>>) = 0
  BY EmptySeq
<1> QED
  BY <1>1 DEF Paths

LEMMA PathHead ==
  ASSUME NEW s, NEW op, NEW c \in Paths(s, op), c # <<>>
  PROVE  \E at \in Calls(s, op) : c \in Behind(at, Paths(s, s.calls[at].to))
<1> DEFINE E == PrimaryCalls(s)
           n == Len(c)
           d == Tail(c)
<1>1. c \in Seq(E) /\ \A i \in 1..Len(c) : c[i][1] = IF i = 1 THEN op ELSE s.calls[c[i - 1]].to
  BY DEF Paths
<1>e. E = PrimaryCalls(s)
  OBVIOUS
<1> HIDE DEF E, n, d
<1>2. n \in Nat \ {0} /\ \A i \in 1..n : c[i] \in E
  BY <1>1, EmptySeq, LenProperties, ElementOfSeq DEF n
<1>3. d \in Seq(E) /\ Len(d) = n - 1 /\ \A i \in 1..(n - 1) : d[i] = c[i + 1]
  BY <1>1, HeadTailProperties DEF d, n
<1>4. c = <<c[1]>> \o d
  <2>1. <<c[1]>> \in Seq(E) /\ Len(<<c[1]>>) = 1 /\ <<c[1]>>[1] = c[1]
    BY <1>2
  <2> DEFINE b == <<c[1]>>
  <2>2. b \in Seq(E) /\ Len(b) = 1 /\ b[1] = c[1]
    BY <2>1
  <2> HIDE DEF b
  <2>3. b \o d \in Seq(E) /\ Len(b \o d) = 1 + (n - 1)
        /\ \A i \in 1..(1 + (n - 1)) : (b \o d)[i] = IF i <= 1 THEN b[i] ELSE d[i - 1]
    <3>1. b \o d \in Seq(E) /\ Len(b \o d) = Len(b) + Len(d)
          /\ \A i \in 1..(Len(b) + Len(d)) : (b \o d)[i] = IF i <= Len(b) THEN b[i] ELSE d[i - Len(b)]
      <4>1. d \in Seq(E) /\ b \in Seq(E)
        BY <1>3, <2>2
      <4> QED
        BY <4>1, ConcatProperties
    <3> QED
      BY <1>3, <2>2, <3>1
  <2>4. Len(b \o d) = n /\ \A i \in 1..n : (b \o d)[i] = c[i]
    BY <1>2, <1>3, <2>2, <2>3
  <2>5. c = b \o d
    BY <1>1, <2>3, <2>4, SeqEqual DEF n
  <2> QED
    BY <2>5 DEF b
<1>5. c[1] \in Calls(s, op)
  <2>1. c[1] \in E /\ c[1][1] = op
    BY <1>1, <1>2 DEF n
  <2> QED
    BY <1>e, <2>1, CallsAre
<1>6. d \in Paths(s, s.calls[c[1]].to)
  <2>1. ASSUME NEW i \in 1..(n - 1)
        PROVE  d[i][1] = IF i = 1 THEN s.calls[c[1]].to ELSE s.calls[d[i - 1]].to
    <3>1. i + 1 \in 1..n /\ i + 1 # 1 /\ (i + 1) - 1 = i
      BY <1>2
    <3>2. c[i + 1][1] = s.calls[c[i]].to
      BY <1>1, <3>1 DEF n
    <3>3. i # 1 => i - 1 \in 1..(n - 1) /\ (i - 1) + 1 = i
      BY <1>2
    <3>4. i # 1 => d[i - 1] = c[i]
      BY <1>3, <3>3
    <3> QED
      BY <1>3, <3>2, <3>4
  <2> QED
    BY <1>3, <2>1, <1>e DEF Paths
<1> QED
  BY <1>4, <1>5, <1>6 DEF Behind

LEMMA PathBehind ==
  ASSUME NEW s, NEW op, NEW at \in Calls(s, op), NEW c \in Behind(at, Paths(s, s.calls[at].to))
  PROVE  c \in Paths(s, op)
<1> DEFINE E == PrimaryCalls(s)
<1>1. PICK d \in Paths(s, s.calls[at].to) : c = <<at>> \o d
  BY DEF Behind
<1>2. d \in Seq(E) /\ \A i \in 1..Len(d) : d[i][1] = IF i = 1 THEN s.calls[at].to ELSE s.calls[d[i - 1]].to
  BY DEF Paths
<1>e. E = PrimaryCalls(s)
  OBVIOUS
<1>3. at \in E /\ at[1] = op
  BY CallsAre
<1> DEFINE b == <<at>>
           n == Len(d)
<1> HIDE DEF E
<1>4. b \in Seq(E) /\ Len(b) = 1 /\ b[1] = at
  BY <1>3
<1>5. n \in Nat
  BY <1>2, LenProperties
<1> HIDE DEF b, n
<1>6. b \o d \in Seq(E) /\ Len(b \o d) = 1 + n
      /\ \A i \in 1..(1 + n) : (b \o d)[i] = IF i <= 1 THEN b[i] ELSE d[i - 1]
  BY <1>2, <1>4, ConcatProperties DEF n
<1>7. c = b \o d
  BY <1>1 DEF b
<1>8. c \in Seq(E) /\ Len(c) = 1 + n /\ c[1] = at /\ \A i \in 2..(1 + n) : c[i] = d[i - 1]
  BY <1>4, <1>5, <1>6, <1>7
<1>9. ASSUME NEW i \in 1..(1 + n)
      PROVE  c[i][1] = IF i = 1 THEN op ELSE s.calls[c[i - 1]].to
  <2>1. CASE i = 1
    BY <1>3, <1>8, <2>1
  <2>2. CASE i = 2
    <3>1. 1 \in 1..n /\ c[2] = d[1]
      BY <1>5, <1>8, <2>2
    <3> QED
      BY <1>2, <1>8, <2>2, <3>1 DEF n
  <2>3. CASE i > 2
    <3>1. i - 1 \in 1..n /\ i - 1 \in 2..(1 + n) /\ i - 1 # 1 /\ i \in 2..(1 + n)
      BY <1>5, <2>3
    <3>2. c[i] = d[i - 1] /\ c[i - 1] = d[(i - 1) - 1]
      BY <1>8, <3>1
    <3>3. d[i - 1][1] = s.calls[d[(i - 1) - 1]].to
      BY <1>2, <3>1 DEF n
    <3> QED
      BY <2>3, <3>2, <3>3
  <2> QED
    BY <1>5, <2>1, <2>2, <2>3
<1> QED
  BY <1>e, <1>8, <1>9 DEF Paths

LEMMA PathsAre ==
  ASSUME NEW s, NEW op
  PROVE  Paths(s, op) = {<<>>} \union UNION {Behind(at, Paths(s, s.calls[at].to)) : at \in Calls(s, op)}
BY PathEmpty, PathHead, PathBehind

\* The first arc on the way to another node.
LEMMA ReachFirst ==
  ASSUME NEW N, NEW arcs, Arrows(N, arcs), NEW p \in N, NEW q \in ReachOf(N, arcs, {p}), q # p
  PROVE  \E a \in arcs : a[1] = p /\ q \in ReachOf(N, arcs, {a[2]})
<1> DEFINE T == {x \in N : \E a \in arcs : a[1] = p /\ x \in ReachOf(N, arcs, {a[2]})}
           S == {p} \union T
<1>1. ASSUME NEW a \in arcs, a[1] \in S PROVE a[2] \in S
  <2>1. a[2] \in N
    BY DEF Arrows
  <2>2. CASE a[1] = p
    BY <2>1, <2>2, ReachStart
  <2>3. CASE a[1] \in T
    <3>1. PICK b \in arcs : b[1] = p /\ a[1] \in ReachOf(N, arcs, {b[2]})
      BY <2>3
    <3>2. a[2] \in ReachOf(N, arcs, {b[2]})
      BY <3>1, ReachStep, Zenon
    <3> QED
      BY <2>1, <3>1, <3>2
  <2> QED
    BY <1>1, <2>2, <2>3
<1>2. S \subseteq N /\ {p} \subseteq S
  OBVIOUS
<1>3. q \in S
  <2> HIDE DEF S
  <2>1. ReachOf(N, arcs, {p}) \subseteq S
    BY <1>1, <1>2, ReachLeast, Zenon
  <2> QED
    BY <2>1
<1> QED
  BY <1>3

\* No arc between calls leads back to where it came from.
Straight(s) == GraphWhole(s) /\ ~Loops(Operations(s), PrimaryArcs(s))

ReachFrom(s, op) == ReachOf(Operations(s), PrimaryArcs(s), {op})

LEMMA CallArrows ==
  ASSUME NEW s, GraphWhole(s)
  PROVE  /\ Arrows(Operations(s), PrimaryArcs(s))
         /\ \A at \in PrimaryCalls(s) :
              /\ at[1] \in Operations(s) /\ s.calls[at].to \in Operations(s)
              /\ <<at[1], s.calls[at].to>> \in PrimaryArcs(s)
         /\ \A a \in PrimaryArcs(s) : \E at \in PrimaryCalls(s) : a[1] = at[1] /\ a[2] = s.calls[at].to
<1>1. \A at \in PrimaryCalls(s) : at[1] \in Operations(s) /\ s.calls[at].to \in Operations(s)
  BY PrimaryIs DEF GraphWhole
<1>2. \A at \in PrimaryCalls(s) : <<at[1], s.calls[at].to>> \in PrimaryArcs(s)
  BY DEF PrimaryArcs, Arcs
<1>3. \A a \in PrimaryArcs(s) : \E at \in PrimaryCalls(s) : a[1] = at[1] /\ a[2] = s.calls[at].to
  BY DEF PrimaryArcs, Arcs
<1>4. Arrows(Operations(s), PrimaryArcs(s))
  BY <1>1, <1>3, Zenon DEF Arrows
<1> QED
  BY <1>1, <1>2, <1>3, <1>4, Zenon

LEMMA CallReach ==
  ASSUME NEW s, GraphWhole(s), NEW at \in PrimaryCalls(s)
  PROVE  ReachFrom(s, s.calls[at].to) \subseteq ReachFrom(s, at[1])
<1> DEFINE N == Operations(s)
           A == PrimaryArcs(s)
           a == <<at[1], s.calls[at].to>>
<1>1. Arrows(N, A) /\ at[1] \in N /\ a \in A
  BY CallArrows
<1>2. a[1] = at[1] /\ a[2] = s.calls[at].to
  OBVIOUS
<1> HIDE DEF N, A, a
<1>3. a[1] \in ReachOf(N, A, {at[1]})
  BY <1>1, <1>2, ReachStart
<1>4. a[2] \in ReachOf(N, A, {at[1]})
  BY <1>1, <1>3, ReachStep, Zenon
<1>5. ReachOf(N, A, {a[2]}) \subseteq ReachOf(N, A, {at[1]})
  BY <1>1, <1>4, ReachChain, Zenon
<1> QED
  BY <1>2, <1>5 DEF ReachFrom, N, A

LEMMA NoWayBack ==
  ASSUME NEW s, Straight(s), NEW at \in PrimaryCalls(s)
  PROVE  at[1] \notin ReachFrom(s, s.calls[at].to)
<1> DEFINE a == <<at[1], s.calls[at].to>>
<1>1. a \in PrimaryArcs(s) /\ a[1] = at[1] /\ a[2] = s.calls[at].to
  BY CallArrows DEF Straight
<1> HIDE DEF a
<1>2. a[1] \notin ReachOf(Operations(s), PrimaryArcs(s), {a[2]})
  BY <1>1, Zenon DEF Straight, Loops
<1> QED
  BY <1>1, <1>2, Zenon DEF ReachFrom

\* None of the operations on the way is built again below op.
Free(s, visiting, op) == ReachFrom(s, op) \intersect visiting = {}

LEMMA FreeIs ==
  ASSUME NEW s, Straight(s), NEW V \in SUBSET Operations(s), NEW op \in Operations(s)
  PROVE  Free(s, V, op) <=> op \notin V /\ \A at \in Calls(s, op) : Free(s, V \union {op}, s.calls[at].to)
<1>0. GraphWhole(s)
  BY Zenon DEF Straight
<1>1. op \in ReachFrom(s, op)
  BY ReachStart, Zenon DEF ReachFrom
<1>2. ASSUME Free(s, V, op), NEW at \in Calls(s, op) PROVE Free(s, V \union {op}, s.calls[at].to)
  <2>1. at \in PrimaryCalls(s) /\ at[1] = op
    BY CallsAre
  <2>2. ReachFrom(s, s.calls[at].to) \subseteq ReachFrom(s, op) /\ op \notin ReachFrom(s, s.calls[at].to)
    BY <1>0, <2>1, CallReach, NoWayBack, Zenon
  <2> QED
    BY <1>2, <2>2 DEF Free
<1>3. ASSUME op \notin V, \A at \in Calls(s, op) : Free(s, V \union {op}, s.calls[at].to),
             NEW q \in ReachFrom(s, op), q \in V
      PROVE  FALSE
  <2>1. q # op
    BY <1>3
  <2>2. \E a \in PrimaryArcs(s) : a[1] = op /\ q \in ReachFrom(s, a[2])
    <3> DEFINE N == Operations(s)
               A == PrimaryArcs(s)
    <3>1. Arrows(N, A)
      BY <1>0, CallArrows, Zenon
    <3>2. q \in ReachOf(N, A, {op})
      BY <1>3, Zenon DEF ReachFrom
    <3>3. op \in N
      OBVIOUS
    <3> HIDE DEF N, A
    <3>4. \E a \in A : a[1] = op /\ q \in ReachOf(N, A, {a[2]})
      BY <2>1, <3>1, <3>2, <3>3, ReachFirst, Zenon
    <3> QED
      BY <3>4, Zenon DEF ReachFrom, N, A
  <2>3. PICK at \in PrimaryCalls(s) : at[1] = op /\ q \in ReachFrom(s, s.calls[at].to)
    <3>1. PICK a \in PrimaryArcs(s) : a[1] = op /\ q \in ReachFrom(s, a[2])
      BY <2>2
    <3>2. PICK at \in PrimaryCalls(s) : a[1] = at[1] /\ a[2] = s.calls[at].to
      BY <1>0, CallArrows, Zenon
    <3>3. at[1] = op /\ q \in ReachFrom(s, s.calls[at].to)
      BY <3>1, <3>2
    <3> QED
      BY <3>3
  <2>4. at \in Calls(s, op)
    BY <2>3, CallsAre
  <2> QED
    BY <1>3, <2>3, <2>4 DEF Free
<1> QED
  BY <1>1, <1>2, <1>3 DEF Free

-----------------------------------------------------------------------------
Node(s, build, visiting, op) ==
  IF op \in visiting \/ \E at \in Calls(s, op) : build[visiting \union {op}][s.calls[at].to] = {} THEN {}
  ELSE {<<>>} \union UNION {Behind(at, build[visiting \union {op}][s.calls[at].to]) : at \in Calls(s, op)}

Building(s, build) ==
  build = [visiting \in SUBSET Operations(s) |-> [op \in Operations(s) |-> Node(s, build, visiting, op)]]

LEMMA CalledOps ==
  ASSUME NEW s, GraphWhole(s), NEW op, NEW at \in Calls(s, op)
  PROVE  s.calls[at].to \in Operations(s)
<1>1. at \in PrimaryCalls(s)
  BY CallsAre
<1> QED
  BY <1>1, CallArrows, Zenon

\* Any table with the trees of the operations that are free satisfies the equation of one.
LEMMA NodeIs ==
  ASSUME NEW s, Straight(s), NEW build, NEW V \in SUBSET Operations(s), NEW op \in Operations(s),
         \A at \in Calls(s, op) : build[V \union {op}][s.calls[at].to] =
           IF Free(s, V \union {op}, s.calls[at].to) THEN Paths(s, s.calls[at].to) ELSE {}
  PROVE  Node(s, build, V, op) = IF Free(s, V, op) THEN Paths(s, op) ELSE {}
<1> DEFINE b(at) == build[V \union {op}][s.calls[at].to]
           bad == op \in V \/ \E at \in Calls(s, op) : b(at) = {}
           U == {Behind(at, b(at)) : at \in Calls(s, op)}
<1>1. Node(s, build, V, op) = IF bad THEN {} ELSE {<<>>} \union UNION U
  BY Zenon DEF Node
<1>2. \A at \in Calls(s, op) : b(at) = IF Free(s, V \union {op}, s.calls[at].to) THEN Paths(s, s.calls[at].to) ELSE {}
  OBVIOUS
<1> HIDE DEF b
<1>3. \A at \in Calls(s, op) : b(at) = {} <=> ~Free(s, V \union {op}, s.calls[at].to)
  <2> TAKE at \in Calls(s, op)
  <2>1. <<>> \in Paths(s, s.calls[at].to)
    BY PathEmpty, Zenon
  <2> QED
    BY <1>2, <2>1
<1>4. bad <=> ~Free(s, V, op)
  BY <1>3, FreeIs
<1>5. ASSUME ~bad PROVE {<<>>} \union UNION U = Paths(s, op)
  <2>1. \A at \in Calls(s, op) : b(at) = Paths(s, s.calls[at].to)
    BY <1>2, <1>3, <1>5
  <2>2. U = {Behind(at, Paths(s, s.calls[at].to)) : at \in Calls(s, op)}
    BY <2>1
  <2> HIDE DEF U
  <2> QED
    BY <2>2, PathsAre, Zenon
<1> HIDE DEF bad, U
<1> QED
  BY <1>1, <1>4, <1>5

LEMMA BuildingExists ==
  ASSUME NEW s, Straight(s)
  PROVE  \E build : Building(s, build)
<1> DEFINE N == Operations(s)
           g == [V \in SUBSET N |-> [op \in N |-> IF Free(s, V, op) THEN Paths(s, op) ELSE {}]]
<1>1. \A V \in SUBSET N, op \in N : g[V][op] = IF Free(s, V, op) THEN Paths(s, op) ELSE {}
  OBVIOUS
<1>2. g = [V \in SUBSET N |-> [op \in N |-> g[V][op]]]
  OBVIOUS
<1> HIDE DEF g
<1>3. ASSUME NEW V \in SUBSET N, NEW op \in N PROVE g[V][op] = Node(s, g, V, op)
  <2>1. V \union {op} \in SUBSET N
    OBVIOUS
  <2>2. \A at \in Calls(s, op) : s.calls[at].to \in N
    BY CalledOps, Zenon DEF Straight
  <2>3. \A at \in Calls(s, op) : g[V \union {op}][s.calls[at].to] =
          IF Free(s, V \union {op}, s.calls[at].to) THEN Paths(s, s.calls[at].to) ELSE {}
    BY <1>1, <2>1, <2>2, Zenon
  <2>4. Node(s, g, V, op) = IF Free(s, V, op) THEN Paths(s, op) ELSE {}
    BY <2>3, NodeIs, Zenon
  <2> QED
    BY <1>1, <2>4, Zenon
<1>4. g = [V \in SUBSET N |-> [op \in N |-> Node(s, g, V, op)]]
  BY <1>2, <1>3, Zenon
<1> QED
  BY <1>4, Zenon DEF Building

LEMMA BuildingUnique ==
  ASSUME NEW s, Straight(s), NEW build, Building(s, build)
  PROVE  \A V \in SUBSET Operations(s) : \A op \in Operations(s) :
           build[V][op] = IF Free(s, V, op) THEN Paths(s, op) ELSE {}
<1> DEFINE N == Operations(s)
           Ok(V) == \A op \in N : build[V][op] = IF Free(s, V, op) THEN Paths(s, op) ELSE {}
           W == {L \in SUBSET N : ~Ok(N \ L)}
<1>0. ASSUME NEW V \in SUBSET N, NEW op \in N PROVE build[V][op] = Node(s, build, V, op)
  <2> DEFINE g == [visiting \in SUBSET N |-> [o \in N |-> Node(s, build, visiting, o)]]
  <2>1. g[V][op] = Node(s, build, V, op)
    BY <1>0
  <2>2. build = g
    BY Zenon DEF Building
  <2> HIDE DEF g
  <2> QED
    BY <2>1, <2>2
<1>1. ASSUME W # {} PROVE FALSE
  <2>1. PICK L \in W : \A M \in W : M \subseteq L => M = L
    <3>1. W \subseteq SUBSET N /\ IsFiniteSet(N)
      BY DEF Straight, GraphWhole
    <3> HIDE DEF W, N
    <3> QED
      BY <1>1, <3>1, LeastSubset
  <2> DEFINE V == N \ L
  <2>2. PICK op \in N : build[V][op] # IF Free(s, V, op) THEN Paths(s, op) ELSE {}
    BY <2>1
  <2>3. V \in SUBSET N
    OBVIOUS
  <2>4. op \notin V => Ok(V \union {op})
    <3> SUFFICES ASSUME op \notin V, ~Ok(V \union {op})
                 PROVE  FALSE
      OBVIOUS
    <3>1. N \ (L \ {op}) = V \union {op} /\ op \in L /\ L \ {op} \in SUBSET N
      BY <2>1
    <3> HIDE DEF Ok, V
    <3>2. L \ {op} \in W
      BY <3>1
    <3>3. L \ {op} = L
      BY <2>1, <3>2
    <3> QED
      BY <3>1, <3>3
  <2> HIDE DEF V
  <2>5. Node(s, build, V, op) = IF Free(s, V, op) THEN Paths(s, op) ELSE {}
    <3>1. CASE op \in V
      <4>1. Node(s, build, V, op) = {}
        BY <3>1 DEF Node
      <4>2. ~Free(s, V, op)
        BY <2>3, <3>1, FreeIs, Zenon
      <4> QED
        BY <4>1, <4>2
    <3>2. CASE op \notin V
      <4>1. \A at \in Calls(s, op) : s.calls[at].to \in N
        BY CalledOps, Zenon DEF Straight
      <4>2. \A at \in Calls(s, op) : build[V \union {op}][s.calls[at].to] =
              IF Free(s, V \union {op}, s.calls[at].to) THEN Paths(s, s.calls[at].to) ELSE {}
        BY <2>4, <3>2, <4>1, Zenon
      <4> QED
        BY <2>3, <4>2, NodeIs, Zenon
    <3> QED
      BY <3>1, <3>2
  <2> QED
    BY <1>0, <2>2, <2>3, <2>5, Zenon
<1>2. ASSUME NEW V \in SUBSET N PROVE Ok(V)
  <2>1. N \ (N \ V) = V /\ N \ V \in SUBSET N
    OBVIOUS
  <2> HIDE DEF Ok
  <2> QED
    BY <1>1, <2>1
<1> QED
  BY <1>2

(* In a graph without a cycle no search for one stops the plan builder,    *)
(* and the tree of an operation is the set of the paths from it.           *)
LEMMA OperationNodeIs ==
  ASSUME NEW s, Straight(s), NEW op \in Operations(s)
  PROVE  buildOperationNode(s, op) = Paths(s, op)
<1> DEFINE v == CHOOSE w : Building(s, w)
<1>1. Building(s, v)
  BY BuildingExists, Zenon
<1>2. buildOperationNode(s, op) = v[{}][op]
  BY Zenon DEF buildOperationNode, Building, Node, Behind
<1> HIDE DEF v
<1>3. {} \in SUBSET Operations(s) /\ Free(s, {}, op)
  BY DEF Free
<1> QED
  BY <1>1, <1>2, <1>3, BuildingUnique, Zenon

-----------------------------------------------------------------------------
(***************************************************************************)
(* What the chains of a tree invoke.                                       *)
(***************************************************************************)
\* The operation that makes the i-th call of a chain, and the one the n-th leads to.
From(s, op, c, i) == IF i = 1 THEN op ELSE s.calls[c[i - 1]].to
End(s, op, c, n) == IF n = 0 THEN op ELSE s.calls[c[n]].to

LEMMA PathCalls ==
  ASSUME NEW s, NEW op, NEW c \in Paths(s, op)
  PROVE  /\ c \in Seq(PrimaryCalls(s)) /\ Len(c) \in Nat /\ DOMAIN c = 1..Len(c)
         /\ \A i \in 1..Len(c) :
              /\ c[i] \in PrimaryCalls(s)
              /\ c[i][1] = From(s, op, c, i)
<1>1. c \in Seq(PrimaryCalls(s)) /\ \A i \in 1..Len(c) : c[i][1] = From(s, op, c, i)
  BY DEF Paths, From
<1> DEFINE E == PrimaryCalls(s)
<1> HIDE DEF E
<1>2. c \in Seq(E)
  BY <1>1 DEF E
<1>3. Len(c) \in Nat /\ DOMAIN c = 1..Len(c) /\ \A i \in 1..Len(c) : c[i] \in E
  BY <1>2, LenProperties, ElementOfSeq
<1> QED
  BY <1>1, <1>3 DEF E

LEMMA PathReach ==
  ASSUME NEW s, GraphWhole(s), NEW op, NEW c \in Paths(s, op), NEW j \in 1..Len(c), NEW i \in j..Len(c)
  PROVE  s.calls[c[i]].to \in ReachFrom(s, s.calls[c[j]].to)
<1> DEFINE N == Operations(s)
           A == PrimaryArcs(s)
           R == ReachOf(N, A, {s.calls[c[j]].to})
           n == Len(c)
           T == {m \in j..n : s.calls[c[m]].to \notin R}
<1>1. /\ n \in Nat
      /\ \A m \in 1..n : c[m] \in PrimaryCalls(s) /\ c[m][1] = From(s, op, c, m)
  BY PathCalls, Zenon
<1>2. /\ Arrows(N, A)
      /\ \A at \in PrimaryCalls(s) : s.calls[at].to \in N /\ <<at[1], s.calls[at].to>> \in A
  BY CallArrows, Zenon
<1>j. j \in 1..n /\ i \in j..n
  OBVIOUS
<1> HIDE DEF N, A, n, R
<1>3. ASSUME T # {} PROVE FALSE
  <2>1. PICK m \in T : \A l \in T : m <= l
    <3>1. T \subseteq Nat
      BY <1>1, <1>j
    <3> HIDE DEF T
    <3> QED
      BY <1>3, <3>1, LeastNat, Zenon
  <2>2. m \in 1..n /\ m \in j..n /\ s.calls[c[m]].to \notin R
    BY <1>1, <1>j, <2>1
  <2>3. m # j
    <3>1. s.calls[c[j]].to \in N
      BY <1>1, <1>2, <1>j, Zenon
    <3>2. s.calls[c[j]].to \in R
      BY <3>1, ReachStart, Zenon DEF R
    <3> QED
      BY <2>2, <3>2
  <2>4. m - 1 \in j..n /\ m # 1 /\ ~(m <= m - 1)
    BY <1>1, <1>j, <2>2, <2>3
  <2>5. s.calls[c[m - 1]].to \in R
    BY <2>1, <2>4
  <2> DEFINE a == <<c[m][1], s.calls[c[m]].to>>
  <2>6. a \in A /\ a[1] = s.calls[c[m - 1]].to /\ a[2] = s.calls[c[m]].to
    BY <1>1, <1>2, <2>2, <2>4 DEF From
  <2> HIDE DEF a
  <2>7. a[1] \in R
    BY <2>5, <2>6
  <2>8. a[2] \in R
    BY <1>2, <2>6, <2>7, ReachStep, Zenon DEF R
  <2> QED
    BY <2>2, <2>6, <2>8
<1> QED
  BY <1>3, <1>j DEF R, ReachFrom, N, A

LEMMA InvokedIs ==
  ASSUME NEW s, NEW op, NEW c \in Paths(s, op), NEW n, n = Len(c)
  PROVE  Invoked(s, op, c) = End(s, op, c, n)
<1>1. c \in Seq(PrimaryCalls(s))
  BY PathCalls, Zenon
<1>2. c = <<>> <=> n = 0
  BY <1>1, EmptySeq
<1>3. Invoked(s, op, c) = IF c = <<>> THEN op ELSE s.calls[c[n]].to
  BY Zenon DEF Invoked, Last
<1> QED
  BY <1>2, <1>3 DEF End

LEMMA InvokedReached ==
  ASSUME NEW s, GraphWhole(s), NEW op \in Operations(s), NEW c \in Paths(s, op)
  PROVE  Invoked(s, op, c) \in ReachFrom(s, op)
<1> DEFINE n == Len(c)
<1>1. n \in Nat /\ \A i \in 1..n : c[i] \in PrimaryCalls(s) /\ c[i][1] = From(s, op, c, i)
  BY PathCalls, Zenon
<1>2. Invoked(s, op, c) = End(s, op, c, n)
  BY InvokedIs, Zenon
<1>p. n # 0 => s.calls[c[n]].to \in ReachFrom(s, s.calls[c[1]].to)
  <2> HAVE n # 0
  <2>1. 1 \in 1..n /\ n \in 1..n
    <3> HIDE DEF n
    <3> QED
      BY <1>1
  <2> QED
    BY <2>1, PathReach, Zenon
<1> HIDE DEF n
<1>3. CASE n = 0
  BY <1>2, <1>3, ReachStart DEF ReachFrom, End
<1>4. CASE n # 0
  <2>1. c[1] \in PrimaryCalls(s) /\ c[1][1] = op
    BY <1>1, <1>4 DEF From
  <2>2. ReachFrom(s, s.calls[c[1]].to) \subseteq ReachFrom(s, op)
    BY <2>1, CallReach, Zenon
  <2> QED
    BY <1>2, <1>4, <1>p, <2>2 DEF End
<1> QED
  BY <1>3, <1>4

LEMMA PathLonger ==
  ASSUME NEW s, NEW op, NEW c \in Paths(s, op), NEW at \in PrimaryCalls(s), at[1] = Invoked(s, op, c)
  PROVE  Append(c, at) \in Paths(s, op) /\ Invoked(s, op, Append(c, at)) = s.calls[at].to
<1> DEFINE E == PrimaryCalls(s)
           n == Len(c)
           d == Append(c, at)
<1>1. /\ c \in Seq(E) /\ n \in Nat
      /\ \A i \in 1..n : c[i][1] = From(s, op, c, i)
  BY PathCalls, Zenon
<1>2. at[1] = End(s, op, c, n)
  BY InvokedIs, Zenon
<1>e. at \in E
  OBVIOUS
<1> HIDE DEF E
<1>3. d \in Seq(E) /\ Len(d) = n + 1 /\ (\A i \in 1..n : d[i] = c[i]) /\ d[n + 1] = at
  BY <1>1, <1>e, AppendProperties
<1> HIDE DEF n, d
<1>4. ASSUME NEW i \in 1..(n + 1) PROVE d[i][1] = From(s, op, d, i)
  <2>1. CASE i = n + 1
    <3>1. d[i][1] = at[1]
      BY <1>3, <2>1
    <3>2. n # 0 => i - 1 = n /\ n \in 1..n /\ i # 1
      BY <1>1, <2>1
    <3>3. n # 0 => d[i - 1] = c[n]
      BY <1>3, <3>2
    <3>4. n = 0 => i = 1
      BY <2>1
    <3> QED
      BY <1>2, <3>1, <3>2, <3>3, <3>4 DEF From, End
  <2>2. CASE i # n + 1
    <3>1. i \in 1..n /\ (i # 1 => i - 1 \in 1..n)
      BY <1>1, <2>2
    <3>2. d[i] = c[i] /\ (i # 1 => d[i - 1] = c[i - 1])
      BY <1>3, <3>1
    <3> QED
      BY <1>1, <3>1, <3>2 DEF From
  <2> QED
    BY <2>1, <2>2
<1>5. d \in Paths(s, op)
  <2>1. d \in Seq(E) /\ \A i \in 1..Len(d) : d[i][1] = From(s, op, d, i)
    BY <1>3, <1>4
  <2> QED
    BY <2>1 DEF Paths, E, From
<1>6. Invoked(s, op, d) = End(s, op, d, n + 1)
  <2>1. n + 1 = Len(d)
    BY <1>3
  <2> QED
    BY <1>5, <2>1, InvokedIs, Zenon
<1> QED
  <2>1. n + 1 # 0
    BY <1>1
  <2> QED
    BY <1>3, <1>5, <1>6, <2>1, Zenon DEF d, End

(* A tree invokes what can be reached from its operation, and no other.    *)
LEMMA InvokedAll ==
  ASSUME NEW s, GraphWhole(s), NEW op \in Operations(s)
  PROVE  {Invoked(s, op, c) : c \in Paths(s, op)} = ReachFrom(s, op)
<1> DEFINE S == {Invoked(s, op, c) : c \in Paths(s, op)}
           N == Operations(s)
           A == PrimaryArcs(s)
<1>1. S \subseteq ReachFrom(s, op)
  BY InvokedReached
<1>2. ReachFrom(s, op) \subseteq N
  BY ReachNodes, Zenon DEF ReachFrom
<1>3. op \in S
  <2>1. <<>> \in Paths(s, op) /\ Invoked(s, op, <<>>) = op
    BY PathEmpty, Zenon DEF Invoked
  <2> QED
    BY <2>1
<1>4. ASSUME NEW a \in A, a[1] \in S PROVE a[2] \in S
  <2>1. PICK c \in Paths(s, op) : a[1] = Invoked(s, op, c)
    BY <1>4
  <2>2. PICK at \in PrimaryCalls(s) : a[1] = at[1] /\ a[2] = s.calls[at].to
    BY CallArrows, Zenon
  <2>3. at[1] = Invoked(s, op, c)
    BY <2>1, <2>2
  <2>4. Append(c, at) \in Paths(s, op) /\ Invoked(s, op, Append(c, at)) = a[2]
    BY <2>2, <2>3, PathLonger
  <2> QED
    BY <2>4
<1>5. S \subseteq N /\ {op} \subseteq S
  BY <1>1, <1>2, <1>3
<1> HIDE DEF S
<1>6. ReachOf(N, A, {op}) \subseteq S
  BY <1>4, <1>5, ReachLeast, Zenon
<1> QED
  BY <1>1, <1>6, Zenon DEF S, ReachFrom

(* Every edge of a chain is one of the operation invoked before, and leads *)
(* to none that was on the way.                                            *)
LEMMA PathStraight ==
  ASSUME NEW s, Straight(s), NEW op, NEW c \in Paths(s, op), NEW i \in DOMAIN c
  PROVE  /\ c[i][1] = Invoked(s, op, SubSeq(c, 1, i - 1))
         /\ \A j \in 1..i : s.calls[c[i]].to # c[j][1]
<1> DEFINE E == PrimaryCalls(s)
           n == Len(c)
           d == SubSeq(c, 1, i - 1)
<1>1. /\ c \in Seq(E) /\ n \in Nat /\ DOMAIN c = 1..n
      /\ \A m \in 1..n : c[m] \in E /\ c[m][1] = From(s, op, c, m)
  BY PathCalls, Zenon
<1>s. ASSUME NEW j \in 1..i PROVE s.calls[c[i]].to \in ReachFrom(s, s.calls[c[j]].to) /\ c[j] \in E
  <2>1. j \in 1..n /\ i \in j..n
    <3> HIDE DEF n
    <3> QED
      BY <1>1
  <2> QED
    BY <1>1, <2>1, PathReach, Zenon DEF Straight
<1>2. ASSUME NEW j \in 1..i, s.calls[c[i]].to = c[j][1] PROVE FALSE
  <2>1. c[j] \in E /\ c[j][1] \in ReachFrom(s, s.calls[c[j]].to)
    BY <1>s, <1>2
  <2> QED
    BY <2>1, NoWayBack
<1>i. i \in 1..n
  BY <1>1
<1> HIDE DEF E, n
<1>3. \A m \in 1..(i - 1) : c[m] \in E
  BY <1>1, <1>i
<1>4. i - 1 \in Int
  BY <1>i
<1>5. /\ d \in Seq(E) /\ Len(d) = IF 1 <= i - 1 THEN (i - 1) - 1 + 1 ELSE 0
      /\ \A m \in 1..((i - 1) - 1 + 1) : d[m] = c[1 + m - 1]
  BY <1>3, <1>4, SubSeqProperties
<1> HIDE DEF d
<1>6. Len(d) = i - 1 /\ (i # 1 => d[i - 1] = c[i - 1])
  <2>1. Len(d) = i - 1
    BY <1>5, <1>i, <1>1
  <2>2. i # 1 => i - 1 \in 1..((i - 1) - 1 + 1) /\ 1 + (i - 1) - 1 = i - 1
    BY <1>i, <1>1
  <2> QED
    BY <1>5, <2>1, <2>2
<1>7. Invoked(s, op, d) = From(s, op, c, i)
  <2>1. d = <<>> <=> i = 1
    BY <1>5, <1>6, <1>i, EmptySeq
  <2>2. Invoked(s, op, d) = IF d = <<>> THEN op ELSE s.calls[d[Len(d)]].to
    BY Zenon DEF Invoked, Last
  <2> QED
    BY <1>6, <2>1, <2>2 DEF From
<1> QED
  BY <1>1, <1>2, <1>7, <1>i DEF d

-----------------------------------------------------------------------------
(***************************************************************************)
(* NewEngine: the journeys of an accepted schema have steps, and their     *)
(* operations no cycle.                                                    *)
(***************************************************************************)
LEMMA JourneysChecked ==
  ASSUME NEW s, Validate(s) = {}, NEW name \in DOMAIN s.journeys
  PROVE  \E k \in DOMAIN s.steps : k[1] = name
<1> DEFINE E(x) == JourneyErrors(s, x)
           U == UNION {E(x) : x \in DOMAIN s.journeys}
<1>1. DomainErrors(s) \subseteq Validate(s)
  <2> DEFINE D == DomainErrors(s)
             a == \A id \in DOMAIN s.services : s.services[id].name = id
             b == BackPointers(s)
             c == NoOrphans(s)
             d == Unvisited(s) = {}
             e == StepsReachable(s)
             f == \A x \in ToSet(s.faults) : TargetFound(s, x.target)
             g == CallVariants(s)
             h == FallbacksOwned(s)
             rules == [R_STR_1 |-> a, R_STR_2 |-> b, R_STR_3 |-> c, R_STR_4 |-> d,
                       R_STR_5 |-> e, R_STR_6 |-> f, R_STR_7 |-> g, R_STR_8 |-> h]
             broken == {r \in DOMAIN rules : ~rules[r]}
  <2>1. Validate(s) = broken \union D
    BY Zenon DEF Validate
  <2> HIDE DEF broken
  <2> QED
    BY <2>1
<1>2. U \subseteq DomainErrors(s)
  <2> DEFINE a == IF DOMAIN s.services = {} THEN {"D_13"} ELSE {}
             b == IF DOMAIN s.journeys = {} THEN {"D_14"} ELSE {}
             c == UNION {ServiceErrors(s.services[id]) : id \in DOMAIN s.services}
             d == UNION {EdgeErrors(s.calls[at]) : at \in AllEdges(s)}
             f == UNION {FaultErrors(x) : x \in ToSet(s.faults)}
  <2>1. DomainErrors(s) = a \union b \union c \union d \union U \union f
    BY Zenon DEF DomainErrors
  <2> HIDE DEF a, b, c, d, U, f
  <2> QED
    BY <2>1
<1>3. "D_11" \notin E(name)
  <2> HIDE DEF E
  <2>1. E(name) \subseteq U
    OBVIOUS
  <2> HIDE DEF U
  <2> QED
    BY <1>1, <1>2, <2>1
<1> QED
  BY <1>3 DEF JourneyErrors

LEMMA JourneySteps ==
  ASSUME NEW raw, Sound(raw), NEW s, s = Resolve(raw).schema, Validate(s) = {}, NEW name \in DOMAIN s.journeys
  PROVE  /\ Steps(s, name) # {}
         /\ \A k \in Steps(s, name) : s.steps[k].op \in Operations(s)
<1> DEFINE C == WithCalls(raw)
<1>1. s.services = C.services /\ s.steps = StepsKept(raw, DOMAIN raw.steps)
  BY SchemaIs
<1>2. Operations(s) = Operations(C)
  BY <1>1, Zenon DEF Operations
<1> HIDE DEF C
<1>3. DOMAIN s.steps = DOMAIN raw.steps /\ \A k \in DOMAIN raw.steps : s.steps[k] = resolveStep(raw.steps, k)
  BY <1>1 DEF StepsKept
<1>4. ASSUME NEW k \in DOMAIN raw.steps
      PROVE  /\ s.steps[k].op # Nil => s.steps[k].op \in Operations(s)
             /\ s.steps[k].op = Nil => HasMembers(raw.steps, k)
  <2>1. LET op == resolveStep(raw.steps, k).op
        IN (op # Nil => op \in Operations(C)) /\ (op = Nil => HasMembers(raw.steps, k))
    BY StepPointers DEF C
  <2> QED
    BY <1>2, <1>3, <2>1, Zenon
<1>5. IsFiniteSet(DOMAIN raw.steps) /\ \A k \in DOMAIN raw.steps : Len(k[2]) \in Nat
  <2>1. Trees(raw.steps, "step")
    BY Zenon DEF Sound, RawSchema, RawSteps
  <2>2. \A k \in DOMAIN raw.steps : Len(k[2]) \in Nat
    BY <2>1, KeyLengths
  <2> QED
    BY <2>1, <2>2, Zenon DEF Trees
\* A node on the lowest level of the journey has no members.
<1>6. \E k \in DOMAIN raw.steps : k[1] = name /\ ~HasMembers(raw.steps, k)
  <2> DEFINE D == DOMAIN raw.steps
             J == {k \in D : k[1] = name}
             Lower(k) == {l \in J : Len(l[2]) > Len(k[2])}
             W == {Lower(k) : k \in J}
  <2>1. J # {}
    BY <1>3, JourneysChecked
  <2>2. PICK x \in W : \A y \in W : y \subseteq x => y = x
    <3>1. W # {} /\ W \subseteq SUBSET D
      <4>1. \A l : Lower(l) \in SUBSET D
        OBVIOUS
      <4> HIDE DEF Lower
      <4> QED
        BY <2>1, <4>1
    <3> HIDE DEF W, D
    <3> QED
      BY <1>5, <3>1, LeastSubset DEF D
  <2>3. PICK k \in J : x = Lower(k)
    BY <2>2
  <2>4. ASSUME HasMembers(raw.steps, k) PROVE FALSE
    <3>1. PICK l \in D : Parent(k, l)
      BY <2>4, Zenon DEF HasMembers
    <3>2. l[1] = k[1] /\ Len(l[2]) = Len(k[2]) + 1
      BY <3>1, Zenon DEF Parent, Above
    <3>3. l \in J /\ Len(k[2]) \in Nat /\ Len(l[2]) \in Nat
      BY <1>5, <2>3, <3>2
    <3>4. l \in Lower(k) /\ l \notin Lower(l) /\ Lower(l) \subseteq Lower(k)
      BY <1>5, <3>2, <3>3
    <3>5. Lower(l) \in W
      BY <3>3
    <3> HIDE DEF W, Lower
    <3> QED
      BY <2>2, <2>3, <3>4, <3>5
  <2> QED
    BY <2>3, <2>4
<1>7. PICK k \in DOMAIN raw.steps : k[1] = name /\ ~HasMembers(raw.steps, k)
  BY <1>6
<1>8. k \in Steps(s, name)
  BY <1>3, <1>4, <1>7 DEF Steps
<1>9. \A l \in Steps(s, name) : l \in DOMAIN raw.steps /\ s.steps[l].op # Nil
  BY <1>3 DEF Steps
<1> QED
  BY <1>4, <1>8, <1>9

LEMMA AcceptedStraight ==
  ASSUME NEW raw, Sound(raw), NEW s, s = Resolve(raw).schema, Validate(s) = {}
  PROVE  Straight(s)
<1> DEFINE N == Operations(s)
           A == PrimaryArcs(s)
           B == Arcs(s, AllEdges(s))
<1>1. GraphWhole(s)
  BY SoundGraph, Zenon
<1>2. Unvisited(s) = {}
  <2>1. "R_STR_4" \notin Validate(s)
    OBVIOUS
  <2> QED
    BY <2>1, RulesAre, Zenon
<1>3. ~Loops(N, B)
  BY <1>1, <1>2, UnvisitedLoops, CyclicIs, Zenon
<1>4. A \subseteq B
  <2>1. PrimaryCalls(s) \subseteq AllEdges(s)
    <3>1. AllEdges(s) = PrimaryCalls(s) \union FallbackCalls(s)
      BY <1>1, EdgesAre, Zenon
    <3> QED
      BY <3>1
  <2> QED
    BY <2>1 DEF PrimaryArcs, Arcs
<1> HIDE DEF N, A, B
<1>5. \A from : ReachOf(N, A, from) \subseteq ReachOf(N, B, from)
  BY <1>4, ReachMore, Zenon
<1>6. ~Loops(N, A)
  BY <1>3, <1>4, <1>5 DEF Loops
<1> QED
  BY <1>1, <1>6, Zenon DEF Straight, N, A

LEMMA PlanIs ==
  ASSUME NEW s, Straight(s), NEW name, \A k \in Steps(s, name) : s.steps[k].op \in Operations(s)
  PROVE  buildPlan(s, name) = [k \in Steps(s, name) |-> Paths(s, s.steps[k].op)]
<1> DEFINE trees == [k \in Steps(s, name) |-> buildOperationNode(s, s.steps[k].op)]
<1>1. buildPlan(s, name) = IF {} \in {trees[k] : k \in DOMAIN trees} THEN <<>> ELSE trees
  BY Zenon DEF buildPlan
<1>2. \A k \in Steps(s, name) : buildOperationNode(s, s.steps[k].op) = Paths(s, s.steps[k].op)
  BY OperationNodeIs, Zenon
<1>3. \A k \in Steps(s, name) : Paths(s, s.steps[k].op) # {}
  BY PathEmpty
<1>4. \A k \in DOMAIN trees : trees[k] # {}
  BY <1>2, <1>3
<1>5. trees = [k \in Steps(s, name) |-> Paths(s, s.steps[k].op)]
  BY <1>2
<1> HIDE DEF trees
<1> QED
  BY <1>1, <1>4, <1>5

LEMMA EngineIs ==
  ASSUME Answers, engine # Nil
  PROVE  LET s == loaded.schema
         IN /\ Straight(s) /\ DOMAIN engine = DOMAIN s.journeys
            /\ \A name \in DOMAIN engine :
                 /\ Steps(s, name) # {}
                 /\ \A k \in Steps(s, name) : s.steps[k].op \in Operations(s)
                 /\ engine[name] = [k \in Steps(s, name) |-> Paths(s, s.steps[k].op)]
<1> DEFINE s == loaded.schema
<1>1. Accepted /\ engine = NewEngine(s)
  BY Zenon DEF Answers
<1>2. Sound(doc.raw) /\ s = Resolve(doc.raw).schema /\ Validate(s) = {}
  BY <1>1, AcceptedSound
<1> HIDE DEF s
<1>3. Straight(s)
  BY <1>2, AcceptedStraight, Zenon
<1>4. DOMAIN engine = DOMAIN s.journeys /\ \A name \in DOMAIN s.journeys : engine[name] = buildPlan(s, name)
  BY <1>1 DEF NewEngine
<1>5. \A name \in DOMAIN s.journeys :
        /\ Steps(s, name) # {}
        /\ \A k \in Steps(s, name) : s.steps[k].op \in Operations(s)
  BY <1>2, JourneySteps, Zenon
<1>6. \A name \in DOMAIN s.journeys : buildPlan(s, name) = [k \in Steps(s, name) |-> Paths(s, s.steps[k].op)]
  BY <1>3, <1>5, PlanIs, Zenon
<1> QED
  BY <1>3, <1>4, <1>5, <1>6, Zenon DEF s

LEMMA EngineAlways == Answers => EngineBuilds
<1> SUFFICES ASSUME Answers, engine # Nil, NEW name \in DOMAIN engine
             PROVE  DOMAIN engine[name] # {}
  BY Zenon DEF EngineBuilds
<1> DEFINE s == loaded.schema
<1>1. Steps(s, name) # {} /\ engine[name] = [k \in Steps(s, name) |-> Paths(s, s.steps[k].op)]
  BY EngineIs, Zenon
<1> HIDE DEF s
<1> QED
  BY <1>1

LEMMA PlanAlways == Answers => PlanComplete
<1> DEFINE s == loaded.schema
           op(k) == s.steps[k].op
<1> SUFFICES ASSUME Answers, engine # Nil, NEW name \in DOMAIN engine, NEW k \in DOMAIN engine[name]
             PROVE  /\ {Invoked(s, op(k), c) : c \in engine[name][k]} = Reach(s, Arcs(s, PrimaryCalls(s)), {op(k)})
                    /\ \A c \in engine[name][k] : \A i \in DOMAIN c :
                         /\ c[i][1] = Invoked(s, op(k), SubSeq(c, 1, i - 1))
                         /\ \A j \in 1..i : s.calls[c[i]].to # c[j][1]
  BY Zenon DEF PlanComplete
<1>1. /\ Straight(s)
      /\ \A l \in Steps(s, name) : s.steps[l].op \in Operations(s)
      /\ engine[name] = [l \in Steps(s, name) |-> Paths(s, s.steps[l].op)]
  BY EngineIs, Zenon
<1> HIDE DEF s
<1>2. op(k) \in Operations(s) /\ engine[name][k] = Paths(s, op(k))
  BY <1>1
<1> HIDE DEF op
<1>3. Reach(s, Arcs(s, PrimaryCalls(s)), {op(k)}) = ReachFrom(s, op(k))
  BY Zenon DEF Reach, ReachOf, ReachFrom, PrimaryArcs
<1>4. {Invoked(s, op(k), c) : c \in Paths(s, op(k))} = ReachFrom(s, op(k))
  BY <1>1, <1>2, InvokedAll, Zenon DEF Straight
<1>5. \A c \in Paths(s, op(k)) : \A i \in DOMAIN c :
        /\ c[i][1] = Invoked(s, op(k), SubSeq(c, 1, i - 1))
        /\ \A j \in 1..i : s.calls[c[i]].to # c[j][1]
  BY <1>1, PathStraight
<1> QED
  BY <1>2, <1>3, <1>4, <1>5, Zenon

(* For every document whose references are sound, validateDAG reports a    *)
(* cycle exactly if an operation can reach itself; and of every schema     *)
(* Parse accepts, NewEngine builds the plan of every journey, in which     *)
(* buildPlan invokes all that can be reached from the steps, and nothing   *)
(* on the way to itself.                                                   *)
THEOREM GraphsServedCorrect == Spec => []GraphsServed
<1>1. Answers => GraphsServed
  BY CyclesAlways, EngineAlways, PlanAlways, Zenon DEF GraphsServed
<1> QED
  BY <1>1, AnswersAlways, PTL

-----------------------------------------------------------------------------
(***************************************************************************)
(* The way back: a key that is left out is read as the value it had, and   *)
(* what is written of a part can be decoded.  First the values.            *)
(***************************************************************************)
LEMMA OrAgain ==
  ASSUME NEW v, NEW default, default # Nil, NEW x, x = Or(v, default)
  PROVE  x # Nil /\ Or(Unless(x, default), default) = x /\ Or(x, default) = x
BY DEF Or, Unless

LEMMA OrTextAgain ==
  ASSUME NEW v, NEW default, default # "", NEW x, x = OrText(v, default)
  PROVE  x # "" /\ OrText(UnlessText(x, default), default) = x
BY DEF OrText, UnlessText

LEMMA NumbersApart == 0 # Nil /\ 0 # NaN /\ 1 # Nil /\ 10 # Nil /\ 100 # Nil
BY NilApart

LEMMA OrNumber ==
  ASSUME NEW v \in Opt(Number), NEW default \in Int, NEW x, x = Or(v, default)
  PROVE  x \in Number /\ Unless(x, default) \in Opt(Number)
BY DEF Or, Opt, Number, Unless

LEMMA OrInt ==
  ASSUME NEW v \in Opt(Int), NEW default \in Int, NEW x, x = Or(v, default)
  PROVE  x \in Int /\ Unless(x, default) \in Opt(Int)
BY DEF Or, Opt, Unless

(* The tokens of an enumeration are spelled as the parsers expect them.    *)
LEMMA SpelledLiteral ==
  ASSUME NEW x \in Literals
  PROVE  Spelled(x) = x /\ x # "warning"
<1>1. x # " HTTP" /\ x # "Crash" /\ x # "WARNING" /\ x # "warning"
  BY DEF Literals, ServiceKinds, Protocols, Backoffs, FaultKinds, Exhausted, Conditions, Severities,
         SyncMetrics, ObservableMetrics, Distributions
<1> QED
  BY <1>1 DEF Spelled

Enumeration(values) == values \subseteq Literals /\ "" \notin values /\ "unknown" \notin values

LEMMA Enumerations ==
  /\ Enumeration(ServiceKinds) /\ Enumeration(Protocols) /\ Enumeration(Backoffs)
  /\ Enumeration(FaultKinds) /\ Enumeration(Exhausted) /\ Enumeration(Conditions)
  /\ Enumeration(Severities) /\ Enumeration(AnyMetric)
<1>1. \A V \in {ServiceKinds, Protocols, Backoffs, FaultKinds, Exhausted, Conditions, Severities,
                SyncMetrics, ObservableMetrics} : V \subseteq Literals
  BY DEF Literals
<1>2. AnyMetric \subseteq Literals
  BY <1>1 DEF AnyMetric
<1>3. \A V \in {ServiceKinds, Protocols, Backoffs, FaultKinds, Exhausted, Conditions, Severities,
                SyncMetrics, ObservableMetrics} : "" \notin V /\ "unknown" \notin V
  BY DEF ServiceKinds, Protocols, Backoffs, FaultKinds, Exhausted, Conditions, Severities,
         SyncMetrics, ObservableMetrics
<1>4. "" \notin AnyMetric /\ "unknown" \notin AnyMetric
  BY <1>3 DEF AnyMetric
<1> QED
  BY <1>1, <1>2, <1>3, <1>4 DEF Enumeration

ReadAgain(v, default, values) ==
  /\ v \in Strings /\ v \in Literals /\ v # "" /\ v # Nil
  /\ Enum(v, default, values) = v
  /\ Enum(UnlessText(v, default), default, values) = v
  /\ UnlessText(v, default) \in Strings /\ UnlessText(v, default) \in Literals

LEMMA EnumAgain ==
  ASSUME NEW values, Enumeration(values), NEW default, default \in values \union {""}, NEW txt
  PROVE  ReadAgain(Enum(txt, default, values), default, values)
<1> DEFINE v == Enum(txt, default, values)
<1>1. v \in values \/ v = "unknown"
  BY DEF Enum
<1> HIDE DEF v
<1>2. "unknown" \in Literals /\ "" \in Literals
  BY DEF Literals
<1>3. v \in Literals /\ v # "" /\ UnlessText(v, default) \in Literals
  BY <1>1, <1>2 DEF Enumeration, UnlessText
<1>4. v \in Strings /\ UnlessText(v, default) \in Strings
  BY <1>3, LiteralStrings, Zenon
<1>5. Spelled(v) = v /\ Spelled("") = ""
  BY <1>2, <1>3, SpelledLiteral, Zenon
<1>6. Enum(v, default, values) = v
  BY <1>1, <1>3, <1>5 DEF Enum, OrText, Enumeration
<1>7. Enum(UnlessText(v, default), default, values) = v
  <2>1. CASE v = default
    <3>1. default \in values
      BY <1>3, <2>1
    <3>2. UnlessText(v, default) = ""
      BY <2>1 DEF UnlessText
    <3> QED
      BY <1>5, <2>1, <3>1, <3>2 DEF Enum, OrText
  <2>2. CASE v # default
    BY <1>6, <2>2 DEF UnlessText
  <2> QED
    BY <2>1, <2>2
<1>8. v # Nil
  BY <1>4, NilApart
<1>9. ReadAgain(v, default, values)
  BY <1>3, <1>4, <1>6, <1>7, <1>8, Zenon DEF ReadAgain
<1> QED
  BY <1>9, Zenon DEF v

(* Of one whose zero value is no token.                                    *)
LEMMA KindAgain ==
  ASSUME NEW values, Enumeration(values), NEW txt, NEW v, v = Enum(txt, "", values)
  PROVE  v \in Strings /\ v # Nil /\ Enum(v, "", values) = v
<1>1. "" \in values \union {""}
  OBVIOUS
<1>2. ReadAgain(v, "", values)
  BY <1>1, EnumAgain, Zenon
<1> QED
  BY <1>2, Zenon DEF ReadAgain

LEMMA ConditionAgain ==
  ASSUME NEW txt, NEW v, v = Enum(txt, "always", Conditions)
  PROVE  /\ UnlessText(v, "always") \in Strings
         /\ Enum(UnlessText(v, "always"), "always", Conditions) = v
<1>1. "always" \in Conditions \union {""}
  BY DEF Conditions
<1>2. Enumeration(Conditions)
  BY Enumerations, Zenon
<1>3. ReadAgain(v, "always", Conditions)
  BY <1>1, <1>2, EnumAgain, Zenon
<1> QED
  BY <1>3, Zenon DEF ReadAgain

LEMMA SeverityAgain ==
  ASSUME NEW txt, NEW v, v = Severity(txt)
  PROVE  UnlessText(v, "info") \in Strings /\ Severity(UnlessText(v, "info")) = v
<1> DEFINE given == IF Spelled(txt) = "warning" THEN "warn" ELSE txt
           w == UnlessText(v, "info")
<1>1. v = Enum(given, "info", Severities)
  BY DEF Severity
<1>2. "info" \in Severities \union {""}
  BY DEF Severities
<1> HIDE DEF given
<1>3. w \in Strings /\ w \in Literals /\ Enum(w, "info", Severities) = v
  <2>1. Enumeration(Severities)
    BY Enumerations, Zenon
  <2>2. ReadAgain(v, "info", Severities)
    BY <1>1, <1>2, <2>1, EnumAgain, Zenon
  <2> QED
    BY <2>2, Zenon DEF ReadAgain
<1> HIDE DEF w
<1>4. Spelled(w) # "warning"
  BY <1>3, SpelledLiteral
<1>5. Severity(w) = v
  BY <1>3, <1>4 DEF Severity
<1> QED
  BY <1>3, <1>5 DEF w

-----------------------------------------------------------------------------
(* Links: all but a delta beside a value.                                  *)
DeltaWritten(link) == link # Nil /\ link.hasValue => link.delta = 0

LEMMA LinkAgain ==
  ASSUME NEW raw \in Opt(RawLink), NEW x, x = Link(raw), LinkErrors(x) = {},
         NEW w, w = marshalMetricFaultLink(x), NEW y, y = Link(w)
  PROVE  /\ w \in Opt(RawLink) /\ LinkErrors(y) = {}
         /\ DeltaWritten(x) => y = x
<1>1. CASE x = Nil
  <2>1. w = Nil
    BY <1>1 DEF marshalMetricFaultLink
  <2>2. y = Nil
    BY <2>1 DEF Link
  <2> QED
    BY <1>1, <2>1, <2>2 DEF Opt
<1>2. CASE x # Nil
  <2> DEFINE k == Enum(raw.kind, "", FaultKinds)
             d == Or(raw.delta, 0)
             v == Or(raw.value, 0)
             h == raw.value # Nil
             wd == IF h THEN Nil ELSE Unless(d, 0)
             wv == IF h THEN v ELSE Nil
             yd == Or(wd, 0)
             yv == Or(wv, 0)
  <2>1. raw \in RawLink /\ raw # Nil
    BY <1>2 DEF Link, Opt
  <2>2. x = [kind |-> k, delta |-> d, value |-> v, hasValue |-> h]
    BY <2>1, Zenon DEF Link
  <2>3. raw.delta \in Opt(Number) /\ raw.value \in Opt(Number)
    BY <2>1 DEF RawLink
  <2>4. k \in Strings /\ Enum(k, "", FaultKinds) = k
    <3>1. Enumeration(FaultKinds)
      BY Enumerations, Zenon
    <3> QED
      BY <3>1, KindAgain, Zenon
  <2>5. d \in Number /\ Unless(d, 0) \in Opt(Number) /\ v \in Number /\ v # Nil /\ d # Nil
    BY <2>3, OrNumber, OrAgain, NumbersApart
  <2>6. Or(Unless(d, 0), 0) = d /\ Or(v, 0) = v /\ Or(Nil, 0) = 0
    BY OrAgain, NumbersApart DEF Or
  <2>7. ~h => v = 0
    BY DEF Or
  <2>8. h \in BOOLEAN
    OBVIOUS
  <2> HIDE DEF k, d, v, h
  <2>9. w = [kind |-> k, delta |-> wd, value |-> wv]
    BY <1>2, <2>2 DEF marshalMetricFaultLink
  <2>10. wd \in Opt(Number) /\ wv \in Opt(Number)
    BY <2>5 DEF Opt
  <2>11. wv # Nil <=> h
    BY <2>5, <2>8
  <2>12. yd = IF h THEN 0 ELSE d
    BY <2>6, <2>8
  <2>13. yv = v
    BY <2>6, <2>7, <2>8
  <2> HIDE DEF wd, wv
  <2>14. w \in RawLink
    <3>1. k \in Strings
      BY <2>4
    <3> QED
      BY <2>9, <2>10, <3>1 DEF RawLink
  <2>15. w # Nil
    BY <2>14, NilApart
  <2> HIDE DEF yd, yv
  <2>16. y = [kind |-> k, delta |-> yd, value |-> yv, hasValue |-> h]
    <3>1. w.kind = k /\ w.delta = wd /\ w.value = wv
      BY <2>9
    <3>2. y = [kind |-> Enum(w.kind, "", FaultKinds), delta |-> Or(w.delta, 0), value |-> Or(w.value, 0),
               hasValue |-> w.value # Nil]
      BY <2>15, Zenon DEF Link
    <3>3. (w.value # Nil) = h
      BY <2>8, <2>11, <3>1
    <3> QED
      BY <2>4, <3>1, <3>2, <3>3, Zenon DEF yd, yv
  <2>17. k \in FaultKinds /\ Finite(d) /\ (h => Finite(v))
    BY <1>2, <2>2 DEF LinkErrors
  <2>18. LinkErrors(y) = {}
    <3>1. Finite(yd)
      BY <2>8, <2>12, <2>17, NumbersApart DEF Finite
    <3>2. y.kind \in FaultKinds /\ Finite(y.delta) /\ (y.hasValue => Finite(y.value))
      BY <2>13, <2>16, <2>17, <3>1
    <3> QED
      BY <3>2 DEF LinkErrors
  <2>19. ASSUME DeltaWritten(x) PROVE y = x
    <3>1. h => d = 0
      BY <1>2, <2>2, <2>19 DEF DeltaWritten
    <3>2. yd = d
      BY <2>8, <2>12, <3>1
    <3> QED
      BY <2>2, <2>13, <2>16, <3>2
  <2> QED
    BY <2>14, <2>18, <2>19 DEF Opt
<1> QED
  BY <1>1, <1>2

-----------------------------------------------------------------------------
(* Log events, metrics, updates of state, profiles.                        *)

(* A map that keeps what it holds when it is written.                      *)
MapWritten(m) == m # Empty /\ Reread[m] = m

LEMMA MapAgain ==
  ASSUME NEW m \in Attributes
  PROVE  marshalMap(m) \in Attributes /\ (MapWritten(m) => marshalMap(m) = m)
BY MapsRead DEF marshalMap, MapWritten

LEMMA EventAgain ==
  ASSUME NEW raw \in RawLogEvent, NEW x, x = LogEvent(raw), NEW w, w = marshalLogEvent(x)
  PROVE  /\ w \in RawLogEvent /\ EventErrors(LogEvent(w)) = EventErrors(x)
         /\ MapWritten(x.attributes) => LogEvent(w) = x
<1> DEFINE sev == Severity(raw.severity)
           cond == Enum(raw.condition, "always", Conditions)
           wsev == UnlessText(sev, "info")
           wcond == UnlessText(cond, "always")
           map == raw.attributes
           wmap == marshalMap(map)
<1>1. raw.name \in Name /\ raw.rest \in Rest /\ map \in Attributes
  BY DEF RawLogEvent
<1>2. wsev \in Strings /\ Severity(wsev) = sev
  BY SeverityAgain, Zenon
<1>3. wcond \in Strings /\ Enum(wcond, "always", Conditions) = cond
  BY ConditionAgain, Zenon
<1>4. x = [name |-> raw.name, severity |-> sev, condition |-> cond, rest |-> raw.rest, attributes |-> map]
  BY Zenon DEF LogEvent
<1> HIDE DEF sev, cond, map
<1>5. w = [name |-> raw.name, severity |-> wsev, condition |-> wcond, rest |-> raw.rest, attributes |-> wmap]
  BY <1>4 DEF marshalLogEvent
<1>5a. wmap \in Attributes /\ (MapWritten(map) => wmap = map)
  BY <1>1, MapAgain
<1> HIDE DEF wsev, wcond, wmap
<1>6. wsev \in Strings /\ wcond \in Strings /\ wmap \in Attributes
  BY <1>2, <1>3, <1>5a
<1>7. w \in RawLogEvent
  BY <1>1, <1>5, <1>6 DEF RawLogEvent
<1>8. LogEvent(w) = [name |-> w.name, severity |-> Severity(w.severity),
                     condition |-> Enum(w.condition, "always", Conditions), rest |-> w.rest,
                     attributes |-> w.attributes]
  BY Zenon DEF LogEvent
<1>9. /\ w.name = raw.name /\ w.severity = wsev /\ w.condition = wcond /\ w.rest = raw.rest
      /\ w.attributes = wmap
  BY <1>5
<1>9a. EventErrors(LogEvent(w)) = EventErrors(x)
  <2> DEFINE y == LogEvent(w)
  <2>1. y = [name |-> raw.name, severity |-> sev, condition |-> cond, rest |-> raw.rest, attributes |-> wmap]
    BY <1>2, <1>3, <1>8, <1>9, Zenon
  <2> HIDE DEF y
  <2>2. y.name = x.name /\ y.severity = x.severity /\ y.condition = x.condition
    BY <1>4, <2>1
  <2>3. EventErrors(y) = EventErrors(x)
    BY <2>2, Zenon DEF EventErrors
  <2> QED
    BY <2>3 DEF y
<1>10. ASSUME MapWritten(x.attributes) PROVE LogEvent(w) = x
  <2>1. x.attributes = map
    BY <1>4
  <2>2. wmap = map
    BY <1>5a, <1>10, <2>1
  <2> QED
    BY <1>2, <1>3, <1>4, <1>8, <1>9, <2>2, Zenon
<1> QED
  BY <1>7, <1>9a, <1>10

LEMMA EventsAgain ==
  ASSUME NEW list \in SUBSET Opt(RawLogEvent), NEW X, X = LogEvents(list),
         \A x \in X : EventErrors(x) = {}, NEW W, W = {marshalLogEvent(x) : x \in X}
  PROVE  /\ W \in SUBSET Opt(RawLogEvent) /\ \A y \in LogEvents(W) : EventErrors(y) = {}
         /\ (\A x \in X : MapWritten(x.attributes)) => LogEvents(W) = X
<1>1. \A x \in X : /\ marshalLogEvent(x) \in RawLogEvent
                   /\ EventErrors(LogEvent(marshalLogEvent(x))) = {}
                   /\ MapWritten(x.attributes) => LogEvent(marshalLogEvent(x)) = x
  <2> TAKE x \in X
  <2>1. PICK raw \in list \ {Nil} : x = LogEvent(raw)
    BY DEF LogEvents
  <2>2. raw \in RawLogEvent
    BY DEF Opt
  <2>3. EventErrors(x) = {}
    OBVIOUS
  <2> DEFINE w == marshalLogEvent(x)
  <2>4. /\ w \in RawLogEvent /\ EventErrors(LogEvent(w)) = EventErrors(x)
        /\ MapWritten(x.attributes) => LogEvent(w) = x
    BY <2>1, <2>2, EventAgain, Zenon
  <2> QED
    BY <2>3, <2>4, Zenon
<1>2. \A w \in W : w # Nil /\ w \in RawLogEvent
  BY <1>1, NilApart
<1>3. LogEvents(W) = {LogEvent(w) : w \in W}
  <2>1. W \ {Nil} = W
    BY <1>2
  <2> QED
    BY <2>1, Zenon DEF LogEvents
<1>4. (\A x \in X : MapWritten(x.attributes)) => {LogEvent(w) : w \in W} = X
  BY <1>1
<1>5. \A y \in LogEvents(W) : EventErrors(y) = {}
  BY <1>1, <1>3
<1> QED
  BY <1>2, <1>3, <1>4, <1>5 DEF Opt

(* The parts of a metric that can be left out differently.                 *)
MetricWritten(x) == DeltaWritten(x.whenFault) /\ MapWritten(x.attributes)

(* A metric of an operation.                                               *)
LEMMA MetricAgain ==
  ASSUME NEW raw \in RawMetric, NEW x, x = Metric(raw), MetricErrors(x) = {},
         NEW w, w = marshalMetric(x), NEW y, y = Metric(w)
  PROVE  /\ w \in RawMetric /\ MetricErrors(y) = {}
         /\ MetricWritten(x) => y = x
<1> DEFINE type == Enum(raw.type, "", AnyMetric)
           base == Or(raw.baseline, 0)
           cond == Enum(raw.condition, "always", Conditions)
           link == Link(raw.whenFault)
           wbase == Unless(base, 0)
           wcond == UnlessText(cond, "always")
           wlink == marshalMetricFaultLink(link)
           ylink == Link(wlink)
           map == raw.attributes
           wmap == marshalMap(map)
<1>1. /\ raw.name \in Name /\ raw.rest \in Rest /\ raw.baseline \in Opt(Number)
      /\ raw.whenFault \in Opt(RawLink) /\ map \in Attributes
  BY DEF RawMetric
<1>2. x = [name |-> raw.name, type |-> type, rest |-> raw.rest, attributes |-> map, baseline |-> base,
           condition |-> cond, whenFault |-> link]
  BY Zenon DEF Metric
<1>3. type \in Strings /\ Enum(type, "", AnyMetric) = type
  <2>1. Enumeration(AnyMetric)
    BY Enumerations, Zenon
  <2> QED
    BY <2>1, KindAgain, Zenon
<1>4. wcond \in Strings /\ Enum(wcond, "always", Conditions) = cond
  BY ConditionAgain, Zenon
<1>5. wbase \in Opt(Number) /\ Or(wbase, 0) = base
  BY <1>1, OrNumber, OrAgain, NumbersApart
<1>6. LinkErrors(link) = {}
  <2> HIDE DEF type, base, cond, link
  <2>1. LinkErrors(x.whenFault) = {}
    BY Zenon DEF MetricErrors
  <2> QED
    BY <1>2, <2>1
<1>7. wlink \in Opt(RawLink) /\ LinkErrors(ylink) = {} /\ (DeltaWritten(link) => ylink = link)
  BY <1>1, <1>6, LinkAgain, Zenon
<1>7a. wmap \in Attributes /\ (MapWritten(map) => wmap = map)
  BY <1>1, MapAgain
<1> HIDE DEF type, base, cond, link, map
<1>8. w = [name |-> raw.name, type |-> type, rest |-> raw.rest, attributes |-> wmap, baseline |-> wbase,
           condition |-> wcond, whenFault |-> wlink, source |-> Nil]
  BY <1>2 DEF marshalMetric
<1> HIDE DEF wbase, wcond, wlink, ylink, wmap
<1>9. w \in RawMetric
  <2>1. type \in Strings /\ wcond \in Strings /\ wbase \in Opt(Number) /\ wlink \in Opt(RawLink)
    BY <1>3, <1>4, <1>5, <1>7
  <2>2. Nil \in Opt(RawSource)
    BY DEF Opt
  <2> QED
    BY <1>1, <1>7a, <1>8, <2>1, <2>2 DEF RawMetric
<1>10. y = [name |-> raw.name, type |-> type, rest |-> raw.rest, attributes |-> wmap, baseline |-> base,
            condition |-> cond, whenFault |-> ylink]
  <2>1. y = [name |-> w.name, type |-> Enum(w.type, "", AnyMetric), rest |-> w.rest, attributes |-> w.attributes,
             baseline |-> Or(w.baseline, 0), condition |-> Enum(w.condition, "always", Conditions),
             whenFault |-> Link(w.whenFault)]
    BY Zenon DEF Metric
  <2>2. /\ w.name = raw.name /\ w.type = type /\ w.rest = raw.rest /\ w.baseline = wbase
        /\ w.condition = wcond /\ w.whenFault = wlink /\ w.attributes = wmap
    BY <1>8
  <2>3. Link(wlink) = ylink
    BY DEF ylink
  <2> QED
    BY <1>3, <1>4, <1>5, <2>1, <2>2, <2>3, Zenon
<1>11. MetricErrors(y) = {}
  <2>1. /\ NameOk(x.name) /\ Finite(x.baseline)
        /\ x.type \in SyncMetrics /\ x.condition \in Conditions
    BY DEF MetricErrors
  <2>2. x.name = y.name /\ x.baseline = y.baseline /\ x.type = y.type /\ x.condition = y.condition
    BY <1>2, <1>10
  <2>3. LinkErrors(y.whenFault) = {}
    BY <1>7, <1>10
  <2> QED
    BY <2>1, <2>2, <2>3 DEF MetricErrors
<1>12. MetricWritten(x) => y = x
  <2>1. x.whenFault = link /\ x.attributes = map
    BY <1>2
  <2> QED
    BY <1>2, <1>7, <1>7a, <1>10, <2>1, Zenon DEF MetricWritten
<1> QED
  BY <1>9, <1>11, <1>12

LEMMA MetricsAgain ==
  ASSUME NEW list \in SUBSET Opt(RawMetric), NEW X, X = Metrics(list), \A x \in X : MetricErrors(x) = {},
         NEW W, W = {marshalMetric(x) : x \in X}
  PROVE  /\ W \in SUBSET Opt(RawMetric) /\ \A y \in Metrics(W) : MetricErrors(y) = {}
         /\ (\A x \in X : MetricWritten(x)) => Metrics(W) = X
<1>1. \A x \in X : /\ marshalMetric(x) \in RawMetric /\ MetricErrors(Metric(marshalMetric(x))) = {}
                   /\ MetricWritten(x) => Metric(marshalMetric(x)) = x
  <2> TAKE x \in X
  <2>1. PICK raw \in list \ {Nil} : x = Metric(raw)
    BY DEF Metrics
  <2>2. raw \in RawMetric
    BY DEF Opt
  <2>3. MetricErrors(x) = {}
    OBVIOUS
  <2> QED
    BY <2>1, <2>2, <2>3, MetricAgain, Zenon
<1>2. \A w \in W : w # Nil /\ w \in RawMetric
  BY <1>1, NilApart
<1>3. Metrics(W) = {Metric(w) : w \in W}
  <2>1. W \ {Nil} = W
    BY <1>2
  <2> QED
    BY <2>1, Zenon DEF Metrics
<1>4. (\A x \in X : MetricWritten(x)) => {Metric(w) : w \in W} = X
  BY <1>1
<1>5. \A y \in Metrics(W) : MetricErrors(y) = {}
  BY <1>1, <1>3
<1> QED
  BY <1>2, <1>3, <1>4, <1>5 DEF Opt

LEMMA UpdateAgain ==
  ASSUME NEW raw \in RawStateUpdate, NEW x, x = StateUpdate(raw), UpdateErrors(x) = {},
         NEW w, w = marshalStateUpdate(x), NEW y, y = StateUpdate(w)
  PROVE  /\ w \in RawStateUpdate /\ UpdateErrors(y) = {}
         /\ DeltaWritten(x.whenFault) => y = x
<1> DEFINE delta == Or(raw.delta, 0)
           cond == Enum(raw.condition, "always", Conditions)
           link == Link(raw.whenFault)
           wdelta == Unless(delta, 0)
           wcond == UnlessText(cond, "always")
           wlink == marshalMetricFaultLink(link)
           ylink == Link(wlink)
<1>1. raw.key \in Name /\ raw.delta \in Opt(Number) /\ raw.whenFault \in Opt(RawLink)
  BY DEF RawStateUpdate
<1>2. x = [key |-> raw.key, delta |-> delta, condition |-> cond, whenFault |-> link]
  BY Zenon DEF StateUpdate
<1>3. wcond \in Strings /\ Enum(wcond, "always", Conditions) = cond
  BY ConditionAgain, Zenon
<1>4. wdelta \in Opt(Number) /\ Or(wdelta, 0) = delta
  BY <1>1, OrNumber, OrAgain, NumbersApart
<1>5. LinkErrors(link) = {}
  <2> HIDE DEF delta, cond, link
  <2>1. LinkErrors(x.whenFault) = {}
    BY Zenon DEF UpdateErrors
  <2> QED
    BY <1>2, <2>1
<1>6. wlink \in Opt(RawLink) /\ LinkErrors(ylink) = {} /\ (DeltaWritten(link) => ylink = link)
  BY <1>1, <1>5, LinkAgain, Zenon
<1> HIDE DEF delta, cond, link
<1>7. w = [key |-> raw.key, delta |-> wdelta, condition |-> wcond, whenFault |-> wlink]
  BY <1>2 DEF marshalStateUpdate
<1> HIDE DEF wdelta, wcond, wlink, ylink
<1>8. w \in RawStateUpdate
  <2>1. wcond \in Strings /\ wdelta \in Opt(Number) /\ wlink \in Opt(RawLink)
    BY <1>3, <1>4, <1>6
  <2> QED
    BY <1>1, <1>7, <2>1 DEF RawStateUpdate
<1>9. y = [key |-> raw.key, delta |-> delta, condition |-> cond, whenFault |-> ylink]
  <2>1. y = [key |-> w.key, delta |-> Or(w.delta, 0),
             condition |-> Enum(w.condition, "always", Conditions), whenFault |-> Link(w.whenFault)]
    BY Zenon DEF StateUpdate
  <2>2. w.key = raw.key /\ w.delta = wdelta /\ w.condition = wcond /\ w.whenFault = wlink
    BY <1>7
  <2>3. Link(wlink) = ylink
    BY DEF ylink
  <2> QED
    BY <1>3, <1>4, <2>1, <2>2, <2>3, Zenon
<1>10. UpdateErrors(y) = {}
  <2>1. x.key # <<>> /\ Finite(x.delta) /\ x.condition \in Conditions
    BY DEF UpdateErrors
  <2>2. x.key = y.key /\ x.delta = y.delta /\ x.condition = y.condition
    BY <1>2, <1>9
  <2>3. LinkErrors(y.whenFault) = {}
    BY <1>6, <1>9
  <2> QED
    BY <2>1, <2>2, <2>3 DEF UpdateErrors
<1>11. DeltaWritten(x.whenFault) => y = x
  <2>1. x.whenFault = link
    BY <1>2
  <2> QED
    BY <1>2, <1>6, <1>9, <2>1, Zenon
<1> QED
  BY <1>8, <1>10, <1>11

LEMMA UpdatesAgain ==
  ASSUME NEW list \in SUBSET Opt(RawStateUpdate), NEW X, X = StateUpdates(list),
         \A x \in X : UpdateErrors(x) = {}, NEW W, W = {marshalStateUpdate(x) : x \in X}
  PROVE  /\ W \in SUBSET Opt(RawStateUpdate) /\ \A y \in StateUpdates(W) : UpdateErrors(y) = {}
         /\ (\A x \in X : DeltaWritten(x.whenFault)) => StateUpdates(W) = X
<1>1. \A x \in X : /\ marshalStateUpdate(x) \in RawStateUpdate
                   /\ UpdateErrors(StateUpdate(marshalStateUpdate(x))) = {}
                   /\ DeltaWritten(x.whenFault) => StateUpdate(marshalStateUpdate(x)) = x
  <2> TAKE x \in X
  <2>1. PICK raw \in list \ {Nil} : x = StateUpdate(raw)
    BY DEF StateUpdates
  <2>2. raw \in RawStateUpdate
    BY DEF Opt
  <2>3. UpdateErrors(x) = {}
    OBVIOUS
  <2> QED
    BY <2>1, <2>2, <2>3, UpdateAgain, Zenon
<1>2. \A w \in W : w # Nil /\ w \in RawStateUpdate
  BY <1>1, NilApart
<1>3. StateUpdates(W) = {StateUpdate(w) : w \in W}
  <2>1. W \ {Nil} = W
    BY <1>2
  <2> QED
    BY <2>1, Zenon DEF StateUpdates
<1>4. (\A x \in X : DeltaWritten(x.whenFault)) => {StateUpdate(w) : w \in W} = X
  BY <1>1
<1>5. \A y \in StateUpdates(W) : UpdateErrors(y) = {}
  BY <1>1, <1>3
<1> QED
  BY <1>2, <1>3, <1>4, <1>5 DEF Opt

(* A metric of a service.                                                  *)
LEMMA ObservableAgain ==
  ASSUME NEW raw \in RawMetric, NEW x, x = Observable(raw), ObservableErrors(x) = {},
         NEW w, w = marshalObservableMetric(x), NEW y, y = Observable(w)
  PROVE  /\ w \in RawMetric /\ ObservableErrors(y) = {}
         /\ MetricWritten(x) => y = x
<1> DEFINE type == Enum(raw.type, "", AnyMetric)
           base == Or(raw.baseline, 0)
           link == Link(raw.whenFault)
           wcond == ""
           wbase == Unless(base, 0)
           wlink == marshalMetricFaultLink(link)
           ylink == Link(wlink)
           map == raw.attributes
           wmap == marshalMap(map)
<1>1. /\ raw.name \in Name /\ raw.rest \in Rest /\ raw.baseline \in Opt(Number)
      /\ raw.whenFault \in Opt(RawLink) /\ raw.source \in Opt(RawSource) /\ map \in Attributes
  BY DEF RawMetric
<1>2. x = [name |-> raw.name, type |-> type, rest |-> raw.rest, attributes |-> map, baseline |-> base,
           source |-> raw.source, whenFault |-> link]
  BY Zenon DEF Observable
<1>3. type \in Strings /\ Enum(type, "", AnyMetric) = type
  <2>1. Enumeration(AnyMetric)
    BY Enumerations, Zenon
  <2> QED
    BY <2>1, KindAgain, Zenon
<1>4. wbase \in Opt(Number) /\ Or(wbase, 0) = base
  BY <1>1, OrNumber, OrAgain, NumbersApart
<1>5. LinkErrors(link) = {}
  <2> HIDE DEF type, base, link
  <2>1. LinkErrors(x.whenFault) = {}
    BY Zenon DEF ObservableErrors
  <2> QED
    BY <1>2, <2>1
<1>6. wlink \in Opt(RawLink) /\ LinkErrors(ylink) = {} /\ (DeltaWritten(link) => ylink = link)
  BY <1>1, <1>5, LinkAgain, Zenon
<1>6a. wmap \in Attributes /\ (MapWritten(map) => wmap = map)
  BY <1>1, MapAgain
<1> HIDE DEF type, base, link, map
<1>7. w = [name |-> raw.name, type |-> type, rest |-> raw.rest, attributes |-> wmap, baseline |-> wbase,
           condition |-> wcond, whenFault |-> wlink, source |-> raw.source]
  <2>1. x.name = raw.name /\ x.type = type /\ x.rest = raw.rest /\ x.baseline = base /\ x.source = raw.source
        /\ x.whenFault = link /\ x.attributes = map
    BY <1>2
  <2> QED
    BY <2>1, Zenon DEF marshalObservableMetric
<1>7a. wcond \in Strings
  BY DEF Strings, Literals
<1> HIDE DEF wcond, wbase, wlink, ylink, wmap
<1>8. w \in RawMetric
  <2>1. type \in Strings /\ wbase \in Opt(Number) /\ wlink \in Opt(RawLink)
    BY <1>3, <1>4, <1>6
  <2> QED
    BY <1>1, <1>6a, <1>7, <1>7a, <2>1 DEF RawMetric
<1>9. y = [name |-> raw.name, type |-> type, rest |-> raw.rest, attributes |-> wmap, baseline |-> base,
           source |-> raw.source, whenFault |-> ylink]
  <2>1. y = [name |-> w.name, type |-> Enum(w.type, "", AnyMetric), rest |-> w.rest, attributes |-> w.attributes,
             baseline |-> Or(w.baseline, 0), source |-> w.source, whenFault |-> Link(w.whenFault)]
    BY Zenon DEF Observable
  <2>2. /\ w.name = raw.name /\ w.type = type /\ w.rest = raw.rest /\ w.baseline = wbase
        /\ w.source = raw.source /\ w.whenFault = wlink /\ w.attributes = wmap
    BY <1>7
  <2>3. Link(wlink) = ylink
    BY DEF ylink
  <2> QED
    BY <1>3, <1>4, <2>1, <2>2, <2>3, Zenon
<1>10. ObservableErrors(y) = {}
  <2> DEFINE ok(m) == /\ NameOk(m.name) /\ Finite(m.baseline)
                      /\ m.source # Nil => /\ m.source.accumulator # <<>>
                                           /\ m.source.minus # <<>> => m.type = "observable_gauge"
  <2>1. ok(x) /\ x.type \in ObservableMetrics
    BY DEF ObservableErrors
  <2>2. x.name = y.name /\ x.baseline = y.baseline /\ x.type = y.type /\ x.source = y.source
    BY <1>2, <1>9
  <2>3. LinkErrors(y.whenFault) = {}
    BY <1>6, <1>9
  <2>4. ok(y) /\ y.type \in ObservableMetrics
    BY <2>1, <2>2, Zenon
  <2> QED
    BY <2>3, <2>4 DEF ObservableErrors
<1>11. MetricWritten(x) => y = x
  <2>1. x.whenFault = link /\ x.attributes = map
    BY <1>2
  <2> QED
    BY <1>2, <1>6, <1>6a, <1>9, <2>1, Zenon DEF MetricWritten
<1> QED
  BY <1>8, <1>10, <1>11

ObservablesKept(X, W) ==
  /\ W \in SUBSET Opt(RawMetric) /\ \A y \in Observables(W) : ObservableErrors(y) = {}
  /\ (\A x \in X : MetricWritten(x)) => Observables(W) = X

LEMMA ObservablesAgain ==
  ASSUME NEW list \in SUBSET Opt(RawMetric), NEW X, X = Observables(list),
         \A x \in X : ObservableErrors(x) = {}, NEW W, W = {marshalObservableMetric(x) : x \in X}
  PROVE  ObservablesKept(X, W)
<1>1. \A x \in X : /\ marshalObservableMetric(x) \in RawMetric
                   /\ ObservableErrors(Observable(marshalObservableMetric(x))) = {}
                   /\ MetricWritten(x) => Observable(marshalObservableMetric(x)) = x
  <2> TAKE x \in X
  <2>1. PICK raw \in list \ {Nil} : x = Observable(raw)
    BY DEF Observables
  <2>2. raw \in RawMetric
    BY DEF Opt
  <2>3. ObservableErrors(x) = {}
    OBVIOUS
  <2> QED
    BY <2>1, <2>2, <2>3, ObservableAgain, Zenon
<1>2. \A w \in W : w # Nil /\ w \in RawMetric
  BY <1>1, NilApart
<1>3. Observables(W) = {Observable(w) : w \in W}
  <2>1. W \ {Nil} = W
    BY <1>2
  <2> QED
    BY <2>1, Zenon DEF Observables
<1>4. (\A x \in X : MetricWritten(x)) => {Observable(w) : w \in W} = X
  BY <1>1
<1>5. \A y \in Observables(W) : ObservableErrors(y) = {}
  BY <1>1, <1>3
<1> QED
  BY <1>2, <1>3, <1>4, <1>5 DEF Opt, ObservablesKept

RateWritten(p) == p # Nil => p.sampleRate # 0

LEMMA ProfileAgain ==
  ASSUME NEW raw \in Opt(RawProfile), NEW x, x = Profile(raw), ProfileErrors(x) = {},
         NEW w, w = marshalProfile(x), NEW y, y = Profile(w)
  PROVE  /\ w \in Opt(RawProfile) /\ ProfileErrors(y) = {}
         /\ RateWritten(x) => y = x
<1>1. CASE x = Nil
  <2>1. w = Nil
    BY <1>1 DEF marshalProfile
  <2>2. y = Nil
    BY <2>1 DEF Profile
  <2> QED
    BY <1>1, <2>1, <2>2 DEF Opt
<1>2. CASE x # Nil
  <2> DEFINE rate == Or(raw.sampleRate, 100)
             base == Stacks(raw.baseline)
             inc == Stacks(raw.incident)
             fault == IF raw.whenFault = Nil THEN Nil ELSE Enum(raw.whenFault, "", FaultKinds)
             wrate == IF rate \in {0, 100} THEN Nil ELSE rate
             yrate == Or(wrate, 100)
  <2>1. raw \in RawProfile /\ raw # Nil
    BY <1>2 DEF Profile, Opt
  <2>2. x = [enabled |-> raw.enabled, sampleRate |-> rate, baseline |-> base, incident |-> inc,
             whenFault |-> fault]
    BY <2>1, Zenon DEF Profile
  <2>3. /\ raw.enabled \in BOOLEAN /\ raw.sampleRate \in Opt(Int)
        /\ raw.baseline \in SUBSET Opt(RawStack) /\ raw.incident \in SUBSET Opt(RawStack)
    BY <2>1 DEF RawProfile
  <2>4. base \in SUBSET Opt(RawStack) /\ inc \in SUBSET Opt(RawStack) /\ Stacks(base) = base /\ Stacks(inc) = inc
    BY <2>3 DEF Stacks
  <2>5. /\ fault \in Opt(Strings)
        /\ fault = IF fault = Nil THEN Nil ELSE Enum(fault, "", FaultKinds)
    <3> DEFINE k == Enum(raw.whenFault, "", FaultKinds)
    <3>1. Enumeration(FaultKinds)
      BY Enumerations, Zenon
    <3>2. k \in Strings /\ k # Nil /\ Enum(k, "", FaultKinds) = k
      BY <3>1, KindAgain, Zenon
    <3>3. fault = Nil \/ fault = k
      OBVIOUS
    <3> HIDE DEF k, fault
    <3> QED
      BY <3>2, <3>3 DEF Opt
  <2>6. rate \in Int /\ wrate \in Opt(Int) /\ yrate = IF rate = 0 THEN 100 ELSE rate
    <3>1. rate \in Int /\ rate # Nil
      BY <2>3, NumbersApart, OrInt, OrAgain
    <3> QED
      BY <3>1 DEF Opt, Or
  <2> HIDE DEF rate, base, inc, fault
  <2>7. w = [enabled |-> raw.enabled, sampleRate |-> wrate, baseline |-> base, incident |-> inc,
             whenFault |-> fault]
    BY <1>2, <2>2 DEF marshalProfile
  <2> HIDE DEF wrate, yrate
  <2>8. w \in RawProfile
    <3>1. wrate \in Opt(Int) /\ fault \in Opt(Strings) /\ base \in SUBSET Opt(RawStack)
          /\ inc \in SUBSET Opt(RawStack) /\ raw.enabled \in BOOLEAN
      BY <2>3, <2>4, <2>5, <2>6
    <3> QED
      BY <2>7, <3>1 DEF RawProfile
  <2>9. y = [enabled |-> raw.enabled, sampleRate |-> yrate, baseline |-> base, incident |-> inc,
             whenFault |-> fault]
    <3>1. w # Nil
      BY <2>8, NilApart
    <3>2. y = [enabled |-> w.enabled, sampleRate |-> Or(w.sampleRate, 100), baseline |-> Stacks(w.baseline),
               incident |-> Stacks(w.incident),
               whenFault |-> IF w.whenFault = Nil THEN Nil ELSE Enum(w.whenFault, "", FaultKinds)]
      BY <3>1, Zenon DEF Profile
    <3>3. /\ w.enabled = raw.enabled /\ w.sampleRate = wrate /\ w.baseline = base /\ w.incident = inc
          /\ w.whenFault = fault
      BY <2>7
    <3>4. yrate = Or(wrate, 100)
      BY DEF yrate
    <3> QED
      BY <2>4, <2>5, <3>2, <3>3, <3>4, Zenon
  <2>10. ProfileErrors(y) = {}
    <3> DEFINE ok(p) == /\ p.baseline # {} /\ p.sampleRate > 0
                        /\ \A st \in p.baseline \union p.incident : StackOk(st)
                        /\ p.whenFault # Nil => p.incident # {}
               kind(p) == p.whenFault = Nil \/ p.whenFault \in FaultKinds
    <3>1. x.enabled => ok(x) /\ kind(x)
      BY <1>2 DEF ProfileErrors
    <3>2. /\ y.enabled = x.enabled /\ y.baseline = x.baseline /\ y.incident = x.incident
          /\ y.whenFault = x.whenFault /\ y.sampleRate = yrate /\ x.sampleRate = rate
      BY <2>2, <2>9
    <3>3. x.sampleRate > 0 => y.sampleRate > 0
      BY <2>6, <3>2
    <3>4. y.enabled => ok(y) /\ kind(y)
      BY <3>1, <3>2, <3>3, Zenon
    <3> QED
      BY <3>4 DEF ProfileErrors
  <2>11. ASSUME RateWritten(x) PROVE y = x
    <3>1. rate # 0
      BY <1>2, <2>2, <2>11 DEF RateWritten
    <3>2. yrate = rate
      BY <2>6, <3>1
    <3> QED
      BY <2>2, <2>9, <3>2
  <2> QED
    BY <2>8, <2>10, <2>11 DEF Opt
<1> QED
  BY <1>1, <1>2

(* An operation.  ZeroOperation, which stands for one that is null, has no *)
(* name.                                                                   *)
OperationWritten(op) ==
  /\ \A m \in op.metrics \union op.stateUpdates : DeltaWritten(m.whenFault)
  /\ \A x \in op.logEvents \union op.metrics : MapWritten(x.attributes)
  /\ RateWritten(op.profile)

\* What x, written as w and read again as y, has become.
OperationKept(id, x, w, y) ==
  /\ w \in RawOperation /\ w.name = x.name
  /\ OperationErrors(y) = {} /\ y.name = x.name /\ y.service = id
  /\ OperationWritten(x) => y = x

LEMMA OperationErrorsAre ==
  ASSUME NEW op
  PROVE  OperationErrors(op) = {} <=>
           /\ NameOk(op.name) /\ ProfileErrors(op.profile) = {}
           /\ \A ev \in op.logEvents : EventErrors(ev) = {}
           /\ \A m \in op.metrics : MetricErrors(m) = {}
           /\ \A u \in op.stateUpdates : UpdateErrors(u) = {}
<1> DEFINE n == IF NameOk(op.name) THEN {} ELSE {"D_OP"}
           a == UNION {EventErrors(ev) : ev \in op.logEvents}
           b == UNION {MetricErrors(m) : m \in op.metrics}
           c == UNION {UpdateErrors(u) : u \in op.stateUpdates}
           d == ProfileErrors(op.profile)
<1>1. OperationErrors(op) = n \union a \union b \union c \union d
  BY Zenon DEF OperationErrors
<1>2. n = {} <=> NameOk(op.name)
  OBVIOUS
<1>3. a = {} <=> \A ev \in op.logEvents : EventErrors(ev) = {}
  OBVIOUS
<1>4. b = {} <=> \A m \in op.metrics : MetricErrors(m) = {}
  OBVIOUS
<1>5. c = {} <=> \A u \in op.stateUpdates : UpdateErrors(u) = {}
  OBVIOUS
<1> HIDE DEF n, a, b, c
<1>6. n \union a \union b \union c \union d = {} <=> n = {} /\ a = {} /\ b = {} /\ c = {} /\ d = {}
  OBVIOUS
<1> QED
  BY <1>1, <1>2, <1>3, <1>4, <1>5, <1>6

LEMMA OperationAgain ==
  ASSUME NEW raw \in Opt(RawOperation), NEW id, NEW x, x = BuildOperation(id, Or(raw, ZeroOperation)),
         OperationErrors(x) = {}, NEW w, w = marshalOperation(x), NEW y, y = BuildOperation(id, w)
  PROVE  OperationKept(id, x, w, y)
<1> DEFINE events == LogEvents(raw.logEvents)
           metrics == Metrics(raw.metrics)
           updates == StateUpdates(raw.stateUpdates)
           prof == Profile(raw.profile)
           wevents == {marshalLogEvent(ev) : ev \in events}
           wmetrics == {marshalMetric(m) : m \in metrics}
           wupdates == {marshalStateUpdate(u) : u \in updates}
           wprof == marshalProfile(prof)
<1>1. x.name = Or(raw, ZeroOperation).name
  BY DEF BuildOperation
<1>2. NameOk(x.name) /\ (\A m \in x.metrics : MetricErrors(m) = {})
      /\ (\A u \in x.stateUpdates : UpdateErrors(u) = {}) /\ ProfileErrors(x.profile) = {}
      /\ (\A ev \in x.logEvents : EventErrors(ev) = {})
  BY OperationErrorsAre, Zenon
<1>3. x.name # <<>>
  BY <1>2 DEF NameOk
<1>4. raw # Nil
  BY <1>1, <1>3 DEF Or, ZeroOperation
<1>5. raw \in RawOperation /\ Or(raw, ZeroOperation) = raw
  BY <1>4 DEF Opt, Or
<1>6. x = [name |-> raw.name, service |-> id, logEvents |-> events, metrics |-> metrics,
           stateUpdates |-> updates, profile |-> prof]
  BY <1>5, Zenon DEF BuildOperation
<1>7. /\ raw.name \in Name /\ raw.logEvents \in SUBSET Opt(RawLogEvent) /\ raw.metrics \in SUBSET Opt(RawMetric)
      /\ raw.stateUpdates \in SUBSET Opt(RawStateUpdate) /\ raw.profile \in Opt(RawProfile)
  BY <1>5 DEF RawOperation
<1>8. /\ wevents \in SUBSET Opt(RawLogEvent) /\ \A ev \in LogEvents(wevents) : EventErrors(ev) = {}
      /\ (\A ev \in events : MapWritten(ev.attributes)) => LogEvents(wevents) = events
  <2>1. \A ev \in events : EventErrors(ev) = {}
    <3> HIDE DEF events, metrics, updates, prof
    <3> QED
      BY <1>2, <1>6
  <2> QED
    BY <1>7, <2>1, EventsAgain, Zenon
<1>9. /\ wmetrics \in SUBSET Opt(RawMetric) /\ \A m \in Metrics(wmetrics) : MetricErrors(m) = {}
      /\ (\A m \in metrics : MetricWritten(m)) => Metrics(wmetrics) = metrics
  <2>1. \A m \in metrics : MetricErrors(m) = {}
    <3> HIDE DEF events, metrics, updates, prof
    <3> QED
      BY <1>2, <1>6
  <2> QED
    BY <1>7, <2>1, MetricsAgain, Zenon
<1>10. /\ wupdates \in SUBSET Opt(RawStateUpdate) /\ \A u \in StateUpdates(wupdates) : UpdateErrors(u) = {}
       /\ (\A u \in updates : DeltaWritten(u.whenFault)) => StateUpdates(wupdates) = updates
  <2>1. \A u \in updates : UpdateErrors(u) = {}
    <3> HIDE DEF events, metrics, updates, prof
    <3> QED
      BY <1>2, <1>6
  <2> QED
    BY <1>7, <2>1, UpdatesAgain, Zenon
<1>11. /\ wprof \in Opt(RawProfile) /\ ProfileErrors(Profile(wprof)) = {}
       /\ RateWritten(prof) => Profile(wprof) = prof
  <2>1. ProfileErrors(prof) = {}
    <3> HIDE DEF events, metrics, updates, prof
    <3> QED
      BY <1>2, <1>6
  <2> QED
    BY <1>7, <2>1, ProfileAgain, Zenon
<1> HIDE DEF events, metrics, updates, prof
<1>12. w = [name |-> raw.name, logEvents |-> wevents, metrics |-> wmetrics, stateUpdates |-> wupdates,
            profile |-> wprof]
  BY <1>6 DEF marshalOperation
<1> DEFINE yevents == LogEvents(wevents)
           ymetrics == Metrics(wmetrics)
           yupdates == StateUpdates(wupdates)
           yprof == Profile(wprof)
<1> HIDE DEF wevents, wmetrics, wupdates, wprof
<1>13. w \in RawOperation
  <2>1. /\ wevents \in SUBSET Opt(RawLogEvent) /\ wmetrics \in SUBSET Opt(RawMetric)
        /\ wupdates \in SUBSET Opt(RawStateUpdate) /\ wprof \in Opt(RawProfile) /\ raw.name \in Name
    BY <1>7, <1>8, <1>9, <1>10, <1>11
  <2> QED
    BY <1>12, <2>1 DEF RawOperation
<1>14. y = [name |-> raw.name, service |-> id, logEvents |-> yevents, metrics |-> ymetrics,
            stateUpdates |-> yupdates, profile |-> yprof]
  <2>1. y = [name |-> w.name, service |-> id, logEvents |-> LogEvents(w.logEvents),
             metrics |-> Metrics(w.metrics), stateUpdates |-> StateUpdates(w.stateUpdates),
             profile |-> Profile(w.profile)]
    BY Zenon DEF BuildOperation
  <2>2. /\ w.name = raw.name /\ w.logEvents = wevents /\ w.metrics = wmetrics /\ w.stateUpdates = wupdates
        /\ w.profile = wprof
    BY <1>12
  <2> QED
    BY <2>1, <2>2, Zenon
<1>15. /\ (\A ev \in yevents : EventErrors(ev) = {})
       /\ (\A m \in ymetrics : MetricErrors(m) = {}) /\ (\A u \in yupdates : UpdateErrors(u) = {})
       /\ ProfileErrors(yprof) = {}
  BY <1>8, <1>9, <1>10, <1>11, Zenon
<1> HIDE DEF yevents, ymetrics, yupdates, yprof
<1>16. OperationErrors(y) = {}
  <2>1. /\ y.name = x.name /\ y.logEvents = yevents /\ y.metrics = ymetrics /\ y.stateUpdates = yupdates
        /\ y.profile = yprof
    BY <1>6, <1>14, <1>15
  <2>2. /\ NameOk(y.name) /\ ProfileErrors(y.profile) = {}
        /\ \A ev \in y.logEvents : EventErrors(ev) = {}
        /\ \A m \in y.metrics : MetricErrors(m) = {}
        /\ \A u \in y.stateUpdates : UpdateErrors(u) = {}
    BY <1>2, <1>15, <2>1
  <2> QED
    BY <2>2, OperationErrorsAre, Zenon
<1>17. ASSUME OperationWritten(x) PROVE y = x
  <2>1. x.logEvents = events /\ x.metrics = metrics /\ x.stateUpdates = updates /\ x.profile = prof
    BY <1>6
  <2>2. /\ \A ev \in events : MapWritten(ev.attributes)
        /\ \A m \in metrics : MetricWritten(m)
        /\ \A u \in updates : DeltaWritten(u.whenFault)
        /\ RateWritten(prof)
    BY <1>17, <2>1 DEF OperationWritten, MetricWritten
  <2>3. yevents = events /\ ymetrics = metrics /\ yupdates = updates /\ yprof = prof
    BY <1>8, <1>9, <1>10, <1>11, <2>2, Zenon DEF yevents, ymetrics, yupdates, yprof
  <2> QED
    BY <1>6, <1>14, <2>3, Zenon
<1>18. w.name = x.name /\ y.name = x.name /\ y.service = id
  BY <1>6, <1>12, <1>14
<1> QED
  BY <1>13, <1>16, <1>17, <1>18, Zenon DEF OperationKept

-----------------------------------------------------------------------------
(* Services: the operations are written in some order, once each.          *)
LEMMA KeysSorted ==
  ASSUME NEW S, IsFiniteSet(S), NEW q, q = SetToSeq(S)
  PROVE  /\ q \in Seq(S) /\ Len(q) \in Nat /\ DOMAIN q = 1..Len(q)
         /\ \A i \in DOMAIN q : q[i] \in S
         /\ \A i, j \in DOMAIN q : q[i] = q[j] => i = j
         /\ \A x \in S : \E i \in DOMAIN q : q[i] = x
<1> DEFINE n == Cardinality(S)
<1>1. n \in Nat /\ ExistsBijection(1..n, S)
  BY FS_CardinalityType
<1>2. PICK f \in [1..n -> S] : IsInjective(f)
  BY <1>1 DEF ExistsBijection, Bijection, Injection
<1>3. q \in [1..n -> S] /\ IsInjective(q)
  BY <1>2, Zenon DEF SetToSeq
<1>4. IsFiniteSet(1..n) /\ Cardinality(1..n) = n
  BY <1>1, FS_Interval
<1>5. q \in Injection(1..n, S)
  BY <1>3 DEF Injection
<1>6. q \in Surjection(1..n, S)
  <2>1. Cardinality(1..n) = Cardinality(S)
    BY <1>4
  <2> HIDE DEF n
  <2> QED
    BY <1>5, <2>1, FS_Injection
<1> HIDE DEF n
<1>7. q \in Seq(S) /\ Len(q) = n
  BY <1>1, <1>3
<1> QED
  BY <1>1, <1>3, <1>6, <1>7 DEF Surjection, IsInjective

\* What a service is built of.
ServiceBuilt(id, rs, namespace, v) ==
  /\ v.name = id /\ v.namespace = OrText(rs.namespace, namespace)
  /\ v.kind = Enum(rs.kind, "", ServiceKinds) /\ v.replicas = Or(rs.replicas, 1) /\ v.rest = rs.rest
  /\ v.metrics = Observables(rs.metrics)
  /\ v = [name |-> v.name, namespace |-> v.namespace, kind |-> v.kind, replicas |-> v.replicas,
          rest |-> v.rest, metrics |-> v.metrics, operations |-> v.operations]

LEMMA ServiceIs ==
  ASSUME NEW id, NEW rs, NEW namespace, NEW v, v = BuildService(id, rs, namespace)
  PROVE  ServiceBuilt(id, rs, namespace, v)
<1>1. \E o : v = [name |-> id, namespace |-> OrText(rs.namespace, namespace),
                  kind |-> Enum(rs.kind, "", ServiceKinds), replicas |-> Or(rs.replicas, 1), rest |-> rs.rest,
                  metrics |-> Observables(rs.metrics), operations |-> o]
  BY Zenon DEF BuildService
<1> DEFINE a == OrText(rs.namespace, namespace)
           b == Enum(rs.kind, "", ServiceKinds)
           c == Or(rs.replicas, 1)
           d == rs.rest
           e == Observables(rs.metrics)
<1>2. PICK o : v = [name |-> id, namespace |-> a, kind |-> b, replicas |-> c, rest |-> d, metrics |-> e,
                    operations |-> o]
  BY <1>1
<1> HIDE DEF a, b, c, d, e
<1>3. /\ v.name = id /\ v.namespace = a /\ v.kind = b /\ v.replicas = c /\ v.rest = d /\ v.metrics = e
      /\ v.operations = o
  BY <1>2
<1>4. v = [name |-> v.name, namespace |-> v.namespace, kind |-> v.kind, replicas |-> v.replicas,
           rest |-> v.rest, metrics |-> v.metrics, operations |-> v.operations]
  BY <1>2, <1>3, Zenon
<1> QED
  BY <1>3, <1>4, Zenon DEF a, b, c, d, e, ServiceBuilt

OperationsFrom(id, ros, operations) ==
  /\ operations = [n \in DOMAIN operations |-> operations[n]]
  /\ IsFiniteSet(DOMAIN operations)
  /\ \A n \in DOMAIN operations : \E i \in DOMAIN ros :
       /\ Or(ros[i], ZeroOperation).name = n
       /\ operations[n] = BuildOperation(id, Or(ros[i], ZeroOperation))

LEMMA OperationsBuilt ==
  ASSUME NEW id, NEW rs, rs.operations \in Seq(Opt(RawOperation)), NEW namespace,
         NEW v, v = BuildService(id, rs, namespace)
  PROVE  OperationsFrom(id, rs.operations, v.operations)
<1> DEFINE ops == [i \in DOMAIN rs.operations |-> Or(rs.operations[i], ZeroOperation)]
           last(n) == LastOf({i \in DOMAIN ops : ops[i].name = n})
           names == {op.name : op \in ToSet(ops)}
           built == [n \in names |-> BuildOperation(id, ops[last(n)])]
<1>1. \E a, b, c, d, e, f : v = [name |-> a, namespace |-> b, kind |-> c, replicas |-> d, rest |-> e,
                                metrics |-> f, operations |-> built]
  BY Zenon DEF BuildService
<1>2. names = DOMAIN v.operations
  <2>1. DOMAIN built = names
    OBVIOUS
  <2> HIDE DEF built, names
  <2>2. v.operations = built
    BY <1>1
  <2> QED
    BY <2>1, <2>2
<1>3. v.operations = built
  <2> HIDE DEF built, names
  <2> QED
    BY <1>1
<1>4. DOMAIN ops = 1..Len(rs.operations) /\ Len(rs.operations) \in Nat
  <2> DEFINE S == Opt(RawOperation)
  <2> HIDE DEF S
  <2>1. rs.operations \in Seq(S)
    BY DEF S
  <2>2. DOMAIN rs.operations = 1..Len(rs.operations) /\ Len(rs.operations) \in Nat
    BY <2>1, LenProperties
  <2> QED
    BY <2>2
<1>5. \A n \in names : last(n) \in DOMAIN ops /\ ops[last(n)].name = n
  <2> TAKE n \in names
  <2> DEFINE T == {i \in DOMAIN ops : ops[i].name = n}
  <2>1. T # {}
    <3>1. PICK op \in ToSet(ops) : op.name = n
      OBVIOUS
    <3>2. PICK i \in DOMAIN ops : ops[i] = op
      BY Zenon DEF ToSet
    <3> QED
      BY <3>1, <3>2
  <2>2. T \subseteq 1..Len(rs.operations)
    BY <1>4
  <2>3. T = {i \in DOMAIN ops : ops[i].name = n}
    OBVIOUS
  <2> HIDE DEF T
  <2>4. LastOf(T) \in T
    BY <1>4, <2>1, <2>2, LastIs
  <2>5. last(n) = LastOf(T)
    BY <2>3, Zenon
  <2> QED
    BY <2>3, <2>4, <2>5, Zenon
<1>6. \A n \in names : built[n] = BuildOperation(id, ops[last(n)])
  OBVIOUS
<1>7. \A i \in DOMAIN ops : ops[i] = Or(rs.operations[i], ZeroOperation) /\ i \in DOMAIN rs.operations
  OBVIOUS
<1>8. v.operations = [n \in DOMAIN v.operations |-> v.operations[n]]
  <2>1. built = [n \in DOMAIN built |-> built[n]]
    OBVIOUS
  <2> QED
    BY <1>3, <2>1, Zenon
<1>9. IsFiniteSet(names)
  <2> DEFINE f == [i \in DOMAIN ops |-> ops[i].name]
             D == DOMAIN ops
  <2>1. DOMAIN f = D /\ \A t \in names : \E i \in D : f[i] = t
    BY <1>5
  <2>2. IsFiniteSet(D)
    BY <1>4, FS_Interval
  <2> HIDE DEF f, D, names
  <2> QED
    BY <2>1, <2>2, FiniteImage
<1> HIDE DEF built, names, ops, last
<1>10. \A n \in names : \E i \in DOMAIN rs.operations :
         /\ Or(rs.operations[i], ZeroOperation).name = n
         /\ built[n] = BuildOperation(id, Or(rs.operations[i], ZeroOperation))
  BY <1>5, <1>6, <1>7, Zenon
<1> QED
  BY <1>2, <1>3, <1>8, <1>9, <1>10, Zenon DEF OperationsFrom

LEMMA ServiceErrorsAre ==
  ASSUME NEW svc
  PROVE  ServiceErrors(svc) = {} <=>
           /\ svc.replicas >= 1 /\ svc.kind \in ServiceKinds /\ DOMAIN svc.operations # {}
           /\ \A m \in svc.metrics : ObservableErrors(m) = {}
           /\ \A n \in DOMAIN svc.operations : OperationErrors(svc.operations[n]) = {}
<1> DEFINE r == svc.replicas >= 1
           k == svc.kind \in ServiceKinds
           a == IF r THEN {} ELSE {"D_1"}
           b == IF k THEN {} ELSE {"D_ENUM"}
           c == IF DOMAIN svc.operations # {} THEN {} ELSE {"D_12"}
           d == UNION {ObservableErrors(m) : m \in svc.metrics}
           e == UNION {OperationErrors(svc.operations[n]) : n \in DOMAIN svc.operations}
<1>1. ServiceErrors(svc) = a \union b \union c \union d \union e
  BY Zenon DEF ServiceErrors
<1>2. (a = {} <=> r) /\ (b = {} <=> k) /\ (c = {} <=> DOMAIN svc.operations # {})
  <2> HIDE DEF r, k
  <2> QED
    OBVIOUS
<1>3. d = {} <=> \A m \in svc.metrics : ObservableErrors(m) = {}
  OBVIOUS
<1>4. e = {} <=> \A n \in DOMAIN svc.operations : OperationErrors(svc.operations[n]) = {}
  OBVIOUS
<1> HIDE DEF r, k, a, b, c, d, e
<1>5. a \union b \union c \union d \union e = {} <=> a = {} /\ b = {} /\ c = {} /\ d = {} /\ e = {}
  OBVIOUS
<1>6. ServiceErrors(svc) = {} <=>
        /\ r /\ k /\ DOMAIN svc.operations # {}
        /\ \A m \in svc.metrics : ObservableErrors(m) = {}
        /\ \A n \in DOMAIN svc.operations : OperationErrors(svc.operations[n]) = {}
  BY <1>1, <1>2, <1>3, <1>4, <1>5
<1> QED
  BY <1>6, Zenon DEF r, k

ServiceWritten(svc) ==
  /\ \A m \in svc.metrics : MetricWritten(m)
  /\ \A n \in DOMAIN svc.operations : OperationWritten(svc.operations[n])

\* What is written of a service's operations.
OperationsListed(svc, w) ==
  /\ DOMAIN w.operations = DOMAIN sortedKeys(svc)
  /\ \A i \in DOMAIN w.operations : w.operations[i] \in RawOperation /\ w.operations[i].name = sortedKeys(svc)[i]

\* What a service is written as.
ServiceWrittenAs(svc, namespace, w) ==
  /\ w = [namespace |-> w.namespace, kind |-> w.kind, replicas |-> w.replicas, rest |-> w.rest,
          metrics |-> w.metrics, operations |-> w.operations]
  /\ w.namespace = UnlessText(svc.namespace, namespace) /\ w.kind = svc.kind
  /\ w.replicas = Unless(svc.replicas, 1) /\ w.rest = svc.rest
  /\ w.metrics = {marshalObservableMetric(m) : m \in svc.metrics}
  /\ w.operations = [i \in DOMAIN sortedKeys(svc) |-> marshalOperation(svc.operations[sortedKeys(svc)[i]])]

LEMMA MarshalServiceIs ==
  ASSUME NEW svc, NEW namespace, NEW w, w = marshalService(svc, namespace)
  PROVE  ServiceWrittenAs(svc, namespace, w)
<1> DEFINE a == UnlessText(svc.namespace, namespace)
           b == svc.kind
           c == Unless(svc.replicas, 1)
           d == svc.rest
           e == {marshalObservableMetric(m) : m \in svc.metrics}
           f == [i \in DOMAIN sortedKeys(svc) |-> marshalOperation(svc.operations[sortedKeys(svc)[i]])]
<1>1. w = [namespace |-> a, kind |-> b, replicas |-> c, rest |-> d, metrics |-> e, operations |-> f]
  BY Zenon DEF marshalService, MapSeq
<1> HIDE DEF a, b, c, d, e, f
<1>2. /\ w.namespace = a /\ w.kind = b /\ w.replicas = c /\ w.rest = d /\ w.metrics = e /\ w.operations = f
  BY <1>1
<1>3. w = [namespace |-> w.namespace, kind |-> w.kind, replicas |-> w.replicas, rest |-> w.rest,
           metrics |-> w.metrics, operations |-> w.operations]
  BY <1>1, <1>2, Zenon
<1> QED
  BY <1>2, <1>3, Zenon DEF a, b, c, d, e, f, ServiceWrittenAs

OperationsKept(id, x, w, y) ==
  /\ w.operations \in Seq(Opt(RawOperation)) /\ OperationsListed(x, w)
  /\ DOMAIN y.operations = DOMAIN x.operations
  /\ \A n \in DOMAIN x.operations :
       /\ OperationErrors(y.operations[n]) = {}
       /\ x.operations[n].service = id /\ x.operations[n].name = n
       /\ y.operations[n].service = id /\ y.operations[n].name = n
       /\ OperationWritten(x.operations[n]) => y.operations[n] = x.operations[n]

LEMMA OperationsAgain ==
  ASSUME NEW id, NEW rs, rs.operations \in Seq(Opt(RawOperation)), NEW namespace,
         NEW x, x = BuildService(id, rs, namespace),
         \A n \in DOMAIN x.operations : OperationErrors(x.operations[n]) = {},
         NEW w, w = marshalService(x, namespace), NEW y, y = BuildService(id, w, namespace)
  PROVE  OperationsKept(id, x, w, y)
<1> DEFINE N == DOMAIN x.operations
           q == sortedKeys(x)
           m(n) == marshalOperation(x.operations[n])
<1>1. /\ IsFiniteSet(N)
      /\ \A n \in N : \E i \in DOMAIN rs.operations :
              /\ Or(rs.operations[i], ZeroOperation).name = n
              /\ x.operations[n] = BuildOperation(id, Or(rs.operations[i], ZeroOperation))
  <2>1. OperationsFrom(id, rs.operations, x.operations)
    BY OperationsBuilt, Zenon
  <2> QED
    BY <2>1, Zenon DEF OperationsFrom
<1>2. /\ q \in Seq(N) /\ Len(q) \in Nat /\ DOMAIN q = 1..Len(q)
      /\ \A i \in DOMAIN q : q[i] \in N
      /\ \A i, j \in DOMAIN q : q[i] = q[j] => i = j
      /\ \A n \in N : \E i \in DOMAIN q : q[i] = n
  <2>1. q = SetToSeq(N)
    BY Zenon DEF sortedKeys
  <2> HIDE DEF q, N
  <2> QED
    BY <1>1, <2>1, KeysSorted
<1>3. ASSUME NEW n \in N
      PROVE  /\ m(n) \in RawOperation /\ m(n).name = n /\ x.operations[n].name = n /\ x.operations[n].service = id
             /\ OperationErrors(BuildOperation(id, m(n))) = {} /\ BuildOperation(id, m(n)).name = n
             /\ BuildOperation(id, m(n)).service = id
             /\ OperationWritten(x.operations[n]) => BuildOperation(id, m(n)) = x.operations[n]
  <2>1. PICK i \in DOMAIN rs.operations :
          /\ Or(rs.operations[i], ZeroOperation).name = n
          /\ x.operations[n] = BuildOperation(id, Or(rs.operations[i], ZeroOperation))
    BY <1>1, Zenon
  <2>2. rs.operations[i] \in Opt(RawOperation)
    <3> DEFINE S == Opt(RawOperation)
    <3> HIDE DEF S
    <3>1. rs.operations \in Seq(S)
      BY DEF S
    <3>2. DOMAIN rs.operations = 1..Len(rs.operations)
      BY <3>1, LenProperties
    <3>3. rs.operations[i] \in S
      BY <3>1, <3>2, ElementOfSeq
    <3> QED
      BY <3>3 DEF S
  <2>3. \A o : BuildOperation(id, o).name = o.name /\ BuildOperation(id, o).service = id
    BY DEF BuildOperation
  <2>4. x.operations[n].name = n /\ x.operations[n].service = id
    BY <2>1, <2>3
  <2>5. OperationErrors(x.operations[n]) = {}
    OBVIOUS
  <2> DEFINE o == x.operations[n]
             wo == m(n)
             yo == BuildOperation(id, wo)
  <2>6. OperationKept(id, o, wo, yo)
    BY <2>1, <2>2, <2>5, OperationAgain, Zenon
  <2>7. /\ wo \in RawOperation /\ wo.name = o.name
        /\ OperationErrors(yo) = {} /\ yo.name = o.name /\ yo.service = id
        /\ OperationWritten(o) => yo = o
    BY <2>6, Zenon DEF OperationKept
  <2> QED
    BY <2>4, <2>7
<1>4. w.operations = [i \in DOMAIN q |-> m(q[i])]
  <2>1. ServiceWrittenAs(x, namespace, w)
    BY MarshalServiceIs, Zenon
  <2> QED
    BY <2>1, Zenon DEF ServiceWrittenAs
<1> HIDE DEF m, q
<1>5. /\ DOMAIN w.operations = DOMAIN q
      /\ \A i \in DOMAIN q : w.operations[i] = m(q[i])
  BY <1>4
<1> HIDE DEF N
<1>6. \A i \in DOMAIN q : w.operations[i] \in RawOperation /\ w.operations[i].name = q[i] /\ w.operations[i] # Nil
  BY <1>2, <1>3, <1>5, NilApart
<1>7. w.operations \in Seq(Opt(RawOperation))
  <2> DEFINE S == Opt(RawOperation)
             n == Len(q)
             f == w.operations
  <2>1. \A i \in 1..n : f[i] \in S
    BY <1>2, <1>6 DEF Opt
  <2>2. f = [i \in 1..n |-> f[i]]
    BY <1>2, <1>4, <1>5
  <2>3. n \in Nat
    BY <1>2
  <2> HIDE DEF S, n, f
  <2>4. f \in Seq(S)
    BY <2>1, <2>2, <2>3
  <2> QED
    BY <2>4 DEF S, f
<1>8. OperationsListed(x, w)
  BY <1>5, <1>6 DEF OperationsListed, q
<1>9. \A n \in DOMAIN y.operations : \E i \in DOMAIN w.operations :
              /\ Or(w.operations[i], ZeroOperation).name = n
              /\ y.operations[n] = BuildOperation(id, Or(w.operations[i], ZeroOperation))
  <2>1. OperationsFrom(id, w.operations, y.operations)
    BY <1>7, OperationsBuilt, Zenon
  <2> QED
    BY <2>1, Zenon DEF OperationsFrom
<1>10. \A i \in DOMAIN w.operations : Or(w.operations[i], ZeroOperation) = w.operations[i]
  BY <1>5, <1>6 DEF Or
<1>11. \A n \in DOMAIN y.operations : n \in N /\ y.operations[n] = BuildOperation(id, m(n))
  <2> TAKE n \in DOMAIN y.operations
  <2>1. PICK i \in DOMAIN w.operations :
              /\ Or(w.operations[i], ZeroOperation).name = n
              /\ y.operations[n] = BuildOperation(id, Or(w.operations[i], ZeroOperation))
    BY <1>9
  <2>2. n = q[i] /\ i \in DOMAIN q
    BY <1>5, <1>6, <1>10, <2>1
  <2> QED
    BY <1>2, <1>5, <1>10, <2>1, <2>2
<1>12. DOMAIN y.operations = N
  <2>1. DOMAIN y.operations = {Or(w.operations[i], ZeroOperation).name : i \in DOMAIN w.operations}
    BY OperationNames
  <2>2. \A n \in N : n \in DOMAIN y.operations
    BY <1>2, <1>5, <1>6, <1>10, <2>1
  <2> QED
    BY <1>11, <2>2
<1>13. \A n \in N :
         /\ OperationErrors(y.operations[n]) = {}
         /\ x.operations[n].service = id /\ x.operations[n].name = n
         /\ y.operations[n].service = id /\ y.operations[n].name = n
         /\ OperationWritten(x.operations[n]) => y.operations[n] = x.operations[n]
  BY <1>3, <1>11, <1>12
<1> QED
  BY <1>7, <1>8, <1>12, <1>13, Zenon DEF N, OperationsKept

LEMMA EmptyDomain ==
  ASSUME NEW e, e = <<>>
  PROVE  DOMAIN e = {}
<1>1. e \in Seq({}) /\ Len(e) = 0
  BY EmptySeq
<1> QED
  BY <1>1, LenProperties

LEMMA ServiceRecord ==
  ASSUME NEW a, a \in Strings, NEW b, b \in Strings, NEW c, c \in Opt(Int), NEW d, d \in Rest,
         NEW e, e \in SUBSET Opt(RawMetric), NEW f, f \in Seq(Opt(RawOperation)),
         NEW w, w = [namespace |-> a, kind |-> b, replicas |-> c, rest |-> d, metrics |-> e, operations |-> f]
  PROVE  w \in RawService
<1> DEFINE A == Strings
           B == Opt(Int)
           M == SUBSET Opt(RawMetric)
           O == Seq(Opt(RawOperation))
<1>1. RawService = [namespace : A, kind : A, replicas : B, rest : Rest, metrics : M, operations : O]
  BY Zenon DEF RawService
<1>2. a \in A /\ b \in A /\ c \in B /\ d \in Rest /\ e \in M /\ f \in O
  OBVIOUS
<1> HIDE DEF A, B, M, O
<1> QED
  BY <1>1, <1>2

ServiceKept(id, x, w, y) ==
  /\ w \in RawService /\ OperationsListed(x, w)
  /\ ServiceErrors(y) = {} /\ x.name = id /\ y.name = id /\ DOMAIN y.operations = DOMAIN x.operations
  /\ x.namespace # "" /\ y.namespace = x.namespace
  /\ \A n \in DOMAIN x.operations : y.operations[n].service = id /\ y.operations[n].name = n
  /\ ServiceWritten(x) => y = x

LEMMA ServiceAgain ==
  ASSUME NEW raw \in Opt(RawService), NEW id, NEW namespace \in Strings, namespace # "",
         NEW x, x = BuildService(id, Or(raw, ZeroService), namespace), ServiceErrors(x) = {},
         NEW w, w = marshalService(x, namespace), NEW y, y = BuildService(id, w, namespace)
  PROVE  ServiceKept(id, x, w, y)
<1>1. /\ x.replicas >= 1 /\ x.kind \in ServiceKinds /\ DOMAIN x.operations # {}
      /\ \A m \in x.metrics : ObservableErrors(m) = {}
      /\ \A n \in DOMAIN x.operations : OperationErrors(x.operations[n]) = {}
  BY ServiceErrorsAre, Zenon
<1>2. raw # Nil
  <2> SUFFICES ASSUME raw = Nil PROVE FALSE
    OBVIOUS
  <2>1. Or(raw, ZeroService) = ZeroService
    BY DEF Or
  <2>2. DOMAIN x.operations = {Or(ZeroService.operations[i], ZeroOperation).name : i \in DOMAIN ZeroService.operations}
    <3> DEFINE z == ZeroService
    <3>1. x = BuildService(id, z, namespace)
      BY <2>1
    <3> HIDE DEF z
    <3>2. DOMAIN x.operations = {Or(z.operations[i], ZeroOperation).name : i \in DOMAIN z.operations}
      BY <3>1, OperationNames
    <3> QED
      BY <3>2 DEF z
  <2>3. DOMAIN ZeroService.operations = {}
    <3>1. ZeroService.operations = <<>>
      BY DEF ZeroService
    <3>2. DOMAIN <<>> = {}
      BY EmptyDomain, Zenon
    <3> QED
      BY <3>1, <3>2, Zenon
  <2>4. DOMAIN x.operations = {}
    BY <2>2, <2>3, Zenon
  <2> QED
    BY <1>1, <2>4
<1>3. raw \in RawService /\ Or(raw, ZeroService) = raw
  BY <1>2 DEF Opt, Or
<1>4. /\ raw.namespace \in Strings /\ raw.replicas \in Opt(Int) /\ raw.rest \in Rest
      /\ raw.metrics \in SUBSET Opt(RawMetric) /\ raw.operations \in Seq(Opt(RawOperation))
  BY <1>3 DEF RawService
<1>5. x = BuildService(id, raw, namespace)
  BY <1>3
<1>6. /\ x.name = id /\ x.namespace = OrText(raw.namespace, namespace)
      /\ x.kind = Enum(raw.kind, "", ServiceKinds) /\ x.replicas = Or(raw.replicas, 1) /\ x.rest = raw.rest
      /\ x.metrics = Observables(raw.metrics)
      /\ x = [name |-> x.name, namespace |-> x.namespace, kind |-> x.kind, replicas |-> x.replicas,
              rest |-> x.rest, metrics |-> x.metrics, operations |-> x.operations]
  <2>1. ServiceBuilt(id, raw, namespace, x)
    BY <1>5, ServiceIs, Zenon
  <2> QED
    BY <2>1, Zenon DEF ServiceBuilt
<1>7. /\ w = [namespace |-> w.namespace, kind |-> w.kind, replicas |-> w.replicas, rest |-> w.rest,
              metrics |-> w.metrics, operations |-> w.operations]
      /\ w.namespace = UnlessText(x.namespace, namespace) /\ w.kind = x.kind
      /\ w.replicas = Unless(x.replicas, 1) /\ w.rest = x.rest
      /\ w.metrics = {marshalObservableMetric(m) : m \in x.metrics}
  <2>1. ServiceWrittenAs(x, namespace, w)
    BY MarshalServiceIs, Zenon
  <2> QED
    BY <2>1, Zenon DEF ServiceWrittenAs
<1>8. /\ y.name = id /\ y.namespace = OrText(w.namespace, namespace)
      /\ y.kind = Enum(w.kind, "", ServiceKinds) /\ y.replicas = Or(w.replicas, 1) /\ y.rest = w.rest
      /\ y.metrics = Observables(w.metrics)
      /\ y = [name |-> y.name, namespace |-> y.namespace, kind |-> y.kind, replicas |-> y.replicas,
              rest |-> y.rest, metrics |-> y.metrics, operations |-> y.operations]
  <2>1. ServiceBuilt(id, w, namespace, y)
    BY ServiceIs, Zenon
  <2> QED
    BY <2>1, Zenon DEF ServiceBuilt
<1>9. /\ w.operations \in Seq(Opt(RawOperation)) /\ OperationsListed(x, w)
      /\ DOMAIN y.operations = DOMAIN x.operations
      /\ \A n \in DOMAIN x.operations :
           /\ OperationErrors(y.operations[n]) = {}
           /\ y.operations[n].service = id /\ y.operations[n].name = n
           /\ OperationWritten(x.operations[n]) => y.operations[n] = x.operations[n]
  <2>1. OperationsKept(id, x, w, y)
    BY <1>1, <1>4, <1>5, OperationsAgain, Zenon
  <2> QED
    BY <2>1, Zenon DEF OperationsKept
<1>10. x.namespace # "" /\ y.namespace = x.namespace /\ w.namespace \in Strings
  <2>1. x.namespace # "" /\ OrText(UnlessText(x.namespace, namespace), namespace) = x.namespace
    <3>1. x.namespace = OrText(raw.namespace, namespace)
      BY <1>6
    <3> QED
      BY <3>1 DEF OrText, UnlessText
  <2>2. "" \in Strings
    BY DEF Strings, Literals
  <2>3. x.namespace \in Strings
    BY <1>4, <1>6 DEF OrText
  <2>4. w.namespace \in Strings
    BY <1>7, <2>2, <2>3 DEF UnlessText
  <2> QED
    BY <1>7, <1>8, <2>1, <2>4
<1>11. x.kind \in Strings /\ y.kind = x.kind
  <2>1. Enumeration(ServiceKinds)
    BY Enumerations, Zenon
  <2>2. x.kind \in Strings /\ Enum(x.kind, "", ServiceKinds) = x.kind
    BY <1>6, <2>1, KindAgain, Zenon
  <2> QED
    BY <1>7, <1>8, <2>2
<1>12. w.replicas \in Opt(Int) /\ y.replicas = x.replicas
  <2>1. x.replicas = Or(raw.replicas, 1) /\ w.replicas = Unless(x.replicas, 1) /\ y.replicas = Or(w.replicas, 1)
    BY <1>6, <1>7, <1>8
  <2>2. raw.replicas \in Opt(Int)
    BY <1>4
  <2> QED
    BY <2>1, <2>2, NumbersApart DEF Or, Unless, Opt
<1>13. /\ w.metrics \in SUBSET Opt(RawMetric) /\ \A m \in y.metrics : ObservableErrors(m) = {}
       /\ (\A m \in x.metrics : MetricWritten(m)) => y.metrics = x.metrics
  <2> DEFINE X == x.metrics
             W == w.metrics
  <2>1. X = Observables(raw.metrics) /\ W = {marshalObservableMetric(m) : m \in X} /\ y.metrics = Observables(W)
    BY <1>6, <1>7, <1>8, Zenon
  <2>2. \A m \in X : ObservableErrors(m) = {}
    BY <1>1, Zenon
  <2>3. raw.metrics \in SUBSET Opt(RawMetric)
    BY <1>4
  <2> HIDE DEF X, W
  <2>4. ObservablesKept(X, W)
    BY <2>1, <2>2, <2>3, ObservablesAgain, Zenon
  <2> QED
    BY <2>1, <2>4, Zenon DEF X, W, ObservablesKept
<1>14. w \in RawService
  <2> DEFINE a == w.namespace
             b == w.kind
             c == w.replicas
             d == w.rest
             e == w.metrics
             f == w.operations
  <2>1. /\ a \in Strings /\ b \in Strings /\ c \in Opt(Int) /\ d \in Rest /\ e \in SUBSET Opt(RawMetric)
        /\ f \in Seq(Opt(RawOperation))
    BY <1>4, <1>6, <1>7, <1>9, <1>10, <1>11, <1>12, <1>13
  <2>2. w = [namespace |-> a, kind |-> b, replicas |-> c, rest |-> d, metrics |-> e, operations |-> f]
    BY <1>7
  <2> HIDE DEF a, b, c, d, e, f
  <2> QED
    BY <2>1, <2>2, ServiceRecord, Zenon
<1>15. ServiceErrors(y) = {}
  <2>1. y.replicas >= 1 /\ y.kind \in ServiceKinds /\ DOMAIN y.operations # {}
    BY <1>1, <1>9, <1>11, <1>12
  <2>2. \A n \in DOMAIN y.operations : OperationErrors(y.operations[n]) = {}
    BY <1>9
  <2> QED
    BY <1>13, <2>1, <2>2, ServiceErrorsAre, Zenon
<1>16. ASSUME ServiceWritten(x) PROVE y = x
  <2>1. y.metrics = x.metrics
    BY <1>13, <1>16, Zenon DEF ServiceWritten
  <2>2. \A n \in DOMAIN x.operations : y.operations[n] = x.operations[n]
    BY <1>9, <1>16, Zenon DEF ServiceWritten
  <2>3. y.operations = x.operations
    <3>1. y.operations = [n \in DOMAIN y.operations |-> y.operations[n]]
      <4>1. w.operations \in Seq(Opt(RawOperation))
        BY <1>9
      <4> QED
        <5>1. OperationsFrom(id, w.operations, y.operations)
          BY <4>1, OperationsBuilt, Zenon
        <5> QED
          BY <5>1, Zenon DEF OperationsFrom
    <3>2. x.operations = [n \in DOMAIN x.operations |-> x.operations[n]]
      <4>1. OperationsFrom(id, raw.operations, x.operations)
        BY <1>4, <1>5, OperationsBuilt, Zenon
      <4> QED
        BY <4>1, Zenon DEF OperationsFrom
    <3>3. DOMAIN y.operations = DOMAIN x.operations
      BY <1>9
    <3> QED
      BY <2>2, <3>1, <3>2, <3>3
  <2>4. y.rest = x.rest /\ y.name = x.name
    BY <1>6, <1>7, <1>8
  <2> QED
    BY <1>6, <1>8, <1>10, <1>11, <1>12, <2>1, <2>3, <2>4, Zenon
<1> QED
  BY <1>6, <1>8, <1>9, <1>10, <1>14, <1>15, <1>16, Zenon DEF ServiceKept

-----------------------------------------------------------------------------
(* Calls.  An upper quantile of 0 is read as the median.                   *)
LatencyKept(l, w, m) ==
  /\ w \in Opt(RawLatency) /\ l.p50 \in Int
  /\ m.distribution = l.distribution /\ m.p50 = l.p50 /\ m.p95 = IF l.p95 = 0 THEN l.p50 ELSE l.p95
  /\ l = [distribution |-> l.distribution, p50 |-> l.p50, p95 |-> l.p95]
  /\ m = [distribution |-> m.distribution, p50 |-> m.p50, p95 |-> m.p95]

LEMMA LatencyAgain ==
  ASSUME NEW raw \in Opt(RawLatency), NEW l, l = Latency(raw), NEW w, w = marshalLatency(l), NEW m, m = Latency(w)
  PROVE  LatencyKept(l, w, m)
<1> DEFINE d == l.distribution
           a == l.p50
           b == l.p95
           wd == UnlessText(d, "constant")
           wa == Unless(a, 0)
           wb == IF b \in {0, a} THEN Nil ELSE b
<1>0. "constant" \in Strings /\ "" \in Strings /\ "constant" # ""
  BY DEF Strings, Literals, Distributions
<1>1. l = [distribution |-> d, p50 |-> a, p95 |-> b] /\ d \in Strings /\ d # "" /\ a \in Int /\ b \in Int
  <2>1. CASE raw = Nil
    <3> DEFINE c == "constant"
    <3>1. l = [distribution |-> c, p50 |-> 0, p95 |-> 0]
      BY <2>1, Zenon DEF Latency
    <3>2. c \in Strings /\ c # ""
      BY <1>0
    <3> HIDE DEF c
    <3>3. l.distribution = c /\ l.p50 = 0 /\ l.p95 = 0
      BY <3>1
    <3>4. l = [distribution |-> d, p50 |-> a, p95 |-> b]
      BY <3>1, <3>3, Zenon
    <3>5. l.distribution \in Strings /\ l.distribution # ""
      BY <3>2, <3>3, Zenon
    <3>6. l.p50 \in Int /\ l.p95 \in Int
      BY <3>3
    <3> QED
      BY <3>4, <3>5, <3>6, Zenon
  <2>2. CASE raw # Nil
    <3> DEFINE c == OrText(raw.distribution, "constant")
               p == Or(raw.p50, 0)
               q == Or(raw.p95, p)
    <3>1. l = [distribution |-> c, p50 |-> p, p95 |-> q]
      BY <2>2, Zenon DEF Latency
    <3>2. raw \in RawLatency
      BY <2>2 DEF Opt
    <3>3. raw.distribution \in Strings /\ raw.p50 \in Opt(Int) /\ raw.p95 \in Opt(Int)
      BY <3>2 DEF RawLatency
    <3>4. c \in Strings /\ c # ""
      BY <1>0, <3>3 DEF OrText
    <3>5. p \in Int /\ q \in Int
      BY <3>3 DEF Or, Opt
    <3> HIDE DEF c, p, q
    <3>6. l.distribution = c /\ l.p50 = p /\ l.p95 = q
      BY <3>1
    <3> QED
      BY <3>1, <3>4, <3>5, <3>6, Zenon
  <2> QED
    BY <2>1, <2>2
<1>2. /\ wd \in Strings /\ OrText(wd, "constant") = d
      /\ wa \in Opt(Int) /\ Or(wa, 0) = a
      /\ wb \in Opt(Int) /\ Or(wb, a) = IF b = 0 THEN a ELSE b
  <2> HIDE DEF d, a, b
  <2>1. wd \in Strings /\ OrText(wd, "constant") = d
    BY <1>0, <1>1 DEF UnlessText, OrText
  <2>2. wa \in Opt(Int) /\ Or(wa, 0) = a
    BY <1>1, NilApart DEF Unless, Opt, Or
  <2>3. wb \in Opt(Int) /\ Or(wb, a) = IF b = 0 THEN a ELSE b
    BY <1>1, NilApart DEF Opt, Or
  <2> QED
    BY <2>1, <2>2, <2>3
<1>3. w = IF d = "constant" /\ a = 0 /\ b = 0 THEN Nil ELSE [distribution |-> wd, p50 |-> wa, p95 |-> wb]
  BY Zenon DEF marshalLatency
<1> DEFINE z == d = "constant" /\ a = 0 /\ b = 0
<1> HIDE DEF d, a, b, wd, wa, wb
<1>4. CASE z
  <2>1. w = Nil
    BY <1>3, <1>4
  <2>2. d = "constant" /\ a = 0 /\ b = 0
    BY <1>4
  <2>3. m = [distribution |-> d, p50 |-> a, p95 |-> b]
    BY <2>1, <2>2, Zenon DEF Latency
  <2>4. m.distribution = d /\ m.p50 = a /\ m.p95 = b
    BY <2>3
  <2>5. w \in Opt(RawLatency)
    BY <2>1 DEF Opt
  <2>6. m.p95 = IF b = 0 THEN a ELSE b
    BY <2>2, <2>4
  <2> QED
    BY <1>1, <2>3, <2>4, <2>5, <2>6, Zenon DEF LatencyKept, d, a, b
<1>5. CASE ~z
  <2>1. w = [distribution |-> wd, p50 |-> wa, p95 |-> wb]
    BY <1>3, <1>5
  <2>2. wd \in Strings /\ wa \in Opt(Int) /\ wb \in Opt(Int)
    BY <1>2
  <2>3. w \in RawLatency
    BY <2>1, <2>2 DEF RawLatency
  <2>4. w # Nil /\ w \in Opt(RawLatency)
    BY <2>3, NilApart DEF Opt
  <2> DEFINE c == OrText(w.distribution, "constant")
             p == Or(w.p50, 0)
             q == Or(w.p95, p)
  <2>5. m = [distribution |-> c, p50 |-> p, p95 |-> q]
    BY <2>4, Zenon DEF Latency
  <2>6. w.distribution = wd /\ w.p50 = wa /\ w.p95 = wb
    BY <2>1
  <2>7. c = d /\ p = a /\ q = IF b = 0 THEN a ELSE b
    BY <1>2, <2>6, Zenon
  <2> HIDE DEF c, p, q
  <2>8. m.distribution = c /\ m.p50 = p /\ m.p95 = q
    BY <2>5
  <2>9. m = [distribution |-> m.distribution, p50 |-> m.p50, p95 |-> m.p95]
    BY <2>5, <2>8, Zenon
  <2> QED
    BY <1>1, <2>4, <2>7, <2>8, <2>9, Zenon DEF LatencyKept, d, a, b
<1> QED
  BY <1>4, <1>5

(* A recovery policy.                                                      *)
ReadPolicy(raw) ==
  IF raw = Nil THEN Nil
  ELSE [onExhausted |-> Enum(raw.onExhausted, "propagate", Exhausted), defaultResponse |-> raw.defaultResponse]

WritePolicy(p) ==
  IF p = Nil THEN Nil
  ELSE [onExhausted |-> UnlessText(p.onExhausted, "propagate"), defaultResponse |-> marshalMap(p.defaultResponse)]

PolicyWritten(p) == p # Nil => MapWritten(p.defaultResponse)

\* A policy and what it has become.
PolicyKept(x, y) ==
  /\ (x = Nil <=> y = Nil) /\ (x # Nil => y.onExhausted = x.onExhausted)
  /\ PolicyWritten(x) => y = x

LEMMA PolicyAgain ==
  ASSUME NEW raw \in Opt(RawPolicy), NEW x, x = ReadPolicy(raw), NEW w, w = WritePolicy(x),
         NEW y, y = ReadPolicy(w)
  PROVE  w \in Opt(RawPolicy) /\ PolicyKept(x, y)
<1> DEFINE v == Enum(raw.onExhausted, "propagate", Exhausted)
           wv == UnlessText(v, "propagate")
           map == raw.defaultResponse
           wmap == marshalMap(map)
<1>1. CASE raw = Nil
  <2>1. x = Nil /\ w = Nil /\ y = Nil
    BY <1>1, Zenon DEF WritePolicy, ReadPolicy
  <2> QED
    BY <2>1 DEF Opt, PolicyKept
<1>2. CASE raw # Nil
  <2>1. raw \in RawPolicy
    BY <1>2 DEF Opt
  <2>2. x = [onExhausted |-> v, defaultResponse |-> map]
    BY <1>2, Zenon DEF ReadPolicy
  <2>3. map \in Attributes
    BY <2>1 DEF RawPolicy
  <2>4. wv \in Strings /\ Enum(wv, "propagate", Exhausted) = v
    <3>1. Enumeration(Exhausted)
      BY Enumerations, Zenon
    <3>2. "propagate" \in Exhausted \union {""}
      BY DEF Exhausted
    <3>3. ReadAgain(v, "propagate", Exhausted)
      BY <3>1, <3>2, EnumAgain, Zenon
    <3> QED
      BY <3>3, Zenon DEF ReadAgain
  <2>5. wmap \in Attributes /\ (MapWritten(map) => wmap = map)
    BY <2>3, MapAgain
  <2>6. v \in Strings
    <3>1. v \in Exhausted \union {"unknown"}
      BY DEF Enum
    <3> QED
      BY <3>1 DEF Strings, Literals
  <2> HIDE DEF v, map
  <2>7. x.onExhausted = v /\ x.defaultResponse = map
    BY <2>2
  <2>8. x # Nil
    <3>1. x \in RawPolicy
      BY <2>2, <2>3, <2>6 DEF RawPolicy
    <3> QED
      BY <3>1, NilApart
  <2>9. w = [onExhausted |-> wv, defaultResponse |-> wmap]
    BY <2>7, <2>8, Zenon DEF WritePolicy
  <2> HIDE DEF wv, wmap
  <2>10. w.onExhausted = wv /\ w.defaultResponse = wmap
    BY <2>9
  <2>11. w \in RawPolicy
    BY <2>4, <2>5, <2>9 DEF RawPolicy
  <2>12. w # Nil
    BY <2>11, NilApart
  <2>13. y = [onExhausted |-> v, defaultResponse |-> wmap]
    BY <2>4, <2>10, <2>12, Zenon DEF ReadPolicy
  <2>14. y.onExhausted = v
    BY <2>13
  <2>15. y # Nil
    <3>1. y \in RawPolicy
      BY <2>5, <2>6, <2>13 DEF RawPolicy
    <3> QED
      BY <3>1, NilApart
  <2>16. ASSUME PolicyWritten(x) PROVE y = x
    <3>1. wmap = map
      BY <2>5, <2>7, <2>8, <2>16 DEF PolicyWritten
    <3> QED
      BY <2>2, <2>13, <3>1, Zenon
  <2> QED
    BY <2>7, <2>8, <2>11, <2>14, <2>15, <2>16 DEF Opt, PolicyKept
<1> QED
  BY <1>1, <1>2

EdgeRecord(e) ==
  e = [from |-> e.from, to |-> e.to, protocol |-> e.protocol, latency |-> e.latency, errorRate |-> e.errorRate,
       timeout |-> e.timeout, retries |-> e.retries, backoff |-> e.backoff, baseDelay |-> e.baseDelay,
       onFailure |-> e.onFailure]

\* What an edge is read from.
EdgeRead(owner, rc, e) ==
  /\ EdgeRecord(e) /\ e.from = owner /\ e.to = rc.to
  /\ e.protocol = Enum(rc.protocol, "", Protocols) /\ e.latency = Latency(rc.latency)
  /\ e.errorRate = Or(rc.errorRate, 0) /\ e.timeout = Or(rc.timeout, 0) /\ e.retries = Or(rc.retries, 0)
  /\ e.backoff = Enum(rc.backoff, "exponential", Backoffs)
  /\ e.baseDelay = Or(rc.baseDelay, DefaultRetryBaseDelay) /\ e.onFailure = ReadPolicy(rc.onFailure)

LEMMA EdgeReadIs ==
  ASSUME NEW owner, NEW rc, rc.to # Nil, NEW e, e = resolveCallNode(owner, rc)
  PROVE  EdgeRead(owner, rc, e)
<1> DEFINE a == rc.to
           b == Enum(rc.protocol, "", Protocols)
           c == Latency(rc.latency)
           d == Or(rc.errorRate, 0)
           t == Or(rc.timeout, 0)
           r == Or(rc.retries, 0)
           g == Enum(rc.backoff, "exponential", Backoffs)
           h == Or(rc.baseDelay, DefaultRetryBaseDelay)
           i == ReadPolicy(rc.onFailure)
<1>1. e = [from |-> owner, to |-> a, protocol |-> b, latency |-> c, errorRate |-> d, timeout |-> t, retries |-> r,
           backoff |-> g, baseDelay |-> h, onFailure |-> i]
  BY Zenon DEF resolveCallNode, ReadPolicy
<1> HIDE DEF a, b, c, d, t, r, g, h, i
<1>2. /\ e.from = owner /\ e.to = a /\ e.protocol = b /\ e.latency = c /\ e.errorRate = d /\ e.timeout = t
      /\ e.retries = r /\ e.backoff = g /\ e.baseDelay = h /\ e.onFailure = i
  BY <1>1
<1>3. EdgeRecord(e)
  BY <1>1, <1>2, Zenon DEF EdgeRecord
<1> QED
  BY <1>2, <1>3, Zenon DEF EdgeRead, a, b, c, d, t, r, g, h, i

\* What an edge is written as.
EdgeWrittenAs(e, w) ==
  /\ w = [to |-> w.to, protocol |-> w.protocol, latency |-> w.latency, errorRate |-> w.errorRate,
          timeout |-> w.timeout, retries |-> w.retries, backoff |-> w.backoff, baseDelay |-> w.baseDelay,
          onFailure |-> w.onFailure]
  /\ w.to = e.to /\ w.protocol = e.protocol /\ w.latency = marshalLatency(e.latency)
  /\ w.errorRate = Unless(e.errorRate, 0) /\ w.timeout = Unless(e.timeout, 0) /\ w.retries = Unless(e.retries, 0)
  /\ w.backoff = UnlessText(e.backoff, "exponential")
  /\ w.baseDelay = IF e.baseDelay \in {0, DefaultRetryBaseDelay} THEN Nil ELSE e.baseDelay
  /\ w.onFailure = WritePolicy(e.onFailure)

LEMMA EdgeWrittenIs ==
  ASSUME NEW e, e.to # Nil, NEW w, w = marshalCallNode(e)
  PROVE  EdgeWrittenAs(e, w)
<1> DEFINE a == e.to
           b == e.protocol
           c == marshalLatency(e.latency)
           d == Unless(e.errorRate, 0)
           t == Unless(e.timeout, 0)
           r == Unless(e.retries, 0)
           g == UnlessText(e.backoff, "exponential")
           h == IF e.baseDelay \in {0, DefaultRetryBaseDelay} THEN Nil ELSE e.baseDelay
           i == WritePolicy(e.onFailure)
<1>1. w = [to |-> a, protocol |-> b, latency |-> c, errorRate |-> d, timeout |-> t, retries |-> r,
           backoff |-> g, baseDelay |-> h, onFailure |-> i]
  BY Zenon DEF marshalCallNode, WritePolicy
<1> HIDE DEF a, b, c, d, t, r, g, h, i
<1>2. /\ w.to = a /\ w.protocol = b /\ w.latency = c /\ w.errorRate = d /\ w.timeout = t
      /\ w.retries = r /\ w.backoff = g /\ w.baseDelay = h /\ w.onFailure = i
  BY <1>1
<1>3. w = [to |-> w.to, protocol |-> w.protocol, latency |-> w.latency, errorRate |-> w.errorRate,
           timeout |-> w.timeout, retries |-> w.retries, backoff |-> w.backoff, baseDelay |-> w.baseDelay,
           onFailure |-> w.onFailure]
  BY <1>1, <1>2, Zenon
<1> QED
  BY <1>2, <1>3, Zenon DEF EdgeWrittenAs, a, b, c, d, t, r, g, h, i

LEMMA CallRecord ==
  ASSUME NEW w,
         w.to \in Opt(Name \X Name), w.protocol \in Strings, w.latency \in Opt(RawLatency),
         w.errorRate \in Opt(Number), w.timeout \in Opt(Int), w.retries \in Opt(Int), w.backoff \in Strings,
         w.baseDelay \in Opt(Int), w.onFailure \in Opt(RawPolicy),
         w = [to |-> w.to, protocol |-> w.protocol, latency |-> w.latency, errorRate |-> w.errorRate,
              timeout |-> w.timeout, retries |-> w.retries, backoff |-> w.backoff, baseDelay |-> w.baseDelay,
              onFailure |-> w.onFailure]
  PROVE  w \in RawCall
BY DEF RawCall

\* An edge and what it has become.
EdgeKept(e, f) ==
  /\ EdgeRecord(e) /\ EdgeRecord(f)
  /\ f.from = e.from /\ f.to = e.to /\ f.protocol = e.protocol /\ f.errorRate = e.errorRate
  /\ f.timeout = e.timeout /\ f.retries = e.retries /\ f.backoff = e.backoff
  /\ PolicyKept(e.onFailure, f.onFailure)
  /\ f.baseDelay = IF e.baseDelay = 0 THEN DefaultRetryBaseDelay ELSE e.baseDelay
  /\ \E w : LatencyKept(e.latency, w, f.latency)

LEMMA EdgeAgain ==
  ASSUME NEW rc \in RawCall, rc.to # Nil, NEW owner, NEW e, e = resolveCallNode(owner, rc),
         NEW w, w = marshalCallNode(e), NEW f, f = resolveCallNode(owner, w)
  PROVE  w \in RawCall /\ w.to = e.to /\ EdgeKept(e, f)
<1>1. /\ rc.to \in Opt(Name \X Name) /\ rc.latency \in Opt(RawLatency) /\ rc.errorRate \in Opt(Number)
      /\ rc.timeout \in Opt(Int) /\ rc.retries \in Opt(Int) /\ rc.baseDelay \in Opt(Int)
      /\ rc.onFailure \in Opt(RawPolicy)
  BY DEF RawCall
<1>2. EdgeRead(owner, rc, e)
  BY EdgeReadIs, Zenon
<1>3. /\ EdgeRecord(e) /\ e.from = owner /\ e.to = rc.to
      /\ e.protocol = Enum(rc.protocol, "", Protocols) /\ e.latency = Latency(rc.latency)
      /\ e.errorRate = Or(rc.errorRate, 0) /\ e.timeout = Or(rc.timeout, 0) /\ e.retries = Or(rc.retries, 0)
      /\ e.backoff = Enum(rc.backoff, "exponential", Backoffs)
      /\ e.baseDelay = Or(rc.baseDelay, DefaultRetryBaseDelay) /\ e.onFailure = ReadPolicy(rc.onFailure)
  BY <1>2, Zenon DEF EdgeRead
<1>4. EdgeWrittenAs(e, w)
  BY <1>3, EdgeWrittenIs, Zenon
<1>5. /\ w = [to |-> w.to, protocol |-> w.protocol, latency |-> w.latency, errorRate |-> w.errorRate,
              timeout |-> w.timeout, retries |-> w.retries, backoff |-> w.backoff, baseDelay |-> w.baseDelay,
              onFailure |-> w.onFailure]
      /\ w.to = e.to /\ w.protocol = e.protocol /\ w.latency = marshalLatency(e.latency)
      /\ w.errorRate = Unless(e.errorRate, 0) /\ w.timeout = Unless(e.timeout, 0) /\ w.retries = Unless(e.retries, 0)
      /\ w.backoff = UnlessText(e.backoff, "exponential")
      /\ w.baseDelay = IF e.baseDelay \in {0, DefaultRetryBaseDelay} THEN Nil ELSE e.baseDelay
      /\ w.onFailure = WritePolicy(e.onFailure)
  BY <1>4, Zenon DEF EdgeWrittenAs
<1>6. w.to # Nil
  BY <1>3, <1>5
<1>7. EdgeRead(owner, w, f)
  BY <1>6, EdgeReadIs, Zenon
<1>8. /\ EdgeRecord(f) /\ f.from = owner /\ f.to = w.to
      /\ f.protocol = Enum(w.protocol, "", Protocols) /\ f.latency = Latency(w.latency)
      /\ f.errorRate = Or(w.errorRate, 0) /\ f.timeout = Or(w.timeout, 0) /\ f.retries = Or(w.retries, 0)
      /\ f.backoff = Enum(w.backoff, "exponential", Backoffs)
      /\ f.baseDelay = Or(w.baseDelay, DefaultRetryBaseDelay) /\ f.onFailure = ReadPolicy(w.onFailure)
  BY <1>7, Zenon DEF EdgeRead
<1>9. w.protocol \in Strings /\ f.protocol = e.protocol
  <2>1. Enumeration(Protocols)
    BY Enumerations, Zenon
  <2>2. e.protocol \in Strings /\ Enum(e.protocol, "", Protocols) = e.protocol
    <3>1. e.protocol = Enum(rc.protocol, "", Protocols)
      BY <1>3
    <3> QED
      BY <2>1, <3>1, KindAgain, Zenon
  <2> QED
    BY <1>5, <1>8, <2>2, Zenon
<1>10. w.backoff \in Strings /\ f.backoff = e.backoff
  <2>1. Enumeration(Backoffs)
    BY Enumerations, Zenon
  <2>2. "exponential" \in Backoffs \union {""}
    BY DEF Backoffs
  <2>3. ReadAgain(e.backoff, "exponential", Backoffs)
    BY <1>3, <2>1, <2>2, EnumAgain, Zenon
  <2>4. UnlessText(e.backoff, "exponential") \in Strings
        /\ Enum(UnlessText(e.backoff, "exponential"), "exponential", Backoffs) = e.backoff
    BY <2>3, Zenon DEF ReadAgain
  <2> QED
    BY <1>5, <1>8, <2>4, Zenon
<1>11. w.errorRate \in Opt(Number) /\ f.errorRate = e.errorRate
  BY <1>1, <1>3, <1>5, <1>8, NumbersApart DEF Or, Unless, Opt, Number
<1>12. w.timeout \in Opt(Int) /\ f.timeout = e.timeout
  BY <1>1, <1>3, <1>5, <1>8, NumbersApart DEF Or, Unless, Opt
<1>13. w.retries \in Opt(Int) /\ f.retries = e.retries
  BY <1>1, <1>3, <1>5, <1>8, NumbersApart DEF Or, Unless, Opt
<1>14. w.baseDelay \in Opt(Int) /\ f.baseDelay = IF e.baseDelay = 0 THEN DefaultRetryBaseDelay ELSE e.baseDelay
  BY <1>1, <1>3, <1>5, <1>8, NumbersApart DEF Or, Opt, DefaultRetryBaseDelay
<1>15. w.onFailure \in Opt(RawPolicy) /\ PolicyKept(e.onFailure, f.onFailure)
  <2> DEFINE raw == rc.onFailure
             x == e.onFailure
             p == w.onFailure
             y == f.onFailure
  <2>1. raw \in Opt(RawPolicy)
    BY <1>1
  <2>2. x = ReadPolicy(raw) /\ p = WritePolicy(x) /\ y = ReadPolicy(p)
    BY <1>3, <1>5, <1>8
  <2> HIDE DEF raw, x, p, y
  <2>3. p \in Opt(RawPolicy) /\ PolicyKept(x, y)
    BY <2>1, <2>2, PolicyAgain, Zenon
  <2> QED
    BY <2>3 DEF x, p, y
<1>16. LatencyKept(e.latency, w.latency, f.latency)
  BY <1>1, <1>3, <1>5, <1>8, LatencyAgain, Zenon
<1>17. w.latency \in Opt(RawLatency)
  BY <1>16, Zenon DEF LatencyKept
<1>18. w.to \in Opt(Name \X Name)
  BY <1>1, <1>3, <1>5
<1>19. w \in RawCall
  BY <1>5, <1>9, <1>10, <1>11, <1>12, <1>13, <1>14, <1>15, <1>17, <1>18, CallRecord, Zenon
<1>20. EdgeKept(e, f)
  BY <1>3, <1>5, <1>8, <1>9, <1>10, <1>11, <1>12, <1>13, <1>14, <1>15, <1>16, Zenon DEF EdgeKept
<1> QED
  BY <1>5, <1>19, <1>20

LEMMA EdgeErrorsAre ==
  ASSUME NEW e
  PROVE  EdgeErrors(e) = {} <=>
           /\ e.protocol \in Protocols /\ e.backoff \in Backoffs
           /\ e.onFailure # Nil => e.onFailure.onExhausted \in Exhausted
           /\ Probability(e.errorRate) /\ e.timeout >= 0 /\ e.retries >= 0 /\ e.baseDelay >= 0
           /\ e.latency.p95 >= e.latency.p50 /\ e.latency.p50 >= 0 /\ e.latency.distribution \in Distributions
<1> DEFINE a == /\ e.protocol \in Protocols /\ e.backoff \in Backoffs
                /\ e.onFailure # Nil => e.onFailure.onExhausted \in Exhausted
           b == Probability(e.errorRate)
           c == e.timeout >= 0
           d == e.retries >= 0 /\ e.baseDelay >= 0
           g == e.latency.p95 >= e.latency.p50
           h == e.latency.p50 >= 0
           i == e.latency.distribution \in Distributions
<1>1. EdgeErrors(e) = (IF a THEN {} ELSE {"D_ENUM"}) \union (IF b THEN {} ELSE {"D_2"})
                      \union (IF c THEN {} ELSE {"D_3"}) \union (IF d THEN {} ELSE {"D_4"})
                      \union (IF g THEN {} ELSE {"D_5"}) \union (IF h THEN {} ELSE {"D_6"})
                      \union (IF i THEN {} ELSE {"D_7"})
  BY Zenon DEF EdgeErrors
<1> HIDE DEF a, b, c, d, g, h, i
<1>2. EdgeErrors(e) = {} <=> a /\ b /\ c /\ d /\ g /\ h /\ i
  BY <1>1
<1> QED
  BY <1>2, Zenon DEF a, b, c, d, g, h, i

NamedEdge(e) ==
  [from |-> identifyOp(e.from), to |-> identifyOp(e.to), protocol |-> e.protocol, latency |-> e.latency,
   errorRate |-> e.errorRate, timeout |-> e.timeout, retries |-> e.retries, backoff |-> e.backoff,
   baseDelay |-> IF e.baseDelay = 0 THEN DefaultRetryBaseDelay ELSE e.baseDelay, onFailure |-> e.onFailure]

LEMMA NamedCallIs ==
  ASSUME NEW e, EdgeRecord(e), e.to # Nil
  PROVE  NamedCall(e) = NamedEdge(e)
<1> DEFINE a == e.from
           b == e.to
           c == e.protocol
           d == e.latency
           g == e.errorRate
           h == e.timeout
           i == e.retries
           j == e.backoff
           k == e.baseDelay
           l == e.onFailure
           na == identifyOp(a)
           nb == identifyOp(b)
           nk == IF k = 0 THEN DefaultRetryBaseDelay ELSE k
           e1 == [e EXCEPT !.from = na]
           e2 == [e1 EXCEPT !.to = nb]
           e3 == [e2 EXCEPT !.baseDelay = nk]
<1>1. NamedCall(e) = [e EXCEPT !.from = identifyOp(@), !.to = identifyOp(@),
                        !.baseDelay = IF @ = 0 THEN DefaultRetryBaseDelay ELSE @]
  BY Zenon DEF NamedCall
<1>2. e = [from |-> a, to |-> b, protocol |-> c, latency |-> d, errorRate |-> g, timeout |-> h, retries |-> i,
           backoff |-> j, baseDelay |-> k, onFailure |-> l]
  BY Zenon DEF EdgeRecord
<1>3. NamedCall(e) = e3
  BY <1>1
<1> HIDE DEF a, b, c, d, g, h, i, j, k, l, na, nb, nk
<1>4. e1 = [from |-> na, to |-> b, protocol |-> c, latency |-> d, errorRate |-> g, timeout |-> h, retries |-> i,
            backoff |-> j, baseDelay |-> k, onFailure |-> l]
  BY <1>2
<1> HIDE DEF e1
<1>5. e2 = [from |-> na, to |-> nb, protocol |-> c, latency |-> d, errorRate |-> g, timeout |-> h, retries |-> i,
            backoff |-> j, baseDelay |-> k, onFailure |-> l]
  BY <1>4
<1> HIDE DEF e2
<1>6. e3 = [from |-> na, to |-> nb, protocol |-> c, latency |-> d, errorRate |-> g, timeout |-> h, retries |-> i,
            backoff |-> j, baseDelay |-> nk, onFailure |-> l]
  BY <1>5
<1> HIDE DEF e3
<1> QED
  BY <1>3, <1>6, Zenon DEF NamedEdge, a, b, c, d, g, h, i, j, k, l, na, nb, nk

LEMMA EdgeSame ==
  ASSUME NEW e, NEW f, EdgeKept(e, f)
  PROVE  /\ EdgeErrors(e) = {} => EdgeErrors(f) = {}
         /\ e.to # Nil /\ (e.latency.p95 = 0 => e.latency.p50 = 0) /\ PolicyWritten(e.onFailure)
              => NamedCall(f) = NamedCall(e)
<1>1. /\ EdgeRecord(e) /\ EdgeRecord(f)
      /\ f.from = e.from /\ f.to = e.to /\ f.protocol = e.protocol /\ f.errorRate = e.errorRate
      /\ f.timeout = e.timeout /\ f.retries = e.retries /\ f.backoff = e.backoff
      /\ PolicyKept(e.onFailure, f.onFailure)
      /\ f.baseDelay = IF e.baseDelay = 0 THEN DefaultRetryBaseDelay ELSE e.baseDelay
  BY Zenon DEF EdgeKept
<1> DEFINE l == e.latency
           m == f.latency
<1>2. /\ l.p50 \in Int /\ m.distribution = l.distribution /\ m.p50 = l.p50 /\ m.p95 = IF l.p95 = 0 THEN l.p50 ELSE l.p95
      /\ l = [distribution |-> l.distribution, p50 |-> l.p50, p95 |-> l.p95]
      /\ m = [distribution |-> m.distribution, p50 |-> m.p50, p95 |-> m.p95]
  BY Zenon DEF EdgeKept, LatencyKept
<1>3. ASSUME l.p95 = 0 => l.p50 = 0 PROVE m = l
  <2>1. m.p95 = l.p95
    BY <1>2, <1>3
  <2> QED
    BY <1>2, <2>1, Zenon
<1>4. ASSUME EdgeErrors(e) = {} PROVE EdgeErrors(f) = {}
  <2>1. /\ e.protocol \in Protocols /\ e.backoff \in Backoffs
        /\ e.onFailure # Nil => e.onFailure.onExhausted \in Exhausted
        /\ Probability(e.errorRate) /\ e.timeout >= 0 /\ e.retries >= 0 /\ e.baseDelay >= 0
        /\ l.p95 >= l.p50 /\ l.p50 >= 0 /\ l.distribution \in Distributions
    BY <1>4, EdgeErrorsAre, Zenon
  <2>2. f.baseDelay >= 0
    <3> DEFINE written == e.baseDelay
               read == f.baseDelay
    <3>1. read = IF written = 0 THEN DefaultRetryBaseDelay ELSE written
      BY <1>1
    <3>2. written >= 0
      BY <2>1
    <3>3. DefaultRetryBaseDelay >= 0
      BY DEF DefaultRetryBaseDelay
    <3> HIDE DEF written, read
    <3>4. read >= 0
      BY <3>1, <3>2, <3>3
    <3> QED
      BY <3>4 DEF read
  <2>3. m.p95 >= m.p50
    <3> DEFINE low == l.p50
               high == l.p95
               read == m.p95
    <3>1. read = IF high = 0 THEN low ELSE high
      BY <1>2
    <3>2. high >= low /\ low >= 0 /\ low \in Int
      BY <1>2, <2>1
    <3>3. m.p50 = low
      BY <1>2
    <3> HIDE DEF low, high, read
    <3>4. read >= low
      BY <3>1, <3>2
    <3> QED
      BY <3>3, <3>4, Zenon DEF read
  <2>4. /\ f.protocol \in Protocols /\ f.backoff \in Backoffs
        /\ Probability(f.errorRate) /\ f.timeout >= 0 /\ f.retries >= 0
        /\ m.p50 >= 0 /\ m.distribution \in Distributions
    BY <1>1, <1>2, <2>1, Zenon
  <2>5. f.onFailure # Nil => f.onFailure.onExhausted \in Exhausted
    BY <1>1, <2>1, Zenon DEF PolicyKept
  <2> QED
    BY <2>2, <2>3, <2>4, <2>5, EdgeErrorsAre, Zenon
<1>5. ASSUME e.to # Nil, l.p95 = 0 => l.p50 = 0, PolicyWritten(e.onFailure)
      PROVE  NamedCall(f) = NamedCall(e)
  <2>1. m = l
    BY <1>3, <1>5
  <2>2. NamedCall(e) = NamedEdge(e) /\ NamedCall(f) = NamedEdge(f)
    BY <1>1, <1>5, NamedCallIs
  <2>3. (IF f.baseDelay = 0 THEN DefaultRetryBaseDelay ELSE f.baseDelay) =
        (IF e.baseDelay = 0 THEN DefaultRetryBaseDelay ELSE e.baseDelay)
    BY <1>1 DEF DefaultRetryBaseDelay
  <2>4. NamedEdge(e) = NamedEdge(f)
    <3>1. f.onFailure = e.onFailure
      BY <1>1, <1>5, Zenon DEF PolicyKept
    <3> QED
      BY <1>1, <2>1, <2>3, <3>1, Zenon DEF NamedEdge
  <2> QED
    BY <2>2, <2>4
<1> QED
  BY <1>4, <1>5

-----------------------------------------------------------------------------
(* What Validate says of a schema it accepts, and what it takes to say so. *)
Rules(s) ==
  /\ \A id \in DOMAIN s.services : s.services[id].name = id
  /\ BackPointers(s) /\ NoOrphans(s) /\ Unvisited(s) = {} /\ StepsReachable(s)
  /\ \A f \in ToSet(s.faults) : TargetFound(s, f.target)
  /\ CallVariants(s) /\ FallbacksOwned(s)

DomainRules(s) ==
  /\ DOMAIN s.services # {} /\ DOMAIN s.journeys # {}
  /\ \A id \in DOMAIN s.services : ServiceErrors(s.services[id]) = {}
  /\ \A at \in AllEdges(s) : EdgeErrors(s.calls[at]) = {}
  /\ \A name \in DOMAIN s.journeys : JourneyErrors(s, name) = {}
  /\ \A f \in ToSet(s.faults) : FaultErrors(f) = {}

LEMMA DomainErrorsAre ==
  ASSUME NEW s
  PROVE  DomainErrors(s) = {} <=> DomainRules(s)
<1> DEFINE a == IF DOMAIN s.services = {} THEN {"D_13"} ELSE {}
           b == IF DOMAIN s.journeys = {} THEN {"D_14"} ELSE {}
           c == UNION {ServiceErrors(s.services[id]) : id \in DOMAIN s.services}
           d == UNION {EdgeErrors(s.calls[at]) : at \in AllEdges(s)}
           e == UNION {JourneyErrors(s, name) : name \in DOMAIN s.journeys}
           g == UNION {FaultErrors(f) : f \in ToSet(s.faults)}
<1>1. DomainErrors(s) = a \union b \union c \union d \union e \union g
  BY Zenon DEF DomainErrors
<1>2. (a = {} <=> DOMAIN s.services # {}) /\ (b = {} <=> DOMAIN s.journeys # {})
  OBVIOUS
<1>3. c = {} <=> \A id \in DOMAIN s.services : ServiceErrors(s.services[id]) = {}
  OBVIOUS
<1>4. d = {} <=> \A at \in AllEdges(s) : EdgeErrors(s.calls[at]) = {}
  OBVIOUS
<1>5. e = {} <=> \A name \in DOMAIN s.journeys : JourneyErrors(s, name) = {}
  OBVIOUS
<1>6. g = {} <=> \A f \in ToSet(s.faults) : FaultErrors(f) = {}
  OBVIOUS
<1> HIDE DEF a, b, c, d, e, g
<1>7. a \union b \union c \union d \union e \union g = {} <=>
        a = {} /\ b = {} /\ c = {} /\ d = {} /\ e = {} /\ g = {}
  OBVIOUS
<1> QED
  BY <1>1, <1>2, <1>3, <1>4, <1>5, <1>6, <1>7, Zenon DEF DomainRules

LEMMA ValidateIs ==
  ASSUME NEW s
  PROVE  Validate(s) = {} <=> Rules(s) /\ DomainRules(s)
<1> DEFINE D == DomainErrors(s)
           a == \A id \in DOMAIN s.services : s.services[id].name = id
           b == BackPointers(s)
           c == NoOrphans(s)
           d == Unvisited(s) = {}
           e == StepsReachable(s)
           f == \A x \in ToSet(s.faults) : TargetFound(s, x.target)
           g == CallVariants(s)
           h == FallbacksOwned(s)
           rules == [R_STR_1 |-> a, R_STR_2 |-> b, R_STR_3 |-> c, R_STR_4 |-> d,
                     R_STR_5 |-> e, R_STR_6 |-> f, R_STR_7 |-> g, R_STR_8 |-> h]
<1>1. Validate(s) = {r \in DOMAIN rules : ~rules[r]} \union D
  BY Zenon DEF Validate
<1> HIDE DEF a, b, c, d, e, f, g, h, D
<1>2. DOMAIN rules = {"R_STR_1", "R_STR_2", "R_STR_3", "R_STR_4", "R_STR_5", "R_STR_6", "R_STR_7", "R_STR_8"}
  OBVIOUS
<1>3. {r \in DOMAIN rules : ~rules[r]} = {} <=> a /\ b /\ c /\ d /\ e /\ f /\ g /\ h
  BY <1>2
<1> HIDE DEF rules
<1>4. Validate(s) = {} <=> a /\ b /\ c /\ d /\ e /\ f /\ g /\ h /\ D = {}
  BY <1>1, <1>3
<1>5. D = {} <=> DomainRules(s)
  BY DomainErrorsAre DEF D
<1> QED
  BY <1>4, <1>5, Zenon DEF Rules, a, b, c, d, e, f, g, h

-----------------------------------------------------------------------------
(* The document that is written of a schema, key by key.                   *)
JourneyText(s, name) == [weight |-> Unless(s.journeys[name].weight, 10)]

FaultText(s, f) ==
  [target |-> marshalFaultTarget(s, f.target), kind |-> f.kind, severity |-> marshalSeverity(f.severity),
   schedule |-> f.schedule]

MarshaledAs(s, t) ==
  /\ t.namespace = UnlessText(s.namespace, DefaultNamespace)
  /\ DOMAIN t.services = DOMAIN s.services
  /\ \A id \in DOMAIN s.services :
       t.services[id] = marshalService(s.services[id], effectiveNamespace(s.namespace))
  /\ t.calls = marshalCalls(s)
  /\ DOMAIN t.journeys = DOMAIN s.journeys
  /\ \A name \in DOMAIN s.journeys : t.journeys[name] = JourneyText(s, name)
  /\ DOMAIN t.steps = DOMAIN s.steps
  /\ \A k \in DOMAIN s.steps : t.steps[k] = marshalStep(s.steps[k])
  /\ DOMAIN t.faults = DOMAIN s.faults
  /\ \A i \in DOMAIN s.faults : t.faults[i] = FaultText(s, s.faults[i])

LEMMA MarshaledIs ==
  ASSUME NEW s, NEW t, t = MarshalYAML(s)
  PROVE  MarshaledAs(s, t)
<1> DEFINE a == UnlessText(s.namespace, DefaultNamespace)
           b == [id \in DOMAIN s.services |-> marshalService(s.services[id], effectiveNamespace(s.namespace))]
           c == marshalCalls(s)
           d == [name \in DOMAIN s.journeys |-> JourneyText(s, name)]
           e == [k \in DOMAIN s.steps |-> marshalStep(s.steps[k])]
           f == [i \in DOMAIN s.faults |-> FaultText(s, s.faults[i])]
<1>1. t = [namespace |-> a, services |-> b, calls |-> c, journeys |-> d, steps |-> e, faults |-> f]
  BY Zenon DEF MarshalYAML, MapSeq, JourneyText, FaultText
<1>2. /\ DOMAIN b = DOMAIN s.services
      /\ \A id \in DOMAIN s.services :
           b[id] = marshalService(s.services[id], effectiveNamespace(s.namespace))
  OBVIOUS
<1>3. DOMAIN d = DOMAIN s.journeys /\ \A name \in DOMAIN s.journeys : d[name] = JourneyText(s, name)
  OBVIOUS
<1>4. DOMAIN e = DOMAIN s.steps /\ \A k \in DOMAIN s.steps : e[k] = marshalStep(s.steps[k])
  OBVIOUS
<1>5. DOMAIN f = DOMAIN s.faults /\ \A i \in DOMAIN s.faults : f[i] = FaultText(s, s.faults[i])
  OBVIOUS
<1> HIDE DEF b, c, d, e, f
<1>6. t.namespace = a /\ t.services = b /\ t.calls = c /\ t.journeys = d /\ t.steps = e /\ t.faults = f
  BY <1>1
<1> QED
  BY <1>2, <1>3, <1>4, <1>5, <1>6, Zenon DEF MarshaledAs, c

-----------------------------------------------------------------------------
(* The services of the document that is written.                           *)
ServicesKept(s, t, D) ==
  /\ s.namespace # "" /\ s.namespace \in Strings /\ D.namespace = s.namespace
  /\ DOMAIN t.services = DOMAIN s.services /\ DOMAIN D.services = DOMAIN s.services
  /\ \A id \in DOMAIN s.services : ServiceKept(id, s.services[id], t.services[id], D.services[id])

LEMMA NamespaceSame ==
  ASSUME NEW raw
  PROVE  WithCalls(raw).namespace = buildSchema(raw).namespace
<1> DEFINE B == buildSchema(raw)
           C == WithCalls(raw)
<1>1. \E calls : C = [B EXCEPT !.calls = calls]
  BY Zenon DEF WithCalls, resolveCalls
<1>2. \E n, s : B = [namespace |-> n, services |-> s, calls |-> <<>>, journeys |-> <<>>,
                    steps |-> <<>>, faults |-> <<>>]
  BY Zenon DEF buildSchema
<1> HIDE DEF B, C
<1>3. C.namespace = B.namespace
  BY <1>1, <1>2
<1> QED
  BY <1>3 DEF B, C

LEMMA ServicesAgain ==
  ASSUME NEW raw, Sound(raw), NEW s, s = Resolve(raw).schema, Validate(s) = {},
         NEW t, t = MarshalYAML(s), NEW D, D = buildSchema(t)
  PROVE  ServicesKept(s, t, D)
<1> DEFINE B == buildSchema(raw)
           n == s.namespace
<1> DEFINE C == WithCalls(raw)
<1>0. B = buildSchema(raw) /\ C = WithCalls(raw)
  OBVIOUS
<1> HIDE DEF B, C
<1>a. s.services = C.services /\ s.namespace = C.namespace
  BY <1>0, SchemaIs
<1>b. C.services = B.services /\ C.namespace = B.namespace
  BY <1>0, ServicesSame, NamespaceSame, Zenon
<1>1. s.services = B.services /\ n = B.namespace
  BY <1>a, <1>b
<1>c. /\ B.namespace = OrText(raw.namespace, DefaultNamespace) /\ DOMAIN B.services = DOMAIN raw.services
      /\ \A id \in DOMAIN raw.services :
           B.services[id] = BuildService(id, Or(raw.services[id], ZeroService), B.namespace)
  BY <1>0, BuildIs
<1>2. /\ n = OrText(raw.namespace, DefaultNamespace) /\ DOMAIN B.services = DOMAIN raw.services
      /\ \A id \in DOMAIN raw.services : B.services[id] = BuildService(id, Or(raw.services[id], ZeroService), n)
  BY <1>1, <1>c, Zenon
<1>3. raw.namespace \in Strings /\ \A id \in DOMAIN raw.services : raw.services[id] \in Opt(RawService)
  BY Zenon DEF Sound, RawSchema
<1>4. n \in Strings /\ n # "" /\ OrText(UnlessText(n, DefaultNamespace), DefaultNamespace) = n
  BY <1>2, <1>3, NamespaceNotEmpty DEF OrText, UnlessText
<1>5. effectiveNamespace(n) = n
  BY <1>4, Zenon DEF effectiveNamespace, OrText
<1>6. MarshaledAs(s, t)
  BY MarshaledIs
<1>7. /\ t.namespace = UnlessText(n, DefaultNamespace) /\ DOMAIN t.services = DOMAIN s.services
      /\ \A id \in DOMAIN s.services : t.services[id] = marshalService(s.services[id], n)
  BY <1>5, <1>6, Zenon DEF MarshaledAs
<1>8. /\ D.namespace = OrText(t.namespace, DefaultNamespace) /\ DOMAIN D.services = DOMAIN t.services
      /\ \A id \in DOMAIN t.services : D.services[id] = BuildService(id, Or(t.services[id], ZeroService), D.namespace)
  BY BuildIs, Zenon
<1>9. D.namespace = n
  BY <1>4, <1>7, <1>8, Zenon
<1>10. DomainRules(s)
  BY ValidateIs, Zenon
<1>11. ASSUME NEW id \in DOMAIN s.services
       PROVE  ServiceKept(id, s.services[id], t.services[id], D.services[id])
  <2> DEFINE x == s.services[id]
             w == t.services[id]
             y == D.services[id]
             v == BuildService(id, w, n)
  <2>1. id \in DOMAIN raw.services /\ raw.services[id] \in Opt(RawService)
    BY <1>1, <1>2, <1>3
  <2>2. x = BuildService(id, Or(raw.services[id], ZeroService), n)
    BY <1>1, <1>2, <2>1, Zenon
  <2>3. w = marshalService(x, n)
    BY <1>7
  <2>4. ServiceErrors(x) = {}
    BY <1>10, Zenon DEF DomainRules
  <2>5. v = BuildService(id, w, n)
    OBVIOUS
  <2> HIDE DEF x, w, v
  <2>6. ServiceKept(id, x, w, v)
    BY <1>4, <2>1, <2>2, <2>3, <2>4, <2>5, ServiceAgain, Zenon
  <2>7. w \in RawService
    BY <2>6, Zenon DEF ServiceKept
  <2>8. w # Nil
    BY <2>7, NilApart
  <2>9. Or(w, ZeroService) = w
    BY <2>8, Zenon DEF Or
  <2>10. y = BuildService(id, Or(w, ZeroService), n)
    BY <1>7, <1>8, <1>9, Zenon DEF w
  <2>11. y = v
    BY <2>9, <2>10, Zenon DEF v
  <2> QED
    BY <2>6, <2>11, Zenon DEF x, w
<1> QED
  BY <1>4, <1>7, <1>8, <1>9, <1>11, Zenon DEF ServicesKept

LEMMA OperationsSame ==
  ASSUME NEW s, NEW t, NEW D, ServicesKept(s, t, D)
  PROVE  Operations(D) = Operations(s)
<1>1. DOMAIN D.services = DOMAIN s.services
  BY Zenon DEF ServicesKept
<1>2. ASSUME NEW id \in DOMAIN s.services
      PROVE  DOMAIN D.services[id].operations = DOMAIN s.services[id].operations
  BY <1>2, Zenon DEF ServicesKept, ServiceKept
<1>3. ASSUME NEW id \in DOMAIN s.services
      PROVE  {id} \X DOMAIN D.services[id].operations = {id} \X DOMAIN s.services[id].operations
  BY <1>2, Zenon
<1> QED
  BY <1>1, <1>3, Zenon DEF Operations

-----------------------------------------------------------------------------
(* The operations of a document that is written stand in the order of      *)
(* their names, each once.                                                 *)
Listed(q, S) ==
  /\ q \in Seq(S) /\ Len(q) \in Nat /\ DOMAIN q = 1..Len(q)
  /\ \A i \in DOMAIN q : q[i] \in S
  /\ \A i, j \in DOMAIN q : q[i] = q[j] => i = j
  /\ \A x \in S : \E i \in DOMAIN q : q[i] = x

LEMMA SortedNames ==
  ASSUME NEW raw, Sound(raw), NEW s, s = Resolve(raw).schema, NEW id \in DOMAIN s.services
  PROVE  Listed(sortedKeys(s.services[id]), DOMAIN s.services[id].operations)
<1> DEFINE C == WithCalls(raw)
           N == RawNames(raw, id)
           R == RawOps(raw, id)
           f == [i \in DOMAIN R |-> Or(R[i], ZeroOperation).name]
           S == DOMAIN s.services[id].operations
<1>1. s.services = C.services
  BY SchemaIs
<1>2. RawSchema(raw)
  BY Zenon DEF Sound
<1>3. id \in DOMAIN raw.services
  <2>1. DOMAIN C.services = DOMAIN raw.services
    BY <1>2, NamesTyped, Zenon
  <2> QED
    BY <1>1, <2>1, Zenon
<1>4. DOMAIN C.services[id].operations = N /\ IsFiniteSet(DOMAIN R)
  <2>0. C = WithCalls(raw)
    OBVIOUS
  <2> HIDE DEF C
  <2> QED
    BY <1>2, <1>3, <2>0, ServiceOperations, Zenon
<1>5. DOMAIN f = DOMAIN R /\ \A n \in N : \E i \in DOMAIN R : f[i] = n
  BY DEF RawNames
<1> HIDE DEF f, N, R
<1>6. IsFiniteSet(N)
  BY <1>4, <1>5, FiniteImage
<1>7. IsFiniteSet(S)
  BY <1>1, <1>4, <1>6, Zenon
<1>8. sortedKeys(s.services[id]) = SetToSeq(S)
  BY Zenon DEF sortedKeys
<1> HIDE DEF S
<1> DEFINE q == sortedKeys(s.services[id])
<1> HIDE DEF q
<1>9. Listed(q, S)
  BY <1>7, <1>8, KeysSorted DEF Listed, q
<1> QED
  BY <1>9, Zenon DEF S, q

(* The position an operation is written at, and the way back.              *)
Placing(s, t, p) ==
  LET q == PositionOf(s, p)
      names == sortedKeys(s.services[p[1]])
  IN /\ q[1] = p[1] /\ q[2] \in DOMAIN names /\ names[q[2]] = p[2]
     /\ OwnerOf(t, q) = p /\ LastOwner(t, p) = q

LEMMA PlacedAgain ==
  ASSUME NEW raw, Sound(raw), NEW s, s = Resolve(raw).schema,
         NEW t, NEW D, ServicesKept(s, t, D), NEW p \in Operations(s)
  PROVE  Placing(s, t, p)
<1> DEFINE x == s.services[p[1]]
           w == t.services[p[1]]
           ops == w.operations
           names == sortedKeys(x)
           q == PositionOf(s, p)
           i == CHOOSE n \in DOMAIN names : names[n] = p[2]
           T == {n \in DOMAIN ops : ops[n] # Nil /\ ops[n].name = p[2]}
<1>1. p[1] \in DOMAIN s.services /\ p[2] \in DOMAIN x.operations /\ p = <<p[1], p[2]>>
  BY DEF Operations
<1>2. Listed(names, DOMAIN x.operations)
  BY <1>1, SortedNames, Zenon
<1>3. q = <<p[1], i>>
  BY Zenon DEF PositionOf
<1>4. OperationsListed(x, w)
  BY <1>1, Zenon DEF ServicesKept, ServiceKept
<1>5. /\ DOMAIN ops = DOMAIN names
      /\ \A n \in DOMAIN ops : ops[n] \in RawOperation /\ ops[n].name = names[n]
  BY <1>4, Zenon DEF OperationsListed
<1>6. OwnerOf(t, q) = <<q[1], t.services[q[1]].operations[q[2]].name>>
  BY Zenon DEF OwnerOf
<1>7. LastOwner(t, p) = <<p[1], LastOf(T)>>
  BY Zenon DEF LastOwner
<1>8. i \in DOMAIN names /\ names[i] = p[2]
  <2>1. \E n \in DOMAIN names : names[n] = p[2]
    BY <1>1, <1>2, Zenon DEF Listed
  <2> QED
    BY <2>1, Zenon
<1> HIDE DEF names, i, x, ops, w
<1>9. \A n \in DOMAIN ops : ops[n] # Nil
  BY <1>5, NilApart, Zenon
<1>10. i \in T
  BY <1>5, <1>8, <1>9, Zenon
<1>11. \A n \in T : n = i
  <2>1. \A n \in T : n \in DOMAIN names /\ names[n] = p[2]
    BY <1>5, Zenon
  <2> QED
    BY <1>2, <1>8, <2>1, Zenon DEF Listed
<1>12. T \subseteq 1..Len(names) /\ Len(names) \in Nat /\ T # {}
  BY <1>2, <1>5, <1>10, Zenon DEF Listed
<1> HIDE DEF T
<1>13. LastOf(T) = i
  <2>1. LastOf(T) \in T
    BY <1>12, LastIs, Zenon
  <2> QED
    BY <1>11, <2>1, Zenon
<1> HIDE DEF q
<1>14. q[1] = p[1] /\ q[2] = i
  BY <1>3
<1>15. OwnerOf(t, q) = <<p[1], p[2]>>
  <2>1. t.services[q[1]].operations[q[2]].name = ops[i].name
    BY <1>14, Zenon DEF ops, w
  <2>2. ops[i].name = p[2]
    BY <1>5, <1>8, Zenon
  <2> QED
    BY <1>6, <1>14, <2>1, <2>2, Zenon
<1>16. OwnerOf(t, q) = p
  BY <1>1, <1>15, Zenon
<1>17. LastOwner(t, p) = q
  BY <1>3, <1>7, <1>13, Zenon
<1> QED
  BY <1>8, <1>14, <1>16, <1>17, Zenon DEF Placing, q, names, x

-----------------------------------------------------------------------------
(* A call of a sound schema, and of every fallback too: an edge or a       *)
(* group, never both; the names of its operation are there.                *)
CallWhole(s, at) ==
  /\ at = <<at[1], at[2]>> /\ Len(at[2]) \in Nat /\ at[1] \in Operations(s)
  /\ HasMembers(s.calls, at) <=> s.calls[at].to = Nil
  /\ s.calls[at].to # Nil =>
       s.calls[at].to \in Operations(s) /\ s.calls[at].to[1] # <<>> /\ s.calls[at].to[2] # <<>>
  /\ IsFallback(at) => s.calls[at].to # Nil
  /\ \E rc \in RawCall : s.calls[at] = resolveCallNode(at[1], rc)

LEMMA MembersSame ==
  ASSUME NEW raw, Sound(raw), NEW C, C = WithCalls(raw), NEW k \in DOMAIN raw.calls, NEW at \in DOMAIN C.calls,
         at = <<OwnerOf(raw, k[1]), k[2]>>, LastOwner(raw, at[1]) = k[1]
  PROVE  HasMembers(C.calls, at) <=> HasMembers(raw.calls, k)
<1>0. at[1] = OwnerOf(raw, k[1]) /\ at[2] = k[2]
  <2> DEFINE a == OwnerOf(raw, k[1])
             b == k[2]
  <2>1. at = <<a, b>>
    OBVIOUS
  <2> HIDE DEF a, b
  <2>2. at[1] = a /\ at[2] = b
    BY <2>1
  <2> QED
    BY <2>2, Zenon DEF a, b
<1>1. ASSUME NEW l \in DOMAIN raw.calls, Parent(k, l), Role(l) = "parallel"
      PROVE  \E m \in DOMAIN C.calls : Parent(at, m) /\ Role(m) = "parallel"
  <2> DEFINE p == OwnerOf(raw, l[1])
             m == <<p, l[2]>>
  <2>1. l[1] = k[1]
    BY <1>1, Zenon DEF Parent, Above
  <2>2. p = at[1] /\ LastOwner(raw, p) = l[1]
    BY <1>0, <2>1, Zenon
  <2>3. m \in DOMAIN C.calls
    BY <2>2, CallsIs, Zenon
  <2>4. m[1] = at[1] /\ m[2] = l[2]
    BY <2>2
  <2> HIDE DEF m
  <2>5. Parent(at, m)
    BY <1>0, <1>1, <2>4, Zenon DEF Parent, Above
  <2>6. Role(m) = "parallel"
    BY <1>1, <2>4, Zenon DEF Role
  <2> QED
    BY <2>3, <2>5, <2>6
<1>2. ASSUME NEW m \in DOMAIN C.calls, Parent(at, m), Role(m) = "parallel"
      PROVE  \E l \in DOMAIN raw.calls : Parent(k, l) /\ Role(l) = "parallel"
  <2>1. PICK l \in DOMAIN raw.calls : m = <<OwnerOf(raw, l[1]), l[2]>> /\ LastOwner(raw, m[1]) = l[1]
    BY CallFrom
  <2>2. m[1] = at[1]
    BY <1>2, Zenon DEF Parent, Above
  <2>3. l[1] = k[1]
    BY <2>1, <2>2, Zenon
  <2>4. m[2] = l[2]
    <3> DEFINE a == OwnerOf(raw, l[1])
               b == l[2]
    <3>1. m = <<a, b>>
      BY <2>1, Zenon
    <3> HIDE DEF a, b
    <3>2. m[2] = b
      BY <3>1
    <3> QED
      BY <3>2, Zenon DEF b
  <2>5. Parent(k, l)
    BY <1>0, <1>2, <2>3, <2>4, Zenon DEF Parent, Above
  <2>6. Role(l) = "parallel"
    BY <1>2, <2>4, Zenon DEF Role
  <2> QED
    BY <2>5, <2>6
<1> QED
  BY <1>1, <1>2, Zenon DEF HasMembers

LEMMA CallsWhole ==
  ASSUME NEW raw, Sound(raw), NEW s, s = Resolve(raw).schema, NEW at \in DOMAIN s.calls
  PROVE  CallWhole(s, at)
<1> DEFINE C == WithCalls(raw)
           B == buildSchema(raw)
<1>0. B = buildSchema(raw) /\ C = WithCalls(raw)
  OBVIOUS
<1> HIDE DEF B, C
<1>1. s.services = C.services /\ s.calls = C.calls
  BY <1>0, SchemaIs
<1>2. B.services = C.services
  BY <1>0, ServicesSame, Zenon
<1>3. Operations(s) = Operations(C) /\ Operations(B) = Operations(C)
  BY <1>1, <1>2, Zenon DEF Operations
<1>4. at \in DOMAIN C.calls
  BY <1>1, Zenon
<1>5. PICK k \in DOMAIN raw.calls :
        /\ at = <<OwnerOf(raw, k[1]), k[2]>> /\ LastOwner(raw, at[1]) = k[1]
        /\ C.calls[at] = resolveCallNode(at[1], raw.calls[k])
  <2>1. \A a \in DOMAIN C.calls : \E k \in DOMAIN raw.calls :
              /\ a = <<OwnerOf(raw, k[1]), k[2]>> /\ LastOwner(raw, a[1]) = k[1]
              /\ C.calls[a] = resolveCallNode(a[1], raw.calls[k])
    BY <1>0, CallsIs
  <2> QED
    BY <1>4, <2>1, Zenon
<1>6. HasMembers(C.calls, at) <=> HasMembers(raw.calls, k)
  BY <1>0, <1>4, <1>5, MembersSame
<1>7. /\ raw.calls[k] \in RawCall
      /\ HasMembers(raw.calls, k) <=> raw.calls[k].to = Nil
      /\ raw.calls[k].to # Nil => lookupOperationAtPath(B, raw.calls[k].to) = {}
  <2>1. /\ raw.calls[k] \in RawCall
        /\ (raw.calls[k].to # Nil) # HasMembers(raw.calls, k)
        /\ raw.calls[k].to # Nil => lookupOperationAtPath(B, raw.calls[k].to) = {}
    BY <1>0, CallsSound
  <2>2. HasMembers(raw.calls, k) \in BOOLEAN
    BY Zenon DEF HasMembers
  <2>3. HasMembers(raw.calls, k) <=> raw.calls[k].to = Nil
    BY <2>1, <2>2, Zenon
  <2> QED
    BY <2>1, <2>3, Zenon
<1>8. C.calls[at].to = raw.calls[k].to
  BY <1>5, CallNodeIs
<1>9. HasMembers(C.calls, at) <=> C.calls[at].to = Nil
  BY <1>6, <1>7, <1>8, Zenon
<1>10. ASSUME C.calls[at].to # Nil
       PROVE  C.calls[at].to \in Operations(C) /\ C.calls[at].to[1] # <<>> /\ C.calls[at].to[2] # <<>>
  BY <1>3, <1>7, <1>8, <1>10, Found, Zenon
<1>11. at[1] \in Operations(C)
  BY <1>0, <1>4, CallOwners, Zenon
<1>12. /\ CallKey(at)
       /\ IsFallback(at) => C.calls[at].to # Nil
  BY <1>0, <1>4, CallTree, Zenon
<1>13. at = <<at[1], at[2]>> /\ Len(at[2]) \in Nat
  BY <1>12 DEF CallKey
<1> QED
  BY <1>1, <1>3, <1>5, <1>7, <1>9, <1>10, <1>11, <1>12, <1>13, Zenon DEF CallWhole

-----------------------------------------------------------------------------
(* The calls that are written: the same places, under the positions of the *)
(* operations.                                                             *)
Moved(s, at) == <<PositionOf(s, at[1]), at[2]>>

CallsWritten(s, t) ==
  /\ \A at \in DOMAIN s.calls :
       Moved(s, at) \in DOMAIN t.calls /\ t.calls[Moved(s, at)] = marshalCallNode(s.calls[at])
  /\ \A k \in DOMAIN t.calls : \E at \in DOMAIN s.calls : k = Moved(s, at)

LEMMA MovedIs ==
  ASSUME NEW s, NEW at
  PROVE  Moved(s, at)[1] = PositionOf(s, at[1]) /\ Moved(s, at)[2] = at[2]
<1> DEFINE a == PositionOf(s, at[1])
           b == at[2]
<1>1. Moved(s, at) = <<a, b>>
  BY Zenon DEF Moved
<1> HIDE DEF a, b
<1>2. Moved(s, at)[1] = a /\ Moved(s, at)[2] = b
  BY <1>1
<1> QED
  BY <1>2, Zenon DEF a, b

LEMMA CallsWrittenIs ==
  ASSUME NEW s, NEW t, MarshaledAs(s, t), \A at \in DOMAIN s.calls : CallWhole(s, at),
         \A p \in Operations(s) : Placing(s, t, p)
  PROVE  CallsWritten(s, t)
<1> DEFINE owner(k) == <<k[1][1], sortedKeys(s.services[k[1][1]])[k[1][2]]>>
           keys == {Moved(s, at) : at \in DOMAIN s.calls}
<1>1. t.calls = [k \in keys |-> marshalCallNode(s.calls[<<owner(k), k[2]>>])]
  BY Zenon DEF MarshaledAs, marshalCalls, Moved
<1>2. DOMAIN t.calls = keys /\ \A k \in keys : t.calls[k] = marshalCallNode(s.calls[<<owner(k), k[2]>>])
  BY <1>1
<1>3. ASSUME NEW at \in DOMAIN s.calls PROVE <<owner(Moved(s, at)), Moved(s, at)[2]>> = at
  <2> DEFINE p == at[1]
             q == PositionOf(s, p)
             k == Moved(s, at)
             names == sortedKeys(s.services[p[1]])
  <2>1. k[1] = q /\ k[2] = at[2]
    BY MovedIs, Zenon
  <2>2. at = <<at[1], at[2]>> /\ p \in Operations(s)
    BY Zenon DEF CallWhole
  <2>3. q[1] = p[1] /\ names[q[2]] = p[2]
    BY <2>2, Zenon DEF Placing
  <2>4. p = <<p[1], p[2]>>
    BY <2>2 DEF Operations
  <2>5. owner(k) = <<q[1], sortedKeys(s.services[q[1]])[q[2]]>>
    BY <2>1, Zenon
  <2>6. owner(k) = p
    BY <2>3, <2>4, <2>5, Zenon
  <2> QED
    BY <2>1, <2>2, <2>6, Zenon
<1> QED
  BY <1>2, <1>3, Zenon DEF CallsWritten

-----------------------------------------------------------------------------
(* A node of the tree of calls, read, written and read again.              *)
NodeKept(e, w, f) ==
  /\ w \in RawCall /\ w.to = e.to
  /\ e.to = Nil => f = e
  /\ e.to # Nil => EdgeKept(e, f)

LEMMA GroupText == NoCall \in RawCall /\ NoCall.to = Nil
<1> DEFINE w == NoCall
           empty == ""
<1>1. empty \in Strings
  BY DEF Strings, Literals
<1>2. w = [to |-> Nil, protocol |-> empty, latency |-> Nil, errorRate |-> Nil, timeout |-> Nil,
           retries |-> Nil, backoff |-> empty, baseDelay |-> Nil, onFailure |-> Nil]
  BY Zenon DEF NoCall
<1> HIDE DEF w, empty
<1>3. /\ w.to = Nil /\ w.protocol = empty /\ w.latency = Nil /\ w.errorRate = Nil /\ w.timeout = Nil
      /\ w.retries = Nil /\ w.backoff = empty /\ w.baseDelay = Nil /\ w.onFailure = Nil
  BY <1>2
<1>4. /\ w.to \in Opt(Name \X Name) /\ w.protocol \in Strings /\ w.latency \in Opt(RawLatency)
      /\ w.errorRate \in Opt(Number) /\ w.timeout \in Opt(Int) /\ w.retries \in Opt(Int)
      /\ w.backoff \in Strings /\ w.baseDelay \in Opt(Int) /\ w.onFailure \in Opt(RawPolicy)
  BY <1>1, <1>3 DEF Opt
<1>5. w = [to |-> w.to, protocol |-> w.protocol, latency |-> w.latency, errorRate |-> w.errorRate,
           timeout |-> w.timeout, retries |-> w.retries, backoff |-> w.backoff, baseDelay |-> w.baseDelay,
           onFailure |-> w.onFailure]
  BY <1>2, <1>3, Zenon
<1>6. w \in RawCall
  BY <1>4, <1>5, CallRecord, Zenon
<1> QED
  BY <1>3, <1>6, Zenon DEF w

LEMMA NodeAgain ==
  ASSUME NEW rc \in RawCall, NEW owner, NEW e, e = resolveCallNode(owner, rc), NEW w, w = marshalCallNode(e),
         NEW f, f = resolveCallNode(owner, w)
  PROVE  NodeKept(e, w, f)
<1>1. CASE rc.to = Nil
  <2> DEFINE g == [to |-> Nil]
  <2>1. e = g
    BY <1>1, Zenon DEF resolveCallNode
  <2>2. g.to = Nil
    OBVIOUS
  <2> HIDE DEF g
  <2>3. w = NoCall
    BY <2>1, <2>2, Zenon DEF marshalCallNode
  <2>4. w \in RawCall /\ w.to = Nil
    BY <2>3, GroupText, Zenon
  <2>5. f = g
    BY <2>4, Zenon DEF resolveCallNode, g
  <2> QED
    BY <2>1, <2>2, <2>4, <2>5, Zenon DEF NodeKept
<1>2. CASE rc.to # Nil
  <2>1. w \in RawCall /\ w.to = e.to /\ EdgeKept(e, f)
    BY <1>2, EdgeAgain
  <2>2. e.to = rc.to
    BY CallNodeIs
  <2> QED
    BY <1>2, <2>1, <2>2, Zenon DEF NodeKept
<1> QED
  BY <1>1, <1>2

-----------------------------------------------------------------------------
(* The tree of the calls is the same where they are moved to.              *)
Rewritten(s, t) ==
  /\ CallsWritten(s, t)
  /\ \A at \in DOMAIN s.calls : CallWhole(s, at)
  /\ \A p \in Operations(s) : Placing(s, t, p)

LEMMA MovedParent ==
  ASSUME NEW s, NEW t, Rewritten(s, t), NEW at \in DOMAIN s.calls, NEW l \in DOMAIN s.calls
  PROVE  /\ Parent(Moved(s, at), Moved(s, l)) <=> Parent(at, l)
         /\ Role(Moved(s, l)) = Role(l) /\ (IsFallback(Moved(s, l)) <=> IsFallback(l))
<1>1. /\ Moved(s, at)[1] = PositionOf(s, at[1]) /\ Moved(s, at)[2] = at[2]
      /\ Moved(s, l)[1] = PositionOf(s, l[1]) /\ Moved(s, l)[2] = l[2]
  BY MovedIs, Zenon
<1>2. at[1] \in Operations(s) /\ l[1] \in Operations(s)
  BY Zenon DEF Rewritten, CallWhole
<1>3. OwnerOf(t, PositionOf(s, at[1])) = at[1] /\ OwnerOf(t, PositionOf(s, l[1])) = l[1]
  BY <1>2, Zenon DEF Rewritten, Placing
<1>4. Moved(s, at)[1] = Moved(s, l)[1] <=> at[1] = l[1]
  BY <1>1, <1>3, Zenon
<1>5. Parent(Moved(s, at), Moved(s, l)) <=> Parent(at, l)
  BY <1>1, <1>4, Zenon DEF Parent, Above
<1>6. Role(Moved(s, l)) = Role(l) /\ (IsFallback(Moved(s, l)) <=> IsFallback(l))
  BY <1>1, Zenon DEF Role, IsFallback
<1> QED
  BY <1>5, <1>6, Zenon

LEMMA MovedMembers ==
  ASSUME NEW s, NEW t, Rewritten(s, t), NEW at \in DOMAIN s.calls
  PROVE  HasMembers(t.calls, Moved(s, at)) <=> HasMembers(s.calls, at)
<1>1. ASSUME NEW k \in DOMAIN t.calls, Parent(Moved(s, at), k), Role(k) = "parallel"
      PROVE  HasMembers(s.calls, at)
  <2>1. PICK l \in DOMAIN s.calls : k = Moved(s, l)
    BY Zenon DEF Rewritten, CallsWritten
  <2>2. Parent(at, l) /\ Role(l) = "parallel"
    BY <1>1, <2>1, MovedParent, Zenon
  <2> QED
    BY <2>2, Zenon DEF HasMembers
<1>2. ASSUME NEW l \in DOMAIN s.calls, Parent(at, l), Role(l) = "parallel"
      PROVE  HasMembers(t.calls, Moved(s, at))
  <2>1. Moved(s, l) \in DOMAIN t.calls
    BY Zenon DEF Rewritten, CallsWritten
  <2>2. Parent(Moved(s, at), Moved(s, l)) /\ Role(Moved(s, l)) = "parallel"
    BY <1>2, MovedParent, Zenon
  <2> QED
    BY <2>1, <2>2, Zenon DEF HasMembers
<1> QED
  BY <1>1, <1>2, Zenon DEF HasMembers

(* No call that is written is in error.                                    *)
LEMMA WrittenCallSound ==
  ASSUME NEW s, NEW t, Rewritten(s, t), NEW D, ServicesKept(s, t, D), NEW at \in DOMAIN s.calls,
         NEW k, k = Moved(s, at)
  PROVE  callError(D, t.calls, k) = {} /\ ~(IsFallback(k) /\ HasMembers(t.calls, k))
<1> DEFINE e == s.calls[at]
           w == t.calls[k]
<1>1. CallWhole(s, at) /\ w = marshalCallNode(e)
  BY Zenon DEF Rewritten, CallsWritten
<1>2. PICK rc \in RawCall : e = resolveCallNode(at[1], rc)
  BY <1>1, Zenon DEF CallWhole
<1>3. w \in RawCall /\ w.to = e.to
  <2> DEFINE f == resolveCallNode(at[1], w)
  <2>1. f = resolveCallNode(at[1], w)
    OBVIOUS
  <2> HIDE DEF f
  <2>2. NodeKept(e, w, f)
    BY <1>1, <1>2, <2>1, NodeAgain, Zenon
  <2> QED
    BY <2>2, Zenon DEF NodeKept
<1>4. w # Nil
  BY <1>3, NilApart
<1>5. HasMembers(t.calls, k) <=> HasMembers(s.calls, at)
  BY MovedMembers, Zenon
<1>6. HasMembers(t.calls, k) <=> w.to = Nil
  BY <1>1, <1>3, <1>5, Zenon DEF CallWhole
<1>7. IsFallback(k) => w.to # Nil
  <2>1. IsFallback(k) <=> IsFallback(at)
    BY MovedParent, Zenon
  <2> QED
    BY <1>1, <1>3, <2>1, Zenon DEF CallWhole
<1>8. ASSUME w.to # Nil PROVE lookupOperationAtPath(D, w.to) = {}
  <2> DEFINE p == w.to
  <2>1. p \in Operations(s) /\ p[1] # <<>> /\ p[2] # <<>>
    BY <1>1, <1>3, <1>8, Zenon DEF CallWhole
  <2>2. p \in Operations(D)
    BY <2>1, OperationsSame, Zenon
  <2>3. p[1] \in DOMAIN D.services
    BY <2>2 DEF Operations
  <2>4. <<>> \notin {p[1], p[2]}
    BY <2>1, Zenon
  <2> QED
    BY <2>2, <2>3, <2>4, Zenon DEF lookupOperationAtPath
<1>9. ~((w.to # Nil) = HasMembers(t.calls, k))
  BY <1>6, Zenon DEF HasMembers
<1>10. callError(D, t.calls, k) = {}
  BY <1>4, <1>8, <1>9, Zenon DEF callError
<1> QED
  BY <1>6, <1>7, <1>10, Zenon

-----------------------------------------------------------------------------
(* The calls that are read again.                                          *)
CallsKept(s, E) ==
  /\ DOMAIN E.calls = DOMAIN s.calls
  /\ \A at \in DOMAIN s.calls : \E w : NodeKept(s.calls[at], w, E.calls[at])

LEMMA NothingWrong ==
  ASSUME NEW errs, \A k \in DOMAIN errs : errs[k] = {}
  PROVE  Reported(errs) = {} /\ Resolved(errs) = DOMAIN errs
<1>1. Reported(errs) = {}
  BY DEF Reported
<1>2. Resolved(errs) = DOMAIN errs
  BY DEF Resolved
<1> QED
  BY <1>1, <1>2

LEMMA WrittenCallsSound ==
  ASSUME NEW s, NEW t, Rewritten(s, t), NEW D, D = buildSchema(t), ServicesKept(s, t, D)
  PROVE  DOMAIN CallsWrong(t) = DOMAIN t.calls /\ \A k \in DOMAIN t.calls : CallsWrong(t)[k] = {}
<1> DEFINE own == [k \in DOMAIN t.calls |-> callError(D, t.calls, k)]
           group(k) == /\ IsFallback(k) /\ HasMembers(t.calls, k)
                       /\ \A l \in DOMAIN t.calls : Above(k, l) => own[l] = {}
<1>1. CallsWrong(t) = [k \in DOMAIN t.calls |->
                        IF own[k] = {} /\ group(k) THEN {"fallback is a group"} ELSE own[k]]
  BY Zenon DEF CallsWrong, callErrors
<1>2. ASSUME NEW k \in DOMAIN t.calls
      PROVE  callError(D, t.calls, k) = {} /\ ~(IsFallback(k) /\ HasMembers(t.calls, k))
  <2>1. PICK at \in DOMAIN s.calls : k = Moved(s, at)
    BY Zenon DEF Rewritten, CallsWritten
  <2> QED
    BY <2>1, WrittenCallSound, Zenon
<1>3. \A k \in DOMAIN t.calls : own[k] = {} /\ ~group(k)
  BY <1>2
<1> HIDE DEF own, group
<1> QED
  BY <1>1, <1>3

LEMMA KeysAgain ==
  ASSUME NEW s, NEW t, Rewritten(s, t)
  PROVE  /\ KeysOf(t, DOMAIN t.calls) = DOMAIN s.calls
         /\ \A at \in DOMAIN s.calls : <<LastOwner(t, at[1]), at[2]>> = Moved(s, at)
<1>1. ASSUME NEW at \in DOMAIN s.calls
      PROVE  /\ <<LastOwner(t, at[1]), at[2]>> = Moved(s, at)
             /\ <<OwnerOf(t, Moved(s, at)[1]), Moved(s, at)[2]>> = at
             /\ Moved(s, at)[1] = LastOwner(t, OwnerOf(t, Moved(s, at)[1]))
             /\ Moved(s, at) \in DOMAIN t.calls
  <2> DEFINE q == PositionOf(s, at[1])
             k == Moved(s, at)
  <2>1. at = <<at[1], at[2]>> /\ at[1] \in Operations(s)
    BY Zenon DEF Rewritten, CallWhole
  <2>2. OwnerOf(t, q) = at[1] /\ LastOwner(t, at[1]) = q
    BY <2>1, Zenon DEF Rewritten, Placing
  <2>3. k[1] = q /\ k[2] = at[2]
    BY MovedIs, Zenon
  <2>4. k = <<q, at[2]>>
    BY Zenon DEF Moved
  <2>5. k \in DOMAIN t.calls
    BY Zenon DEF Rewritten, CallsWritten
  <2> QED
    BY <2>1, <2>2, <2>3, <2>4, <2>5, Zenon
<1>2. ASSUME NEW at \in DOMAIN s.calls PROVE at \in KeysOf(t, DOMAIN t.calls)
  <2> DEFINE k == Moved(s, at)
  <2>1. /\ k \in DOMAIN t.calls /\ k[1] = LastOwner(t, OwnerOf(t, k[1]))
        /\ <<OwnerOf(t, k[1]), k[2]>> = at
    BY <1>1, Zenon
  <2> HIDE DEF k
  <2> QED
    BY <2>1 DEF KeysOf
<1>3. ASSUME NEW at \in KeysOf(t, DOMAIN t.calls) PROVE at \in DOMAIN s.calls
  <2>1. PICK k \in DOMAIN t.calls : at = <<OwnerOf(t, k[1]), k[2]>>
    BY DEF KeysOf
  <2>2. PICK b \in DOMAIN s.calls : k = Moved(s, b)
    BY Zenon DEF Rewritten, CallsWritten
  <2>3. at = b
    BY <1>1, <2>1, <2>2, Zenon
  <2> QED
    BY <2>3
<1>4. KeysOf(t, DOMAIN t.calls) = DOMAIN s.calls
  BY <1>2, <1>3
<1> QED
  BY <1>1, <1>4, Zenon

LEMMA CallsAgain ==
  ASSUME NEW s, NEW t, Rewritten(s, t), NEW D, D = buildSchema(t), ServicesKept(s, t, D),
         NEW E, E = WithCalls(t)
  PROVE  Reported(CallsWrong(t)) = {} /\ CallsKept(s, E)
<1>1. DOMAIN CallsWrong(t) = DOMAIN t.calls /\ \A k \in DOMAIN t.calls : CallsWrong(t)[k] = {}
  BY WrittenCallsSound, Zenon
<1>2. Reported(CallsWrong(t)) = {} /\ Resolved(CallsWrong(t)) = DOMAIN t.calls
  <2> DEFINE errs == CallsWrong(t)
  <2>1. \A k \in DOMAIN errs : errs[k] = {}
    BY <1>1, Zenon
  <2>2. Reported(errs) = {} /\ Resolved(errs) = DOMAIN errs
    BY <2>1, NothingWrong, Zenon
  <2> QED
    BY <1>1, <2>2, Zenon
<1>3. /\ KeysOf(t, DOMAIN t.calls) = DOMAIN s.calls
      /\ \A at \in DOMAIN s.calls : <<LastOwner(t, at[1]), at[2]>> = Moved(s, at)
  BY KeysAgain, Zenon
<1> DEFINE keys == KeysOf(t, Resolved(CallsWrong(t)))
<1>4. E.calls = [at \in keys |-> resolveCallNode(at[1], t.calls[<<LastOwner(t, at[1]), at[2]>>])]
  BY WithCallsIs, Zenon
<1>5. keys = DOMAIN s.calls
  BY <1>2, <1>3, Zenon
<1> HIDE DEF keys
<1>6. /\ DOMAIN E.calls = keys
      /\ \A at \in keys : E.calls[at] = resolveCallNode(at[1], t.calls[<<LastOwner(t, at[1]), at[2]>>])
  BY <1>4
<1>7. ASSUME NEW at \in DOMAIN s.calls PROVE \E w : NodeKept(s.calls[at], w, E.calls[at])
  <2> DEFINE e == s.calls[at]
             w == t.calls[Moved(s, at)]
             f == E.calls[at]
  <2>1. f = resolveCallNode(at[1], w)
    BY <1>3, <1>5, <1>6, Zenon
  <2>2. w = marshalCallNode(e)
    BY Zenon DEF Rewritten, CallsWritten
  <2>3. PICK rc \in RawCall : e = resolveCallNode(at[1], rc)
    BY Zenon DEF Rewritten, CallWhole
  <2> HIDE DEF e, w, f
  <2>4. NodeKept(e, w, f)
    BY <2>1, <2>2, <2>3, NodeAgain, Zenon
  <2> QED
    BY <2>4, Zenon DEF e, f
<1>8. CallsKept(s, E)
  BY <1>5, <1>6, <1>7, Zenon DEF CallsKept
<1> QED
  BY <1>2, <1>8

-----------------------------------------------------------------------------
(* Steps and journeys are read again as they were.                         *)
StepWhole(s, k) ==
  /\ s.steps[k] = [op |-> s.steps[k].op]
  /\ HasMembers(s.steps, k) <=> s.steps[k].op = Nil
  /\ s.steps[k].op # Nil =>
       /\ s.steps[k].op \in Operations(s) /\ s.steps[k].op[1] \in Name /\ s.steps[k].op[2] \in Name
       /\ s.steps[k].op = <<s.steps[k].op[1], s.steps[k].op[2]>>
       /\ s.steps[k].op[1] # <<>> /\ s.steps[k].op[2] # <<>>

LEMMA MembersByKeys ==
  ASSUME NEW a, NEW b, DOMAIN a = DOMAIN b, NEW k
  PROVE  HasMembers(a, k) <=> HasMembers(b, k)
BY Zenon DEF HasMembers

LEMMA StepsWhole ==
  ASSUME NEW raw, Sound(raw), NEW s, s = Resolve(raw).schema, NEW k \in DOMAIN s.steps
  PROVE  StepWhole(s, k)
<1> DEFINE C == WithCalls(raw)
           op == s.steps[k].op
           p == <<raw.steps[k].service, raw.steps[k].operation>>
<1>0. C = WithCalls(raw)
  OBVIOUS
<1> HIDE DEF C
<1>1. s.services = C.services /\ s.steps = StepsKept(raw, DOMAIN raw.steps)
  BY <1>0, SchemaIs
<1>2. DOMAIN s.steps = DOMAIN raw.steps /\ s.steps[k] = resolveStep(raw.steps, k)
  BY <1>1 DEF StepsKept
<1>3. Operations(s) = Operations(C)
  BY <1>1, Zenon DEF Operations
<1>4. HasMembers(s.steps, k) <=> HasMembers(raw.steps, k)
  BY <1>2, MembersByKeys, Zenon
<1>5. /\ raw.steps[k] # Nil
      /\ LET o == resolveStep(raw.steps, k).op
         IN /\ o # Nil => o \in Operations(C) /\ o = p
            /\ o = Nil <=> HasMembers(raw.steps, k)
  BY <1>0, <1>2, StepPointers
<1>6. /\ op # Nil => op \in Operations(C) /\ op = p
      /\ op = Nil <=> HasMembers(raw.steps, k)
  BY <1>2, <1>5, Zenon
<1>7. s.steps[k] = [op |-> op]
  <2> DEFINE v == IF HasMembers(raw.steps, k) THEN Nil ELSE p
  <2>1. s.steps[k] = [op |-> v]
    BY <1>2, Zenon DEF resolveStep
  <2> HIDE DEF v
  <2> QED
    BY <2>1
<1>8. ASSUME op # Nil PROVE p[1] # <<>> /\ p[2] # <<>>
  <2>1. stepError(C, raw.steps, k) = {}
    <3>1. StepsWrong(raw)[k] = {}
      BY <1>2, TablesSound, Zenon
    <3>2. StepsWrong(raw)[k] = stepError(C, raw.steps, k)
      BY <1>0, <1>2 DEF StepsWrong
    <3> QED
      BY <3>1, <3>2
  <2>2. ~HasMembers(raw.steps, k)
    BY <1>6, <1>8, Zenon
  <2>3. lookupOperationAtPath(C, p) = {}
    BY <1>5, <2>1, <2>2 DEF stepError
  <2> QED
    BY <2>3, Found, Zenon
<1>9. ASSUME op # Nil PROVE op[1] \in Name /\ op[2] \in Name /\ op = <<op[1], op[2]>>
  <2>1. RawSchema(raw)
    BY Zenon DEF Sound
  <2>2. \A q \in Operations(C) : q[1] \in Name /\ q[2] \in Name /\ q = <<q[1], q[2]>>
    BY <1>0, <2>1, NamesTyped, Zenon
  <2> QED
    BY <1>6, <1>9, <2>2, Zenon
<1> QED
  BY <1>3, <1>4, <1>6, <1>7, <1>8, <1>9, Zenon DEF StepWhole

(* A step that is written is not in error, and is read as it was.          *)
LEMMA StepAgain ==
  ASSUME NEW s, NEW t, MarshaledAs(s, t), NEW E, Operations(E) = Operations(s), NEW k \in DOMAIN s.steps,
         StepWhole(s, k)
  PROVE  stepError(E, t.steps, k) = {} /\ resolveStep(t.steps, k) = s.steps[k]
<1> DEFINE op == s.steps[k].op
           w == t.steps[k]
<1>1. w = marshalStep(s.steps[k]) /\ (HasMembers(t.steps, k) <=> op = Nil)
  <2>1. DOMAIN t.steps = DOMAIN s.steps /\ w = marshalStep(s.steps[k])
    BY Zenon DEF MarshaledAs
  <2>2. HasMembers(t.steps, k) <=> HasMembers(s.steps, k)
    BY <2>1, MembersByKeys, Zenon
  <2> QED
    BY <2>1, <2>2, Zenon DEF StepWhole
<1>2. s.steps[k] = [op |-> op]
  BY Zenon DEF StepWhole
<1>3. CASE op = Nil
  <2> DEFINE empty == <<>>
  <2>1. w = [service |-> empty, operation |-> empty]
    BY <1>1, <1>3, Zenon DEF marshalStep
  <2>2. empty \in Name
    BY DEF Name
  <2>3. w.service = empty /\ w.operation = empty /\ w \in RawStep
    BY <2>1, <2>2 DEF RawStep
  <2>4. w # Nil
    BY <2>3, NilApart
  <2>5. HasMembers(t.steps, k)
    BY <1>1, <1>3
  <2>6. ~((<<w.service, w.operation>> # <<<<>>, <<>>>>) = HasMembers(t.steps, k))
    BY <2>3, <2>5
  <2>7. stepError(E, t.steps, k) = {}
    BY <2>4, <2>5, <2>6, Zenon DEF stepError
  <2>8. resolveStep(t.steps, k) = [op |-> Nil]
    BY <2>5, Zenon DEF resolveStep
  <2> QED
    BY <1>2, <1>3, <2>7, <2>8, Zenon
<1>4. CASE op # Nil
  <2> DEFINE a == op[1]
             b == op[2]
  <2>1. op \in Operations(s) /\ a \in Name /\ b \in Name /\ op = <<a, b>> /\ a # <<>> /\ b # <<>>
    BY <1>4, Zenon DEF StepWhole
  <2>2. w = [service |-> a, operation |-> b]
    BY <1>1, <1>4, Zenon DEF marshalStep
  <2> HIDE DEF a, b
  <2>3. w.service = a /\ w.operation = b /\ w \in RawStep
    BY <2>1, <2>2 DEF RawStep
  <2>4. w # Nil
    BY <2>3, NilApart
  <2>5. ~HasMembers(t.steps, k)
    BY <1>1, <1>4
  <2>6. <<w.service, w.operation>> # <<<<>>, <<>>>>
    BY <2>1, <2>3
  <2>7. lookupOperationAtPath(E, op) = {}
    <3>1. op \in Operations(E) /\ op[1] = a /\ op[2] = b
      BY <2>1
    <3>2. op[1] \in DOMAIN E.services
      BY <3>1 DEF Operations
    <3>3. <<>> \notin {op[1], op[2]}
      BY <2>1, <3>1, Zenon
    <3> QED
      BY <3>1, <3>2, <3>3, Zenon DEF lookupOperationAtPath
  <2>8. <<w.service, w.operation>> = op
    BY <2>1, <2>3, Zenon
  <2>9. stepError(E, t.steps, k) = {}
    <3> DEFINE q == <<w.service, w.operation>>
    <3>1. q # <<<<>>, <<>>>> /\ q = op
      BY <2>6, <2>8
    <3>2. stepError(E, t.steps, k) =
            IF (q # <<<<>>, <<>>>>) = HasMembers(t.steps, k) THEN {"service or parallel"}
            ELSE IF HasMembers(t.steps, k) THEN {} ELSE lookupOperationAtPath(E, q)
      BY <2>4, Zenon DEF stepError
    <3> HIDE DEF q
    <3>3. ~((q # <<<<>>, <<>>>>) = HasMembers(t.steps, k))
      BY <2>5, <3>1 DEF HasMembers
    <3> QED
      BY <2>5, <2>7, <3>1, <3>2, <3>3, Zenon
  <2>10. resolveStep(t.steps, k) = [op |-> op]
    BY <2>5, <2>8, Zenon DEF resolveStep
  <2> QED
    BY <1>2, <2>9, <2>10, Zenon
<1> QED
  BY <1>3, <1>4

(* All steps and journeys of the document that is written.                 *)
LEMMA StepsAgain ==
  ASSUME NEW raw, Sound(raw), NEW s, s = Resolve(raw).schema, NEW t, MarshaledAs(s, t),
         Operations(WithCalls(t)) = Operations(s)
  PROVE  /\ Reported(StepsWrong(t)) = {}
         /\ StepsKept(t, Resolved(StepsWrong(t))) = s.steps
<1> DEFINE E == WithCalls(t)
           errs == StepsWrong(t)
<1>1. DOMAIN t.steps = DOMAIN s.steps
  BY Zenon DEF MarshaledAs
<1>2. ASSUME NEW k \in DOMAIN s.steps
      PROVE  stepError(E, t.steps, k) = {} /\ resolveStep(t.steps, k) = s.steps[k]
  BY StepsWhole, StepAgain, Zenon
<1>3. errs = [k \in DOMAIN t.steps |-> stepError(E, t.steps, k)]
  BY Zenon DEF StepsWrong
<1> HIDE DEF errs, E
<1>4. DOMAIN errs = DOMAIN t.steps /\ \A k \in DOMAIN errs : errs[k] = {}
  BY <1>1, <1>2, <1>3
<1>5. Reported(errs) = {} /\ Resolved(errs) = DOMAIN s.steps
  BY <1>1, <1>4, NothingWrong, Zenon
<1>6. s.steps = [k \in DOMAIN s.steps |-> s.steps[k]]
  <2>1. s.steps = StepsKept(raw, DOMAIN raw.steps)
    BY SchemaIs
  <2> QED
    BY <2>1 DEF StepsKept
<1>7. StepsKept(t, DOMAIN s.steps) = s.steps
  <2>1. StepsKept(t, DOMAIN s.steps) = [k \in DOMAIN s.steps |-> resolveStep(t.steps, k)]
    BY Zenon DEF StepsKept
  <2>2. [k \in DOMAIN s.steps |-> resolveStep(t.steps, k)] = [k \in DOMAIN s.steps |-> s.steps[k]]
    BY <1>2
  <2> QED
    BY <1>6, <2>1, <2>2, Zenon
<1> QED
  BY <1>5, <1>7, Zenon DEF errs

LEMMA JourneyAgain ==
  ASSUME NEW raw \in Opt(RawJourney), NEW v, v = Or(Or(raw, ZeroJourney).weight, 10),
         NEW w, w = [weight |-> Unless(v, 10)]
  PROVE  Or(Or(w, ZeroJourney).weight, 10) = v
<1>1. Or(raw, ZeroJourney).weight \in Opt(Number)
  <2>1. CASE raw = Nil
    <3>1. Or(raw, ZeroJourney).weight = Nil
      BY <2>1 DEF Or, ZeroJourney
    <3> QED
      BY <3>1 DEF Opt
  <2>2. CASE raw # Nil
    <3>1. raw \in RawJourney /\ Or(raw, ZeroJourney) = raw
      BY <2>2 DEF Opt, Or
    <3> QED
      BY <3>1 DEF RawJourney
  <2> QED
    BY <2>1, <2>2
<1> DEFINE u == Or(raw, ZeroJourney).weight
           x == Unless(v, 10)
<1> HIDE DEF u
<1>2. v = Or(u, 10) /\ u \in Opt(Number) /\ 10 \in Int
  BY <1>1 DEF u
<1>3. x \in Opt(Number)
  BY <1>2, OrNumber, Zenon
<1>4. Or(x, 10) = v
  BY <1>2, NumbersApart DEF Or, Unless
<1> HIDE DEF x
<1>5. w = [weight |-> x]
  BY DEF x
<1>6. w \in RawJourney /\ w.weight = x
  BY <1>3, <1>5 DEF RawJourney
<1>7. w # Nil
  BY <1>6, NilApart
<1> QED
  BY <1>4, <1>6, <1>7, Zenon DEF Or

LEMMA JourneysAgain ==
  ASSUME NEW raw, Sound(raw), NEW s, s = Resolve(raw).schema, NEW t, MarshaledAs(s, t)
  PROVE  JourneysRead(t) = s.journeys
<1> DEFINE weight(name) == Or(Or(raw.journeys[name], ZeroJourney).weight, 10)
           second(name) == Or(Or(t.journeys[name], ZeroJourney).weight, 10)
<1>1. s.journeys = JourneysRead(raw)
  BY SchemaIs
<1>2. s.journeys = [name \in DOMAIN raw.journeys |-> [name |-> name, weight |-> weight(name)]]
  BY <1>1, Zenon DEF JourneysRead
<1>3. DOMAIN s.journeys = DOMAIN raw.journeys
      /\ \A name \in DOMAIN raw.journeys : s.journeys[name] = [name |-> name, weight |-> weight(name)]
  <2> HIDE DEF weight
  <2> QED
    BY <1>2
<1>4. DOMAIN t.journeys = DOMAIN s.journeys
      /\ \A name \in DOMAIN s.journeys : t.journeys[name] = [weight |-> Unless(s.journeys[name].weight, 10)]
  BY Zenon DEF MarshaledAs, JourneyText
<1>5. ASSUME NEW name \in DOMAIN raw.journeys PROVE second(name) = weight(name)
  <2> DEFINE v == weight(name)
             w == t.journeys[name]
  <2>1. raw.journeys[name] \in Opt(RawJourney)
    BY Zenon DEF Sound, RawSchema
  <2>2. s.journeys[name].weight = v
    <3>1. s.journeys[name] = [name |-> name, weight |-> v]
      BY <1>3
    <3> HIDE DEF v
    <3> QED
      BY <3>1
  <2>3. w = [weight |-> Unless(v, 10)]
    BY <1>3, <1>4, <2>2, Zenon
  <2> QED
    BY <2>1, <2>3, JourneyAgain, Zenon
<1>6. JourneysRead(t) = [name \in DOMAIN t.journeys |-> [name |-> name, weight |-> second(name)]]
  BY Zenon DEF JourneysRead
<1> HIDE DEF weight, second
<1>7. [name \in DOMAIN t.journeys |-> [name |-> name, weight |-> second(name)]] =
      [name \in DOMAIN raw.journeys |-> [name |-> name, weight |-> weight(name)]]
  BY <1>3, <1>4, <1>5
<1> QED
  BY <1>2, <1>6, <1>7, Zenon

-----------------------------------------------------------------------------
(* Faults.  Targets are found in the same way in two schemas with the same *)
(* names and edges.                                                        *)
SameNames(a, b) ==
  /\ DOMAIN a.services = DOMAIN b.services /\ Operations(a) = Operations(b) /\ AllEdges(a) = AllEdges(b)
  /\ \A at \in AllEdges(a) : a.calls[at].from = b.calls[at].from /\ a.calls[at].to = b.calls[at].to

LEMMA EdgesFoundSame ==
  ASSUME NEW a, NEW b, SameNames(a, b), NEW p, NEW q
  PROVE  findEdges(a, p, q) = findEdges(b, p, q)
<1>1. OutgoingEdges(a, p) = OutgoingEdges(b, p) /\ OutgoingEdges(a, p) \subseteq AllEdges(a)
  BY Zenon DEF SameNames, OutgoingEdges
<1> DEFINE O == OutgoingEdges(a, p)
<1>2. /\ findEdges(a, p, q) = {at \in O : a.calls[at].from = p /\ a.calls[at].to = q}
      /\ findEdges(b, p, q) = {at \in O : b.calls[at].from = p /\ b.calls[at].to = q}
  BY <1>1, Zenon DEF findEdges
<1>3. \A at \in O : a.calls[at].from = b.calls[at].from /\ a.calls[at].to = b.calls[at].to
  BY <1>1, Zenon DEF SameNames
<1> HIDE DEF O
<1> QED
  BY <1>2, <1>3

LEMMA OperationAtSame ==
  ASSUME NEW a, NEW b, SameNames(a, b), NEW tokens
  PROVE  operationAt(a, tokens) = operationAt(b, tokens)
<1>1. ASSUME NEW p PROVE lookupOperationAtPath(a, p) = lookupOperationAtPath(b, p)
  BY Zenon DEF lookupOperationAtPath, SameNames
<1> DEFINE H == Halves(tokens, ".")
           A == {[val |-> p, errs |-> lookupOperationAtPath(a, p)] : p \in H}
           B == {[val |-> p, errs |-> lookupOperationAtPath(b, p)] : p \in H}
<1>2. A = B
  <2> HIDE DEF H
  <2> QED
    BY <1>1
<1> QED
  BY <1>2, Zenon DEF operationAt

LEMMA EdgeBetweenSame ==
  ASSUME NEW a, NEW b, SameNames(a, b), NEW from, NEW to
  PROVE  edgeBetween(a, from, to) = edgeBetween(b, from, to)
<1> DEFINE E == findEdges(a, from.val, to.val)
<1>1. E = findEdges(b, from.val, to.val)
  BY EdgesFoundSame
<1> DEFINE found == IF E = {} THEN Bad({"edge not found"}) ELSE Good(FaultTarget("edge", Nil, Nil, First(E)))
<1>2. edgeBetween(a, from, to) = IF from.errs # {} THEN from ELSE IF to.errs # {} THEN to ELSE found
  BY Zenon DEF edgeBetween
<1>3. edgeBetween(b, from, to) = IF from.errs # {} THEN from ELSE IF to.errs # {} THEN to ELSE found
  BY <1>1, Zenon DEF edgeBetween
<1> HIDE DEF found
<1> QED
  BY <1>2, <1>3

LEMMA EdgeTargetSame ==
  ASSUME NEW a, NEW b, SameNames(a, b), NEW rest
  PROVE  resolveEdgeTarget(a, rest) = resolveEdgeTarget(b, rest)
<1> DEFINE H == Halves(rest, "->")
           A == {edgeBetween(a, operationAt(a, ends[1]), operationAt(a, ends[2])) : ends \in H}
           B == {edgeBetween(b, operationAt(b, ends[1]), operationAt(b, ends[2])) : ends \in H}
<1>1. ASSUME NEW ends
      PROVE  edgeBetween(a, operationAt(a, ends[1]), operationAt(a, ends[2])) =
             edgeBetween(b, operationAt(b, ends[1]), operationAt(b, ends[2]))
  <2> DEFINE p == operationAt(a, ends[1])
             q == operationAt(a, ends[2])
  <2>1. p = operationAt(b, ends[1]) /\ q = operationAt(b, ends[2])
    BY OperationAtSame
  <2>2. edgeBetween(a, p, q) = edgeBetween(b, p, q)
    BY EdgeBetweenSame
  <2> QED
    BY <2>1, <2>2, Zenon
<1>2. A = B
  <2> HIDE DEF H
  <2> QED
    BY <1>1
<1> QED
  BY <1>2, Zenon DEF resolveEdgeTarget

LEMMA TargetSame ==
  ASSUME NEW a, NEW b, SameNames(a, b), NEW tokens
  PROVE  resolveFaultTarget(a, tokens) = resolveFaultTarget(b, tokens)
<1>1. ASSUME NEW kind, NEW rest PROVE resolveTarget(a, kind, rest) = resolveTarget(b, kind, rest)
  <2>1. operationAt(a, rest) = operationAt(b, rest) /\ resolveEdgeTarget(a, rest) = resolveEdgeTarget(b, rest)
    BY OperationAtSame, EdgeTargetSame, Zenon
  <2>2. DOMAIN a.services = DOMAIN b.services
    BY Zenon DEF SameNames
  <2> DEFINE node == IF rest \in DOMAIN b.services THEN Good(FaultTarget("node", rest, Nil, Nil))
                     ELSE Bad({"service not found"})
             op == operationAt(b, rest)
             operation == IF op.errs # {} THEN op ELSE Good(FaultTarget("operation", Nil, op.val, Nil))
             edge == resolveEdgeTarget(b, rest)
             other == Bad({"target kind"})
  <2>3. resolveTarget(b, kind, rest) =
          CASE kind = <<"node">> -> node [] kind = <<"operation">> -> operation [] kind = <<"edge">> -> edge
            [] OTHER -> other
    BY Zenon DEF resolveTarget
  <2>4. resolveTarget(a, kind, rest) =
          CASE kind = <<"node">> -> node [] kind = <<"operation">> -> operation [] kind = <<"edge">> -> edge
            [] OTHER -> other
    BY <2>1, <2>2, Zenon DEF resolveTarget
  <2> QED
    BY <2>3, <2>4, Zenon
<1> DEFINE H == {c \in Cut(tokens, ":") : c[2] # <<>>}
           A == {resolveTarget(a, p[1], p[2]) : p \in H}
           B == {resolveTarget(b, p[1], p[2]) : p \in H}
<1>2. A = B
  <2> HIDE DEF H
  <2> QED
    BY <1>1
<1> QED
  BY <1>2, Zenon DEF resolveFaultTarget

-----------------------------------------------------------------------------
(* The severity and the schedule of a fault.                               *)
LEMMA SeverityAgainIs ==
  ASSUME NEW raw \in Opt(RawSeverity), NEW sev, sev = FaultSeverity(raw), NEW w, w = marshalSeverity(sev)
  PROVE  w \in Opt(RawSeverity) /\ FaultSeverity(w) = sev
<1> DEFINE F == {"probability", "multiplier", "add", "value"}
           a == sev["probability"]
           b == sev["multiplier"]
           c == sev["add"]
           d == sev["value"]
<1>1. sev = [f \in F |-> sev[f]] /\ a \in Number /\ b \in Number /\ c \in Int /\ d \in Number
  <2>1. CASE raw = Nil
    <3>1. sev = [probability |-> 0, multiplier |-> 0, add |-> 0, value |-> 0]
      BY <2>1, Zenon DEF FaultSeverity
    <3> QED
      BY <3>1 DEF Number
  <2>2. CASE raw # Nil
    <3>1. sev = [f \in F |-> Or(raw[f], 0)]
      BY <2>2, Zenon DEF FaultSeverity
    <3>2. raw \in RawSeverity
      BY <2>2 DEF Opt
    <3>3. /\ raw["probability"] \in Opt(Number) /\ raw["multiplier"] \in Opt(Number)
          /\ raw["add"] \in Opt(Int) /\ raw["value"] \in Opt(Number)
      BY <3>2 DEF RawSeverity
    <3>4. /\ a = Or(raw["probability"], 0) /\ b = Or(raw["multiplier"], 0)
          /\ c = Or(raw["add"], 0) /\ d = Or(raw["value"], 0)
      BY <3>1
    <3>5. sev = [f \in F |-> sev[f]]
      BY <3>1
    <3> QED
      BY <3>3, <3>4, <3>5 DEF Or, Opt, Number
  <2> QED
    BY <2>1, <2>2
<1>2. DOMAIN sev = F
  BY <1>1
<1>3. CASE \A f \in DOMAIN sev : sev[f] = 0
  <2>1. w = Nil
    BY <1>3, Zenon DEF marshalSeverity
  <2>2. FaultSeverity(w) = [probability |-> 0, multiplier |-> 0, add |-> 0, value |-> 0]
    BY <2>1, Zenon DEF FaultSeverity
  <2>3. sev = [f \in F |-> 0]
    BY <1>1, <1>2, <1>3
  <2>4. [f \in F |-> 0] = [probability |-> 0, multiplier |-> 0, add |-> 0, value |-> 0]
    OBVIOUS
  <2>5. w \in Opt(RawSeverity)
    BY <2>1 DEF Opt
  <2> QED
    BY <2>2, <2>3, <2>4, <2>5, Zenon
<1>4. CASE ~(\A f \in DOMAIN sev : sev[f] = 0)
  <2>1. w = [f \in F |-> Unless(sev[f], 0)]
    BY <1>2, <1>4, Zenon DEF marshalSeverity
  <2> DEFINE wa == Unless(a, 0)
             wb == Unless(b, 0)
             wc == Unless(c, 0)
             wd == Unless(d, 0)
  <2>2. wa \in Opt(Number) /\ wb \in Opt(Number) /\ wc \in Opt(Int) /\ wd \in Opt(Number)
    BY <1>1 DEF Unless, Opt
  <2>3. \A f \in F : w[f] = Unless(sev[f], 0)
    BY <2>1
  <2>4. w["probability"] = wa /\ w["multiplier"] = wb /\ w["add"] = wc /\ w["value"] = wd
    BY <2>3
  <2> HIDE DEF wa, wb, wc, wd
  <2>5. w = [probability |-> wa, multiplier |-> wb, add |-> wc, value |-> wd]
    BY <2>1, <2>4
  <2>6. w \in RawSeverity
    BY <2>2, <2>5 DEF RawSeverity
  <2>7. w # Nil /\ w \in Opt(RawSeverity)
    BY <2>6, NilApart DEF Opt
  <2>8. FaultSeverity(w) = [f \in F |-> Or(w[f], 0)]
    BY <2>7, Zenon DEF FaultSeverity
  <2>9. \A f \in F : sev[f] # Nil
    BY <1>1, NilApart DEF Number
  <2>10. \A f \in F : Or(w[f], 0) = sev[f]
    BY <2>3, <2>9 DEF Or, Unless
  <2>11. FaultSeverity(w) = [f \in F |-> sev[f]]
    BY <2>8, <2>10
  <2> QED
    BY <1>1, <2>7, <2>11, Zenon
<1> QED
  BY <1>3, <1>4

LEMMA ScheduleAgain ==
  ASSUME NEW raw \in Seq(Opt(RawPoint)), NEW x, x = Schedule(raw)
  PROVE  x \in Seq(Opt(RawPoint)) /\ Schedule(x) = x
<1> DEFINE at(i) == IF raw[i] = Nil THEN 0 ELSE Or(raw[i].at, 0)
           level(i) == IF raw[i] = Nil THEN 10 ELSE Or(raw[i].intensity, 10)
<1>1. x = [i \in DOMAIN raw |-> [at |-> at(i), intensity |-> level(i)]]
  <2>1. x = [i \in DOMAIN raw |->
          IF raw[i] = Nil THEN [at |-> 0, intensity |-> 10]
          ELSE [at |-> Or(raw[i].at, 0), intensity |-> Or(raw[i].intensity, 10)]]
    BY Zenon DEF Schedule
  <2>2. \A i \in DOMAIN raw :
          (IF raw[i] = Nil THEN [at |-> 0, intensity |-> 10]
           ELSE [at |-> Or(raw[i].at, 0), intensity |-> Or(raw[i].intensity, 10)])
          = [at |-> at(i), intensity |-> level(i)]
    BY Zenon
  <2> HIDE DEF at, level
  <2> QED
    BY <2>1, <2>2
<1>2. ASSUME NEW i \in DOMAIN raw PROVE at(i) \in Int /\ level(i) \in Number
  <2>1. raw[i] \in Opt(RawPoint)
    OBVIOUS
  <2>2. raw[i] # Nil => raw[i].at \in Opt(Int) /\ raw[i].intensity \in Opt(Number)
    BY <2>1 DEF Opt, RawPoint
  <2> QED
    BY <2>2 DEF Or, Opt, Number
<1> HIDE DEF at, level
<1>3. DOMAIN x = DOMAIN raw /\ \A i \in DOMAIN raw : x[i] = [at |-> at(i), intensity |-> level(i)]
  BY <1>1
<1>4. ASSUME NEW i \in DOMAIN raw
      PROVE  x[i] \in RawPoint /\ x[i] # Nil /\ x[i].at = at(i) /\ x[i].intensity = level(i)
  <2> DEFINE p == x[i]
             a == at(i)
             b == level(i)
  <2>1. p = [at |-> a, intensity |-> b] /\ a \in Int /\ b \in Number
    BY <1>2, <1>3, Zenon
  <2> HIDE DEF p, a, b
  <2>2. p \in RawPoint /\ p.at = a /\ p.intensity = b
    BY <2>1 DEF RawPoint, Opt
  <2>3. p # Nil
    BY <2>2, NilApart
  <2> QED
    BY <2>2, <2>3, Zenon DEF p, a, b
<1>5. x \in Seq(Opt(RawPoint))
  <2>1. Len(raw) \in Nat /\ DOMAIN raw = 1..Len(raw)
    OBVIOUS
  <2> DEFINE f == [i \in 1..Len(raw) |-> [at |-> at(i), intensity |-> level(i)]]
  <2>2. x = f
    BY <1>1, <2>1, Zenon
  <2>3. \A i \in 1..Len(raw) : x[i] \in Opt(RawPoint)
    BY <1>4, <2>1 DEF Opt
  <2>4. x = [i \in 1..Len(raw) |-> x[i]]
    BY <2>2
  <2> QED
    BY <2>1, <2>3, <2>4
<1>6. Schedule(x) = x
  <2>1. Schedule(x) = [i \in DOMAIN x |->
          IF x[i] = Nil THEN [at |-> 0, intensity |-> 10]
          ELSE [at |-> Or(x[i].at, 0), intensity |-> Or(x[i].intensity, 10)]]
    BY Zenon DEF Schedule
  <2>2. ASSUME NEW i \in DOMAIN raw PROVE Or(x[i].at, 0) = at(i) /\ Or(x[i].intensity, 10) = level(i)
    BY <1>2, <1>4, NilApart DEF Or, Number
  <2>3. \A i \in DOMAIN raw :
          (IF x[i] = Nil THEN [at |-> 0, intensity |-> 10]
           ELSE [at |-> Or(x[i].at, 0), intensity |-> Or(x[i].intensity, 10)])
          = [at |-> at(i), intensity |-> level(i)]
    BY <1>4, <2>2, Zenon
  <2> QED
    BY <1>1, <1>3, <2>1, <2>3
<1> QED
  BY <1>5, <1>6

LEMMA FaultAgain ==
  ASSUME NEW C, NEW rf, NEW f, FaultRead(C, rf, f), NEW s, marshalFaultTarget(s, f.target) = rf.target,
         NEW E, SameNames(C, E), NEW w, w = FaultText(s, f)
  PROVE  resolveFault(E, w) = Good(f)
<1> DEFINE target == resolveFaultTarget(C, rf.target)
           a == rf.target
           b == Enum(rf.kind, "", FaultKinds)
           c == FaultSeverity(rf.severity)
           d == Schedule(rf.schedule)
           v == target.val
           wc == marshalSeverity(c)
<1>1. rf \in RawFault /\ target.errs = {} /\ f = [target |-> v, kind |-> b, severity |-> c, schedule |-> d]
  BY Zenon DEF FaultRead
<1>2. /\ rf.target \in Name /\ rf.severity \in Opt(RawSeverity) /\ rf.schedule \in Seq(Opt(RawPoint))
  BY <1>1 DEF RawFault
<1>3. b \in Strings /\ Enum(b, "", FaultKinds) = b
  BY Enumerations, KindAgain
<1>4. wc \in Opt(RawSeverity) /\ FaultSeverity(wc) = c
  <2> DEFINE sev == c
             txt == wc
  <2>1. sev = FaultSeverity(rf.severity) /\ txt = marshalSeverity(sev)
    OBVIOUS
  <2> HIDE DEF sev, txt
  <2>2. txt \in Opt(RawSeverity) /\ FaultSeverity(txt) = sev
    BY <1>2, <2>1, SeverityAgainIs
  <2> QED
    BY <2>2, Zenon DEF sev, txt
<1>5. d \in Seq(Opt(RawPoint)) /\ Schedule(d) = d
  <2> DEFINE sch == d
  <2>1. sch = Schedule(rf.schedule)
    OBVIOUS
  <2> HIDE DEF sch
  <2>2. sch \in Seq(Opt(RawPoint)) /\ Schedule(sch) = sch
    BY <1>2, <2>1, ScheduleAgain
  <2> QED
    BY <2>2, Zenon DEF sch
<1>6. resolveFaultTarget(E, a) = target
  <2>1. resolveFaultTarget(C, a) = resolveFaultTarget(E, a)
    BY TargetSame
  <2> QED
    BY <2>1
<1>7. w = [target |-> marshalFaultTarget(s, f.target), kind |-> f.kind, severity |-> marshalSeverity(f.severity),
           schedule |-> f.schedule]
  BY Zenon DEF FaultText
<1>8. marshalFaultTarget(s, f.target) = a
  OBVIOUS
<1> HIDE DEF target, a, b, c, d, v
<1>9. f.kind = b /\ f.severity = c /\ f.schedule = d
  BY <1>1
<1>10. w = [target |-> a, kind |-> b, severity |-> wc, schedule |-> d]
  BY <1>7, <1>8, <1>9, Zenon
<1> HIDE DEF wc
<1>11. w.target = a /\ w.kind = b /\ w.severity = wc /\ w.schedule = d
  BY <1>10
<1>12. w \in RawFault
  <2> DEFINE S == Seq(Opt(RawPoint))
             N == Name
             O == Opt(RawSeverity)
  <2>1. a \in N /\ b \in Strings /\ wc \in O /\ d \in S
    BY <1>2, <1>3, <1>4, <1>5, Zenon DEF a
  <2>2. RawFault = [target : N, kind : Strings, severity : O, schedule : S]
    BY Zenon DEF RawFault
  <2> HIDE DEF S, N, O
  <2> QED
    BY <1>10, <2>1, <2>2
<1>13. w # Nil
  BY <1>12, NilApart
<1> DEFINE g == [target |-> target.val, kind |-> Enum(b, "", FaultKinds), severity |-> FaultSeverity(wc),
                 schedule |-> Schedule(d)]
<1>14. g = f
  BY <1>1, <1>3, <1>4, <1>5, Zenon DEF v
<1>15. resolveFault(E, w) = IF target.errs # {} THEN target ELSE Good(g)
  BY <1>6, <1>11, <1>13, Zenon DEF resolveFault
<1> HIDE DEF g
<1> QED
  BY <1>1, <1>14, <1>15, Zenon

LEMMA SameCalls ==
  ASSUME NEW s, NEW E, CallsKept(s, E)
  PROVE  /\ DOMAIN E.calls = DOMAIN s.calls /\ AllEdges(E) = AllEdges(s)
         /\ \A at \in DOMAIN s.calls :
              /\ E.calls[at].to = s.calls[at].to
              /\ s.calls[at].to # Nil => E.calls[at].from = s.calls[at].from
<1>1. DOMAIN E.calls = DOMAIN s.calls
  BY Zenon DEF CallsKept
<1>2. ASSUME NEW at \in DOMAIN s.calls
      PROVE  /\ E.calls[at].to = s.calls[at].to
             /\ s.calls[at].to # Nil => E.calls[at].from = s.calls[at].from
  <2>1. PICK w : NodeKept(s.calls[at], w, E.calls[at])
    BY Zenon DEF CallsKept
  <2>2. CASE s.calls[at].to = Nil
    BY <2>1, <2>2, Zenon DEF NodeKept
  <2>3. CASE s.calls[at].to # Nil
    BY <2>1, <2>3, Zenon DEF NodeKept, EdgeKept
  <2> QED
    BY <2>2, <2>3
<1>3. AllEdges(E) = AllEdges(s)
  BY <1>1, <1>2 DEF AllEdges
<1> QED
  BY <1>1, <1>2, <1>3, Zenon

LEMMA NamesAgain ==
  ASSUME NEW s, NEW t, NEW D, ServicesKept(s, t, D), NEW E, E.services = D.services, CallsKept(s, E)
  PROVE  SameNames(s, E)
<1>1. DOMAIN E.services = DOMAIN s.services
  BY Zenon DEF ServicesKept
<1>2. Operations(D) = Operations(s)
  BY OperationsSame, Zenon
<1>3. Operations(E) = Operations(s)
  BY <1>2, Zenon DEF Operations
<1>4. /\ AllEdges(E) = AllEdges(s)
      /\ \A at \in DOMAIN s.calls :
              /\ E.calls[at].to = s.calls[at].to
              /\ s.calls[at].to # Nil => E.calls[at].from = s.calls[at].from
  BY SameCalls, Zenon
<1>5. \A at \in AllEdges(s) : at \in DOMAIN s.calls /\ s.calls[at].to # Nil
  BY DEF AllEdges
<1> QED
  BY <1>1, <1>3, <1>4, <1>5, Zenon DEF SameNames

LEMMA NamesMoved ==
  ASSUME NEW s, NEW C, C.services = s.services, C.calls = s.calls, NEW E, SameNames(s, E)
  PROVE  SameNames(C, E)
<1>1. Operations(C) = Operations(s) /\ AllEdges(C) = AllEdges(s)
  BY Zenon DEF Operations, AllEdges
<1> QED
  BY <1>1, Zenon DEF SameNames

LEMMA FaultsAgain ==
  ASSUME NEW raw, Sound(raw), NEW s, s = Resolve(raw).schema, NEW t, MarshaledAs(s, t),
         SameNames(s, WithCalls(t))
  PROVE  /\ \A i \in DOMAIN t.faults : FaultsRead(t)[i].errs = {}
         /\ FaultsKept(t, FaultsFound(t)) = s.faults
<1> DEFINE C == WithCalls(raw)
           E == WithCalls(t)
           o == ApplyFaults(s)
<1>0. C = WithCalls(raw) /\ E = WithCalls(t) /\ o = ApplyFaults(s)
  OBVIOUS
<1> HIDE DEF C, E, o
<1>1. s.services = C.services /\ s.calls = C.calls /\ s.faults = FaultsKept(raw, DOMAIN raw.faults)
  BY <1>0, SchemaIs
<1>2. SameNames(C, E)
  <2>1. SameNames(s, E)
    BY <1>0, Zenon
  <2> QED
    BY <1>1, <2>1, NamesMoved, Zenon
<1>3. DOMAIN s.faults = DOMAIN raw.faults /\ \A i \in DOMAIN s.faults : s.faults[i] = FaultsRead(raw)[i].val
  BY <1>1 DEF FaultsKept
<1>4. DOMAIN t.faults = DOMAIN s.faults /\ \A i \in DOMAIN s.faults : t.faults[i] = FaultText(s, s.faults[i])
  BY Zenon DEF MarshaledAs
<1>5. ASSUME NEW i \in DOMAIN s.faults PROVE FaultsRead(t)[i] = Good(s.faults[i])
  <2> DEFINE f == s.faults[i]
             rf == raw.faults[i]
             w == t.faults[i]
  <2>1. FaultRead(C, rf, f)
    BY <1>0, <1>3, FaultIs
  <2>2. ReadsBack(s, o, i, rf.target)
    BY <1>0, SoundFaults, Zenon
  <2>3. marshalFaultTarget(s, f.target) = rf.target
    BY <2>2, Zenon DEF ReadsBack
  <2>4. w = FaultText(s, f)
    BY <1>4, Zenon
  <2>5. FaultsRead(t)[i] = resolveFault(E, w)
    BY <1>0, <1>4 DEF FaultsRead
  <2> HIDE DEF f, rf, w
  <2>6. resolveFault(E, w) = Good(f)
    BY <1>2, <2>1, <2>3, <2>4, FaultAgain
  <2> QED
    BY <2>5, <2>6, Zenon DEF f
<1>6. \A i \in DOMAIN t.faults : FaultsRead(t)[i].errs = {} /\ FaultsRead(t)[i].val = s.faults[i]
  <2>1. ASSUME NEW i \in DOMAIN s.faults
        PROVE  FaultsRead(t)[i].errs = {} /\ FaultsRead(t)[i].val = s.faults[i]
    <3>1. Good(s.faults[i]).val = s.faults[i] /\ Good(s.faults[i]).errs = {}
      BY ResultIs
    <3> QED
      BY <1>5, <3>1, Zenon
  <2> QED
    BY <1>4, <2>1, Zenon
<1>7. FaultsFound(t) = DOMAIN s.faults
  BY <1>4, <1>6 DEF FaultsFound
<1>8. FaultsKept(t, DOMAIN s.faults) = [i \in DOMAIN s.faults |-> s.faults[i]]
  <2>1. FaultsKept(t, DOMAIN s.faults) = [i \in DOMAIN s.faults |-> FaultsRead(t)[i].val]
    BY Zenon DEF FaultsKept
  <2>2. \A i \in DOMAIN s.faults : FaultsRead(t)[i].val = s.faults[i]
    BY <1>4, <1>6, Zenon
  <2> QED
    BY <2>1, <2>2
<1>9. s.faults = [i \in DOMAIN s.faults |-> s.faults[i]]
  BY <1>1 DEF FaultsKept
<1> QED
  BY <1>6, <1>7, <1>8, <1>9, Zenon

-----------------------------------------------------------------------------
(* What is read again of the document that is written: the whole schema,   *)
(* but for what a document cannot hold of a service or an edge.            *)
SchemaKept(s, b) ==
  /\ b.namespace = s.namespace
  /\ DOMAIN b.services = DOMAIN s.services
  /\ \A id \in DOMAIN s.services : \E w : ServiceKept(id, s.services[id], w, b.services[id])
  /\ CallsKept(s, b) /\ SameNames(s, b)
  /\ b.journeys = s.journeys /\ b.steps = s.steps /\ b.faults = s.faults

LEMMA RewrittenIs ==
  ASSUME NEW raw, Sound(raw), NEW s, s = Resolve(raw).schema,
         NEW t, MarshaledAs(s, t), NEW D, ServicesKept(s, t, D)
  PROVE  Rewritten(s, t)
<1>1. ASSUME NEW at \in DOMAIN s.calls PROVE CallWhole(s, at)
  BY CallsWhole, Zenon
<1>2. ASSUME NEW p \in Operations(s) PROVE Placing(s, t, p)
  BY PlacedAgain, Zenon
<1>3. CallsWritten(s, t)
  BY <1>1, <1>2, CallsWrittenIs, Zenon
<1> QED
  BY <1>1, <1>2, <1>3, Zenon DEF Rewritten

LEMMA SchemaParts ==
  ASSUME NEW n, NEW v, NEW c, NEW j, NEW k, NEW f, NEW b,
         b = [namespace |-> n, services |-> v, calls |-> c, journeys |-> j, steps |-> k, faults |-> f]
  PROVE  /\ b.namespace = n /\ b.services = v /\ b.calls = c
         /\ b.journeys = j /\ b.steps = k /\ b.faults = f
OBVIOUS

LEMMA KeptIn ==
  ASSUME NEW s, NEW E, NEW b, b.services = E.services, b.calls = E.calls
  PROVE  /\ CallsKept(s, E) => CallsKept(s, b)
         /\ SameNames(s, E) => SameNames(s, b)
<1>1. Operations(b) = Operations(E) /\ AllEdges(b) = AllEdges(E)
  BY Zenon DEF Operations, AllEdges
<1>2. ASSUME CallsKept(s, E) PROVE CallsKept(s, b)
  BY <1>2, Zenon DEF CallsKept
<1>3. ASSUME SameNames(s, E) PROVE SameNames(s, b)
  BY <1>1, <1>3, Zenon DEF SameNames
<1> QED
  BY <1>2, <1>3

LEMMA ErrorsRead ==
  ASSUME NEW raw
  PROVE  Resolve(raw).errs = Reported(CallsWrong(raw)) \union Reported(StepsWrong(raw))
                \union UNION {FaultsRead(raw)[i].errs : i \in DOMAIN raw.faults}
BY ResolveIs, Zenon

LEMMA SchemaRead ==
  ASSUME NEW raw
  PROVE  Resolve(raw).schema =
           [namespace |-> WithCalls(raw).namespace, services |-> WithCalls(raw).services,
            calls |-> WithCalls(raw).calls, journeys |-> JourneysRead(raw),
            steps |-> StepsKept(raw, Resolved(StepsWrong(raw))),
            faults |-> FaultsKept(raw, FaultsFound(raw))]
BY ResolveIs, Zenon

LEMMA ReadOnceMore ==
  ASSUME NEW raw, Sound(raw), NEW s, s = Resolve(raw).schema, Validate(s) = {},
         NEW t, t = MarshalYAML(s), NEW r, r = Resolve(t)
  PROVE  r.errs = {} /\ SchemaKept(s, r.schema)
<1> DEFINE D == buildSchema(t)
           E == WithCalls(t)
           b == r.schema
<1>0. D = buildSchema(t) /\ E = WithCalls(t)
  OBVIOUS
<1> HIDE DEF D, E
<1>1. MarshaledAs(s, t)
  BY MarshaledIs
<1>2. ServicesKept(s, t, D)
  BY <1>0, ServicesAgain
<1>3. Rewritten(s, t)
  BY <1>1, <1>2, RewrittenIs, Zenon
<1>4. Reported(CallsWrong(t)) = {} /\ CallsKept(s, E)
  BY <1>0, <1>2, <1>3, CallsAgain
<1>5. E.services = D.services /\ E.namespace = D.namespace
  BY <1>0, ServicesSame, NamespaceSame
<1>6. SameNames(s, E)
  BY <1>2, <1>4, <1>5, NamesAgain, Zenon
<1>7. Operations(E) = Operations(s)
  BY <1>6, Zenon DEF SameNames
<1>8. Reported(StepsWrong(t)) = {} /\ StepsKept(t, Resolved(StepsWrong(t))) = s.steps
  BY <1>0, <1>1, <1>7, StepsAgain
<1>9. JourneysRead(t) = s.journeys
  BY <1>1, JourneysAgain
<1>10. (\A i \in DOMAIN t.faults : FaultsRead(t)[i].errs = {}) /\ FaultsKept(t, FaultsFound(t)) = s.faults
  BY <1>0, <1>1, <1>6, FaultsAgain
<1>11. b = [namespace |-> E.namespace, services |-> E.services, calls |-> E.calls,
            journeys |-> JourneysRead(t), steps |-> StepsKept(t, Resolved(StepsWrong(t))),
            faults |-> FaultsKept(t, FaultsFound(t))]
  <2>1. b = Resolve(t).schema
    OBVIOUS
  <2> QED
    BY <1>0, <2>1, SchemaRead, Zenon
<1>12. r.errs = Reported(CallsWrong(t)) \union Reported(StepsWrong(t))
                \union UNION {FaultsRead(t)[i].errs : i \in DOMAIN t.faults}
  <2>1. Resolve(t).errs = Reported(CallsWrong(t)) \union Reported(StepsWrong(t))
                \union UNION {FaultsRead(t)[i].errs : i \in DOMAIN t.faults}
    BY ErrorsRead
  <2> QED
    BY <2>1, Zenon
<1>13. r.errs = {}
  <2> DEFINE u == UNION {FaultsRead(t)[i].errs : i \in DOMAIN t.faults}
             x == Reported(CallsWrong(t))
             y == Reported(StepsWrong(t))
  <2>1. u = {}
    BY <1>10
  <2>2. x = {} /\ y = {} /\ r.errs = x \union y \union u
    BY <1>4, <1>8, <1>12, Zenon
  <2> HIDE DEF x, y, u
  <2> QED
    BY <2>1, <2>2
<1> HIDE DEF b
<1>14. /\ b.namespace = E.namespace /\ b.services = E.services /\ b.calls = E.calls
       /\ b.journeys = s.journeys /\ b.steps = s.steps /\ b.faults = s.faults
  <2> DEFINE j == JourneysRead(t)
             k == StepsKept(t, Resolved(StepsWrong(t)))
             f == FaultsKept(t, FaultsFound(t))
  <2>1. j = s.journeys /\ k = s.steps /\ f = s.faults
    BY <1>8, <1>9, <1>10, Zenon
  <2>2. b = [namespace |-> E.namespace, services |-> E.services, calls |-> E.calls,
             journeys |-> j, steps |-> k, faults |-> f]
    BY <1>11, Zenon
  <2> HIDE DEF j, k, f
  <2>3. /\ b.namespace = E.namespace /\ b.services = E.services /\ b.calls = E.calls
        /\ b.journeys = j /\ b.steps = k /\ b.faults = f
    BY <2>2
  <2> QED
    BY <2>1, <2>3, Zenon
<1>15. CallsKept(s, b) /\ SameNames(s, b)
  BY <1>4, <1>6, <1>14, KeptIn, Zenon
<1>16. /\ b.namespace = s.namespace /\ DOMAIN b.services = DOMAIN s.services
       /\ \A id \in DOMAIN s.services : \E w : ServiceKept(id, s.services[id], w, b.services[id])
  BY <1>2, <1>5, <1>14, Zenon DEF ServicesKept
<1>17. SchemaKept(s, b)
  BY <1>14, <1>15, <1>16, Zenon DEF SchemaKept
<1> QED
  BY <1>13, <1>17, Zenon DEF b

-----------------------------------------------------------------------------
(* The schema that is read again keeps the rules of Validate.              *)
LEMMA CallersSame ==
  ASSUME NEW s, NEW b, CallsKept(s, b), NEW at \in DOMAIN s.calls
  PROVE  b.calls[at].to = s.calls[at].to /\ b.calls[at].from = s.calls[at].from
<1>1. PICK w : NodeKept(s.calls[at], w, b.calls[at])
  BY Zenon DEF CallsKept
<1>2. CASE s.calls[at].to = Nil
  BY <1>1, <1>2, Zenon DEF NodeKept
<1>3. CASE s.calls[at].to # Nil
  BY <1>1, <1>3, Zenon DEF NodeKept, EdgeKept
<1> QED
  BY <1>2, <1>3

LEMMA UnvisitedSame ==
  ASSUME NEW s, NEW b, SameNames(s, b), IsFiniteSet(Operations(s))
  PROVE  Unvisited(b) = Unvisited(s)
<1>1. Operations(b) = Operations(s)
  BY Zenon DEF SameNames
<1>2. ASSUME NEW T PROVE Called(b, T) = Called(s, T)
  <2>1. AllEdges(b) = AllEdges(s) /\ \A at \in AllEdges(s) : b.calls[at].to = s.calls[at].to
    BY Zenon DEF SameNames
  <2>2. /\ Called(b, T) = {b.calls[at].to : at \in {e \in AllEdges(s) : e[1] \in T}}
        /\ Called(s, T) = {s.calls[at].to : at \in {e \in AllEdges(s) : e[1] \in T}}
    BY <2>1, Zenon DEF Called
  <2> DEFINE A == {e \in AllEdges(s) : e[1] \in T}
  <2>3. \A at \in A : b.calls[at].to = s.calls[at].to
    BY <2>1
  <2>4. /\ Called(b, T) = {b.calls[at].to : at \in A}
        /\ Called(s, T) = {s.calls[at].to : at \in A}
    BY <2>2, Zenon
  <2> HIDE DEF A
  <2> QED
    BY <2>3, <2>4
<1>3. ASSUME NEW left PROVE Kept(b, left) = Kept(s, left)
  <2>1. {T \in SUBSET left : T \subseteq Called(b, T)} = {T \in SUBSET left : T \subseteq Called(s, T)}
    BY <1>2
  <2> QED
    BY <2>1, Zenon DEF Kept
<1>4. Unvisited(s) = Kept(s, Operations(s))
  BY UnvisitedIs, Zenon
<1>5. IsFiniteSet(Operations(b))
  BY <1>1, Zenon
<1>6. Unvisited(b) = Kept(b, Operations(b))
  BY <1>5, UnvisitedIs, Zenon
<1>7. Kept(b, Operations(b)) = Kept(s, Operations(s))
  BY <1>1, <1>3, Zenon
<1> QED
  BY <1>4, <1>6, <1>7, Zenon

LEMMA ServiceRules ==
  ASSUME NEW s, NEW b, SchemaKept(s, b)
  PROVE  /\ \A id \in DOMAIN b.services : b.services[id].name = id /\ ServiceErrors(b.services[id]) = {}
         /\ BackPointers(b)
<1>1. DOMAIN b.services = DOMAIN s.services
  BY Zenon DEF SchemaKept
<1>2. ASSUME NEW id \in DOMAIN s.services
      PROVE  /\ b.services[id].name = id /\ ServiceErrors(b.services[id]) = {}
             /\ \A n \in DOMAIN b.services[id].operations :
                  b.services[id].operations[n].service = id /\ b.services[id].operations[n].name = n
  <2>1. PICK w : ServiceKept(id, s.services[id], w, b.services[id])
    BY Zenon DEF SchemaKept
  <2> QED
    BY <2>1, Zenon DEF ServiceKept
<1>3. ASSUME NEW p \in Operations(b) PROVE Op(b, p).service = p[1] /\ Op(b, p).name = p[2]
  <2> DEFINE id == p[1]
             n == p[2]
  <2>1. id \in DOMAIN b.services /\ n \in DOMAIN b.services[id].operations
    BY DEF Operations
  <2>2. Op(b, p) = b.services[id].operations[n]
    BY Zenon DEF Op
  <2>3. id \in DOMAIN s.services
    BY <1>1, <2>1, Zenon
  <2> HIDE DEF id, n
  <2>4. b.services[id].operations[n].service = id /\ b.services[id].operations[n].name = n
    BY <1>2, <2>1, <2>3
  <2> QED
    BY <2>2, <2>4, Zenon DEF id, n
<1>4. BackPointers(b)
  BY <1>3, Zenon DEF BackPointers
<1> QED
  BY <1>1, <1>2, <1>4, Zenon

LEMMA CallRules ==
  ASSUME NEW s, NEW b, SchemaKept(s, b), Rules(s)
  PROVE  NoOrphans(b) /\ StepsReachable(b) /\ CallVariants(b) /\ FallbacksOwned(b)
<1>1. /\ DOMAIN b.calls = DOMAIN s.calls
      /\ \A at \in DOMAIN s.calls : b.calls[at].to = s.calls[at].to /\ b.calls[at].from = s.calls[at].from
  <2>1. CallsKept(s, b)
    BY Zenon DEF SchemaKept
  <2> QED
    BY <2>1, CallersSame, Zenon DEF CallsKept
<1>2. AllEdges(b) = AllEdges(s) /\ Operations(b) = Operations(s) /\ b.steps = s.steps
  BY Zenon DEF SchemaKept, SameNames
<1>3. \A at \in AllEdges(s) : at \in DOMAIN s.calls
  BY DEF AllEdges
<1>4. NoOrphans(b)
  <2>1. ASSUME NEW at \in AllEdges(b) PROVE {b.calls[at].from, b.calls[at].to} \subseteq Operations(b)
    <3>1. at \in AllEdges(s) /\ b.calls[at].to = s.calls[at].to /\ b.calls[at].from = s.calls[at].from
      BY <1>1, <1>2, <1>3, Zenon
    <3>2. {s.calls[at].from, s.calls[at].to} \subseteq Operations(s)
      BY <3>1, Zenon DEF Rules, NoOrphans
    <3> QED
      BY <1>2, <3>1, <3>2, Zenon
  <2> QED
    BY <2>1, Zenon DEF NoOrphans
<1>5. StepsReachable(b)
  BY <1>2, Zenon DEF Rules, StepsReachable
<1>6. CallVariants(b)
  <2>1. Nodes(b.calls) = Nodes(s.calls) /\ Nodes(s.calls) \subseteq DOMAIN s.calls
    BY <1>1 DEF Nodes
  <2>2. ASSUME NEW k \in Nodes(b.calls) PROVE (b.calls[k].to # Nil) # HasMembers(b.calls, k)
    <3>1. k \in Nodes(s.calls) /\ b.calls[k].to = s.calls[k].to
      BY <1>1, <2>1, Zenon
    <3>2. HasMembers(b.calls, k) <=> HasMembers(s.calls, k)
      BY <1>1, MembersByKeys, Zenon
    <3>3. (s.calls[k].to # Nil) # HasMembers(s.calls, k)
      BY <3>1, Zenon DEF Rules, CallVariants
    <3> QED
      BY <3>1, <3>2, <3>3 DEF HasMembers
  <2> QED
    BY <2>2, Zenon DEF CallVariants
<1>7. FallbacksOwned(b)
  BY <1>1, Zenon DEF Rules, FallbacksOwned
<1> QED
  BY <1>4, <1>5, <1>6, <1>7

LEMMA DomainKept ==
  ASSUME NEW s, NEW b, SchemaKept(s, b), DomainRules(s)
  PROVE  DomainRules(b)
<1>1. DOMAIN b.services = DOMAIN s.services /\ b.journeys = s.journeys /\ b.steps = s.steps /\ b.faults = s.faults
  BY Zenon DEF SchemaKept
<1>2. DOMAIN b.services # {} /\ DOMAIN b.journeys # {}
  BY <1>1, Zenon DEF DomainRules
<1>3. \A id \in DOMAIN b.services : ServiceErrors(b.services[id]) = {}
  BY ServiceRules, Zenon
<1>4. ASSUME NEW at \in AllEdges(b) PROVE EdgeErrors(b.calls[at]) = {}
  <2>1. at \in AllEdges(s)
    BY Zenon DEF SchemaKept, SameNames
  <2>2. at \in DOMAIN s.calls /\ s.calls[at].to # Nil
    BY <2>1 DEF AllEdges
  <2>3. PICK w : NodeKept(s.calls[at], w, b.calls[at])
    BY <2>2, Zenon DEF SchemaKept, CallsKept
  <2>4. EdgeKept(s.calls[at], b.calls[at])
    BY <2>2, <2>3, Zenon DEF NodeKept
  <2>5. EdgeErrors(s.calls[at]) = {}
    BY <2>1, Zenon DEF DomainRules
  <2> QED
    BY <2>4, <2>5, EdgeSame
<1>5. \A name \in DOMAIN b.journeys : JourneyErrors(b, name) = {}
  <2>1. ASSUME NEW name PROVE JourneyErrors(b, name) = JourneyErrors(s, name)
    BY <1>1, Zenon DEF JourneyErrors
  <2> QED
    BY <1>1, <2>1, Zenon DEF DomainRules
<1>6. \A f \in ToSet(b.faults) : FaultErrors(f) = {}
  BY <1>1, Zenon DEF DomainRules
<1> QED
  BY <1>2, <1>3, <1>4, <1>5, <1>6, Zenon DEF DomainRules

LEMMA ValidAgain ==
  ASSUME NEW raw, Sound(raw), NEW s, s = Resolve(raw).schema, Validate(s) = {}, NEW b, SchemaKept(s, b)
  PROVE  Validate(b) = {}
<1>1. Rules(s) /\ DomainRules(s)
  BY ValidateIs, Zenon
<1>2. DomainRules(b)
  BY <1>1, DomainKept, Zenon
<1>3. (\A id \in DOMAIN b.services : b.services[id].name = id) /\ BackPointers(b)
  BY ServiceRules, Zenon
<1>4. NoOrphans(b) /\ StepsReachable(b) /\ CallVariants(b) /\ FallbacksOwned(b)
  BY <1>1, CallRules, Zenon
<1>5. SameNames(s, b) /\ b.faults = s.faults
  BY Zenon DEF SchemaKept
<1>6. Unvisited(b) = {}
  <2>1. GraphWhole(s)
    BY SoundGraph, Zenon
  <2>2. IsFiniteSet(Operations(s))
    BY <2>1, Zenon DEF GraphWhole
  <2>3. Unvisited(b) = Unvisited(s)
    BY <1>5, <2>2, UnvisitedSame
  <2> QED
    BY <1>1, <2>3, Zenon DEF Rules
<1>7. \A f \in ToSet(b.faults) : TargetFound(b, f.target)
  <2>1. ASSUME NEW x, TargetFound(s, x) PROVE TargetFound(b, x)
    <3>1. DOMAIN b.services = DOMAIN s.services /\ Operations(b) = Operations(s) /\ AllEdges(b) = AllEdges(s)
      BY <1>5, Zenon DEF SameNames
    <3> QED
      BY <2>1, <3>1, Zenon DEF TargetFound
  <2> QED
    BY <1>1, <1>5, <2>1, Zenon DEF Rules
<1>8. Rules(b)
  BY <1>3, <1>4, <1>6, <1>7, Zenon DEF Rules
<1> QED
  BY <1>2, <1>8, ValidateIs, Zenon

-----------------------------------------------------------------------------
(* Of a schema a document can hold, every part is read again as it was.    *)
LEMMA LinksWritten ==
  ASSUME NEW s, Writable(s), NEW id \in DOMAIN s.services
  PROVE  ServiceWritten(s.services[id])
<1> DEFINE svc == s.services[id]
<1>1. \A link \in Links(s) \ {Nil} : link.hasValue => link.delta = 0
  BY Zenon DEF Writable
<1>1a. ASSUME NEW m \in Maps(s) PROVE MapWritten(m)
  BY <1>1a, Zenon DEF Writable, MapWritten
<1>2. ASSUME NEW link \in Links(s) PROVE DeltaWritten(link)
  BY <1>1, <1>2 DEF DeltaWritten
<1>3. ASSUME NEW m \in svc.metrics PROVE MetricWritten(m)
  <2>1. m.whenFault \in Links(s)
    BY <1>3 DEF Links
  <2>2. m.attributes \in Maps(s)
    BY <1>3 DEF Maps
  <2> QED
    BY <1>1a, <1>2, <2>1, <2>2, Zenon DEF MetricWritten
<1>4. ASSUME NEW n \in DOMAIN svc.operations PROVE OperationWritten(svc.operations[n])
  <2> DEFINE p == <<id, n>>
             op == svc.operations[n]
  <2>1. p \in Operations(s)
    BY DEF Operations
  <2>2. Op(s, p) = op
    BY DEF Op
  <2>3. ASSUME NEW m \in op.metrics \union op.stateUpdates PROVE DeltaWritten(m.whenFault)
    <3>1. m \in Op(s, p).metrics \union Op(s, p).stateUpdates
      BY <2>2, <2>3, Zenon
    <3> HIDE DEF p
    <3>2. m.whenFault \in {x.whenFault : x \in Op(s, p).metrics \union Op(s, p).stateUpdates}
      BY <3>1, Zenon
    <3> DEFINE part(q) == {x.whenFault : x \in Op(s, q).metrics \union Op(s, q).stateUpdates}
    <3>3. m.whenFault \in UNION {part(q) : q \in Operations(s)}
      <4>1. m.whenFault \in part(p)
        BY <3>2, Zenon
      <4> HIDE DEF part
      <4> QED
        BY <2>1, <4>1
    <3>4. UNION {part(q) : q \in Operations(s)} \subseteq Links(s)
      BY Zenon DEF Links
    <3> QED
      BY <1>2, <3>3, <3>4, Zenon
  <2>4. RateWritten(op.profile)
    <3>1. ASSUME op.profile # Nil PROVE op.profile \in Profiles(s)
      <4> HIDE DEF p
      <4>1. Op(s, p).profile # Nil
        BY <2>2, <3>1, Zenon
      <4>2. Op(s, p).profile \in Profiles(s)
        BY <2>1, <4>1 DEF Profiles
      <4> QED
        BY <2>2, <4>2, Zenon
    <3> QED
      BY <3>1, Zenon DEF Writable, RateWritten
  <2>5. ASSUME NEW m \in op.logEvents \union op.metrics PROVE MapWritten(m.attributes)
    <3>1. m \in Op(s, p).logEvents \union Op(s, p).metrics
      BY <2>2, <2>5, Zenon
    <3> HIDE DEF p
    <3> DEFINE part(q) == {x.attributes : x \in Op(s, q).logEvents \union Op(s, q).metrics}
    <3>2. m.attributes \in UNION {part(q) : q \in Operations(s)}
      <4>1. m.attributes \in part(p)
        BY <3>1, Zenon
      <4> HIDE DEF part
      <4> QED
        BY <2>1, <4>1
    <3>3. UNION {part(q) : q \in Operations(s)} \subseteq Maps(s)
      BY DEF Maps
    <3> QED
      BY <1>1a, <3>2, <3>3
  <2> QED
    BY <2>3, <2>4, <2>5, Zenon DEF OperationWritten
<1> QED
  BY <1>3, <1>4, Zenon DEF ServiceWritten

LEMMA TargetNamedSame ==
  ASSUME NEW s, NEW b, SchemaKept(s, b), NEW t, TargetFound(s, t)
  PROVE  marshalFaultTarget(b, t) = marshalFaultTarget(s, t)
<1>1. t.kind = "node" \/ t.kind = "operation" \/ (t.kind = "edge" /\ t.edge \in AllEdges(s))
  BY Zenon DEF TargetFound
<1>2. CASE t.kind = "edge" /\ t.edge \in AllEdges(s)
  <2> DEFINE e == s.calls[t.edge]
             f == b.calls[t.edge]
  <2>1. f.from = e.from /\ f.to = e.to
    BY <1>2, Zenon DEF SchemaKept, SameNames
  <2>2. edgeIdentity(f) = edgeIdentity(e)
    BY <2>1, Zenon DEF edgeIdentity
  <2>3. ASSUME NEW x PROVE marshalFaultTarget(x, t) = <<"edge", ":">> \o edgeIdentity(x.calls[t.edge])
    BY <1>2, Kinds, Zenon DEF marshalFaultTarget
  <2> QED
    BY <2>2, <2>3, Zenon
<1>3. CASE t.kind = "node"
  <2>1. ASSUME NEW x PROVE marshalFaultTarget(x, t) = <<"node", ":">> \o t.service
    BY <1>3, Kinds, Zenon DEF marshalFaultTarget
  <2> QED
    BY <2>1, Zenon
<1>4. CASE t.kind = "operation"
  <2>1. ASSUME NEW x PROVE marshalFaultTarget(x, t) = <<"operation", ":">> \o identifyOp(t.operation)
    BY <1>4, Kinds, Zenon DEF marshalFaultTarget
  <2> QED
    BY <2>1, Zenon
<1> QED
  BY <1>1, <1>2, <1>3, <1>4

LEMMA NamedSame ==
  ASSUME NEW s, NEW b, SchemaKept(s, b), Validate(s) = {}, Writable(s)
  PROVE  Named(b) = Named(s)
<1>0. Rules(s)
  BY ValidateIs, Zenon
<1>1. /\ b.namespace = s.namespace /\ DOMAIN b.services = DOMAIN s.services
      /\ b.journeys = s.journeys /\ b.steps = s.steps /\ b.faults = s.faults /\ DOMAIN b.calls = DOMAIN s.calls
  BY Zenon DEF SchemaKept, CallsKept
<1>2. ASSUME NEW id \in DOMAIN s.services PROVE b.services[id] = s.services[id]
  <2>1. PICK w : ServiceKept(id, s.services[id], w, b.services[id])
    BY Zenon DEF SchemaKept
  <2>2. ServiceWritten(s.services[id])
    BY LinksWritten, Zenon
  <2> QED
    BY <2>1, <2>2, Zenon DEF ServiceKept
<1>3. ASSUME NEW at \in DOMAIN s.calls PROVE NamedCall(b.calls[at]) = NamedCall(s.calls[at])
  <2> DEFINE e == s.calls[at]
             f == b.calls[at]
  <2>1. PICK w : NodeKept(e, w, f)
    BY Zenon DEF SchemaKept, CallsKept
  <2>2. CASE e.to = Nil
    BY <2>1, <2>2, Zenon DEF NodeKept
  <2>3. CASE e.to # Nil
    <3>1. EdgeKept(e, f)
      BY <2>1, <2>3, Zenon DEF NodeKept
    <3>2. e.latency.p95 = 0 => e.latency.p50 = 0
      BY <2>3, Zenon DEF Writable
    <3>2a. PolicyWritten(e.onFailure)
      <4>1. ASSUME e.onFailure # Nil PROVE e.onFailure.defaultResponse \in Maps(s)
        BY <2>3, <4>1 DEF Maps
      <4> QED
        BY <4>1, Zenon DEF PolicyWritten, Writable, MapWritten
    <3> HIDE DEF e, f
    <3>3. NamedCall(f) = NamedCall(e)
      BY <2>3, <3>1, <3>2, <3>2a, EdgeSame
    <3> QED
      BY <3>3, Zenon DEF e, f
  <2> QED
    BY <2>2, <2>3
<1>4. ASSUME NEW i \in DOMAIN s.faults
      PROVE  marshalFaultTarget(b, s.faults[i].target) = marshalFaultTarget(s, s.faults[i].target)
  <2>1. s.faults[i] \in ToSet(s.faults)
    BY DEF ToSet
  <2>2. TargetFound(s, s.faults[i].target)
    BY <1>0, <2>1, Zenon DEF Rules
  <2> QED
    BY <2>2, TargetNamedSame
<1> DEFINE services(x) == [id \in DOMAIN x.services |-> NamedService(x.services[id])]
           calls(x) == [at \in DOMAIN x.calls |-> NamedCall(x.calls[at])]
           steps(x) == [k \in DOMAIN x.steps |-> identifyOp(x.steps[k].op)]
           target(x, t) == <<t.kind, marshalFaultTarget(x, t)>>
           faults(x) == [i \in DOMAIN x.faults |-> [x.faults[i] EXCEPT !.target = target(x, x.faults[i].target)]]
<1>5. ASSUME NEW x
      PROVE  Named(x) = [namespace |-> effectiveNamespace(x.namespace), services |-> services(x), calls |-> calls(x),
                         journeys |-> x.journeys, steps |-> steps(x), faults |-> faults(x)]
  BY Zenon DEF Named, MapSeq
<1>6. services(b) = services(s)
  BY <1>1, <1>2
<1>7. calls(b) = calls(s)
  BY <1>1, <1>3
<1>8. steps(b) = steps(s)
  BY <1>1, Zenon
<1>9. faults(b) = faults(s)
  <2>1. ASSUME NEW i \in DOMAIN s.faults PROVE target(b, b.faults[i].target) = target(s, s.faults[i].target)
    BY <1>1, <1>4, Zenon
  <2> HIDE DEF target
  <2> QED
    BY <1>1, <2>1
<1> HIDE DEF services, calls, steps, faults
<1> QED
  BY <1>1, <1>5, <1>6, <1>7, <1>8, <1>9, Zenon

LEMMA RoundTripAlways == Answers => RoundTrip
<1> SUFFICES ASSUME Answers, again # Nil
             PROVE  again.errs = {} /\ (Writable(loaded.schema) => Equal(loaded.schema, again.schema))
  BY Zenon DEF RoundTrip
<1> DEFINE s == loaded.schema
           r == Resolve(text)
           b == r.schema
<1>1. /\ text # Nil /\ again = Parse("ok", r) /\ engine # Nil /\ Accepted /\ text = MarshalYAML(s)
  BY Zenon DEF Answers
<1>2. Sound(doc.raw) /\ s = Resolve(doc.raw).schema /\ Validate(s) = {}
  BY <1>1, AcceptedSound, Zenon
<1>3. r.errs = {} /\ SchemaKept(s, b)
  <2> DEFINE raw == doc.raw
             sc == s
             tx == text
             rr == r
  <2>1. Sound(raw) /\ sc = Resolve(raw).schema /\ Validate(sc) = {} /\ tx = MarshalYAML(sc) /\ rr = Resolve(tx)
    BY <1>1, <1>2, Zenon
  <2> HIDE DEF raw, sc, tx, rr
  <2>2. rr.errs = {} /\ SchemaKept(sc, rr.schema)
    BY <2>1, ReadOnceMore
  <2> QED
    BY <2>2, Zenon DEF rr, sc
<1>4. Validate(b) = {}
  <2> DEFINE raw == doc.raw
             sc == s
             sb == b
  <2>1. Sound(raw) /\ sc = Resolve(raw).schema /\ Validate(sc) = {} /\ SchemaKept(sc, sb)
    BY <1>2, <1>3, Zenon
  <2> HIDE DEF raw, sc, sb
  <2>2. Validate(sb) = {}
    BY <2>1, ValidAgain
  <2> QED
    BY <2>2, Zenon DEF sb
<1>5. again.errs = {} /\ again.schema = b
  <2> DEFINE rr == r
             p == again
  <2>1. p = Parse("ok", rr) /\ rr.errs = {} /\ Validate(rr.schema) = {}
    BY <1>1, <1>3, <1>4, Zenon
  <2>2. "ok" \notin {"type", "both", "syntax"}
    OBVIOUS
  <2> HIDE DEF rr, p
  <2>3. p.errs = IF rr.errs # {} THEN rr.errs ELSE Validate(rr.schema)
    BY <2>1, <2>2, ParseIs
  <2>4. p.schema = IF p.errs = {} THEN rr.schema ELSE Nil
    BY <2>1, ParseIs
  <2> QED
    BY <2>1, <2>3, <2>4, Zenon DEF rr, p
<1>6. ASSUME Writable(s) PROVE Equal(s, again.schema)
  <2> DEFINE sc == s
             sb == b
  <2>1. SchemaKept(sc, sb) /\ Validate(sc) = {} /\ Writable(sc)
    BY <1>2, <1>3, <1>6, Zenon
  <2> HIDE DEF sc, sb
  <2>2. Named(sb) = Named(sc)
    BY <2>1, NamedSame
  <2>3. NaN \notin Floats(sc)
    BY <2>1, Zenon DEF Writable
  <2>4. Equal(sc, sb)
    BY <2>2, <2>3, Zenon DEF Equal
  <2> QED
    BY <1>5, <2>4, Zenon DEF sc, sb
<1> QED
  BY <1>5, <1>6

(* What MarshalYAML writes of an accepted schema is accepted, and of one   *)
(* the document can hold (Writable), read back as an equal schema.         *)
THEOREM RoundTripCorrect == Spec => []RoundTrip
<1>1. Spec => []Answers
  BY AnswersAlways
<1>2. Answers => RoundTrip
  BY RoundTripAlways
<1> QED
  BY <1>1, <1>2, PTL

=============================================================================
