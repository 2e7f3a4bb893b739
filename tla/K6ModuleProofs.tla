--------------------------- MODULE K6ModuleProofs ---------------------------
(***************************************************************************)
(* Proofs about K6Module, for every set of VUs, paths and scripts.         *)
(*                                                                         *)
(* What carries them: the once, the shared pipeline and the registration   *)
(* are each settled a single time, and a VU inside load() that has got     *)
(* beyond one of them knows how it was settled.                            *)
(***************************************************************************)
EXTENDS K6Module, TLAPS

MaybePath == Paths \union {NoPath}
Publishing == {"schema", "overlay", "path"}   \* inside the function of schemaOnce
Building == {"pipeline", "register", "engine"}   \* inside lateInit
Stage == {"absent", "idle", "once", "check", "panicked"} \union Publishing \union Building

Typed ==
  /\ script \in Script
  /\ phase \in Phases
  /\ once \in {"new", "running", "done"}
  /\ schema \in MaybePath /\ loadedPath \in MaybePath /\ schemaErr \in MaybePath
  /\ overlay \in BOOLEAN
  /\ configured \in {"open", "done", "failed"}
  /\ shared \in {"unset", "built", "failed"}
  /\ registered \in {"no", "complete", "blind", "failed"}
  /\ exported \in Nat
  /\ pc \in [VUs -> Stage]
  /\ want \in [VUs -> MaybePath]
  /\ handle \in [VUs -> MaybePath]
  /\ lastStats \in [VUs -> Nat]
  /\ reported \in [VUs -> Nat]
  /\ muted \in [VUs -> BOOLEAN]

-----------------------------------------------------------------------------
(***************************************************************************)
(* Types.                                                                  *)
(***************************************************************************)
LEMMA InitTyped == Init => Typed
<1>1. Init => script \in Script /\ overlay \in BOOLEAN
  BY ScriptAssumption, Zenon DEF Init
<1> QED
  BY <1>1 DEF Init, Typed, Phases, MaybePath, Stage

LEMMA ReturnTyped ==
  ASSUME Typed, NEW v \in VUs, NEW result, Return(v, result)
  PROVE  pc' \in [VUs -> Stage] /\ want' \in [VUs -> MaybePath]
  BY DEF Return, Typed, Stage, MaybePath

LEMMA GetSharedTyped ==
  ASSUME Typed, NEW cfg, GetShared(cfg)
  PROVE  shared' \in {"unset", "built", "failed"}
  BY DEF GetShared, Typed, pipe

LEMMA LoadTyped ==
  ASSUME Typed, NEW v \in VUs, InLoad(v)
  PROVE  Typed'
<1> USE DEF Typed, test, root, setup, pipe, stats, Stage, Publishing, Building
<1>1. CASE EnterOnce(v)
  BY <1>1 DEF EnterOnce
<1>2. CASE SetSchema(v)
  BY <1>2 DEF SetSchema
<1>3. CASE SetOverlay(v)
  BY <1>3 DEF SetOverlay
<1>4. CASE LeaveOnce(v)
  BY <1>4 DEF LeaveOnce
<1>5. CASE PassOnce(v)
  BY <1>5 DEF PassOnce
<1>6. CASE CheckLoaded(v)
  BY <1>6, ReturnTyped DEF CheckLoaded
<1>7. CASE GetOrBuildPipeline(v)
  BY <1>7, ReturnTyped, GetSharedTyped DEF GetOrBuildPipeline
<1>8. CASE EnsureObservableRegistration(v)
  BY <1>8, ReturnTyped DEF EnsureObservableRegistration
<1>9. CASE NewEngine(v)
  BY <1>9, ReturnTyped DEF NewEngine
<1> QED
  BY <1>1, <1>2, <1>3, <1>4, <1>5, <1>6, <1>7, <1>8, <1>9 DEF InLoad

LEMMA TypedStep ==
  ASSUME Typed, DeltasAddUp, [Next]_vars
  PROVE  Typed' /\ DeltasAddUp'
<1> USE DEF DeltasAddUp, test, root, setup, pipe, stats
<1>1. ASSUME UNCHANGED stats, exported' \in {exported, exported + 1}
      PROVE  DeltasAddUp'
  BY <1>1 DEF Typed
<1>2. CASE InitDone \/ SetupDone \/ OutputStart \/ Export
  <2>1. UNCHANGED stats /\ exported' \in {exported, exported + 1}
    BY <1>2 DEF InitDone, SetupDone, OutputStart, Export
  <2> QED
    BY <1>1, <1>2, <2>1, GetSharedTyped DEF Typed, InitDone, SetupDone, OutputStart, Export, Phases
<1>3. ASSUME NEW v \in VUs, InLoad(v) PROVE Typed' /\ DeltasAddUp'
  <2>1. UNCHANGED stats /\ exported' = exported
    BY <1>3 DEF InLoad, EnterOnce, SetSchema, SetOverlay, LeaveOnce, PassOnce, CheckLoaded,
       GetOrBuildPipeline, EnsureObservableRegistration, NewEngine
  <2> QED
    BY <1>1, <1>3, <2>1, LoadTyped
<1>4. ASSUME NEW v \in VUs, NewModuleInstance(v) PROVE Typed' /\ DeltasAddUp'
  BY <1>1, <1>4 DEF NewModuleInstance, Typed, Stage, Building
<1>5. ASSUME NEW v \in VUs, StatsOrFlush(v) PROVE Typed' /\ DeltasAddUp'
  BY <1>1, <1>5, GetSharedTyped DEF StatsOrFlush, Typed
<1>6. ASSUME NEW v \in VUs, NEW live \in BOOLEAN, RunJourney(v, live) PROVE Typed' /\ DeltasAddUp'
  <2>1. /\ lastStats \in [VUs -> Nat] /\ reported \in [VUs -> Nat] /\ muted \in [VUs -> BOOLEAN]
        /\ exported \in Nat /\ exported' = exported
        /\ lastStats' = [lastStats EXCEPT ![v] = exported]
        /\ \A w \in VUs : reported[w] <= lastStats[w] /\ lastStats[w] <= exported
        /\ \A w \in VUs : ~muted[w] => reported[w] = lastStats[w]
    BY <1>6 DEF RunJourney, Typed
  <2>2. \/ reported' = [reported EXCEPT ![v] = @ + (exported - lastStats[v])] /\ muted' = muted
        \/ /\ reported' = reported
           /\ muted' = [muted EXCEPT ![v] = muted[v] \/ exported > lastStats[v]]
    BY <1>6 DEF RunJourney
  <2>3. /\ lastStats' \in [VUs -> Nat] /\ reported' \in [VUs -> Nat] /\ muted' \in [VUs -> BOOLEAN]
    <3>1. lastStats' \in [VUs -> Nat] /\ reported' \in [VUs -> Nat]
      BY <2>1, <2>2
    <3>2. (exported > lastStats[v]) \in BOOLEAN
      OBVIOUS
    <3>3. muted' \in [VUs -> BOOLEAN]
      BY <2>1, <2>2, <3>2
    <3> QED
      BY <3>1, <3>3
  <2>4. ASSUME NEW w \in VUs, w # v
        PROVE  UNCHANGED <<reported[w], lastStats[w], muted[w]>>
    BY <2>1, <2>2, <2>4
  <2>5. /\ reported[v]' <= lastStats[v]' /\ lastStats[v]' <= exported
        /\ ~muted[v]' => reported[v]' = lastStats[v]'
    <3>1. lastStats[v]' = exported
      BY <2>1
    <3>2. CASE reported' = [reported EXCEPT ![v] = @ + (exported - lastStats[v])] /\ muted' = muted
      BY <2>1, <3>1, <3>2
    <3>3. CASE /\ reported' = reported
               /\ muted' = [muted EXCEPT ![v] = muted[v] \/ exported > lastStats[v]]
      <4>1. muted[v]' <=> muted[v] \/ exported > lastStats[v]
        BY <2>1, <3>3, Zenon
      <4> QED
        BY <2>1, <3>1, <3>3, <4>1
    <3> QED
      BY <2>2, <3>2, <3>3
  <2> QED
    BY <1>6, <2>1, <2>3, <2>4, <2>5 DEF RunJourney, Typed
<1>7. ASSUME NEW v \in VUs, NEW p \in Paths, Load(v, p) PROVE Typed' /\ DeltasAddUp'
  BY <1>1, <1>7 DEF Load, Typed, Stage, MaybePath
<1>8. ASSUME NEW v \in VUs, NEW good \in BOOLEAN, Configure(v, good) PROVE Typed' /\ DeltasAddUp'
  BY <1>1, <1>8 DEF Configure, Typed
<1>9. CASE UNCHANGED vars
  BY <1>1, <1>9 DEF vars, Typed
<1> QED
  BY <1>2, <1>3, <1>4, <1>5, <1>6, <1>7, <1>8, <1>9 DEF Next

LEMMA TypedAlways == Spec => [](Typed /\ DeltasAddUp)
<1>1. Init => DeltasAddUp
  BY DEF Init, DeltasAddUp
<1> QED
  BY <1>1, InitTyped, TypedStep, PTL DEF Spec

\* What a VU pushes to the native k6 metrics adds up to the counters it saw last, but
\* for reports it could not push, however many VUs report the same pipeline and
\* however its exports interleave.
THEOREM DeltasCorrect == Spec => []DeltasAddUp
  BY TypedAlways, PTL

-----------------------------------------------------------------------------
(***************************************************************************)
(* The once and the answers.  One VU at most is inside the function of the *)
(* once, which publishes the schema, the overlay and the path in this      *)
(* order; who has passed it finds it done.                                 *)
(***************************************************************************)
OnceHolds ==
  /\ \A v \in VUs : pc[v] \in Publishing => once = "running"
  /\ \A v, w \in VUs : pc[v] \in Publishing /\ pc[w] \in Publishing => v = w
  /\ \A v \in VUs : pc[v] = "path" => overlay
  /\ \A v \in VUs : pc[v] = "check" => once = "done"
  /\ once = "new" => schema = NoPath
  /\ once # "done" => schemaErr = NoPath
  /\ once = "done" => (schema = NoPath \/ overlay) /\ (schemaErr # NoPath \/ overlay)

Loaded(p) == once = "done" /\ schemaErr = NoPath /\ loadedPath = p
Registered == registered \in {"complete", "blind"}

\* What a VU inside load() can rely on.
CallKnows(v) ==
  /\ pc[v] \in {"absent", "idle"} => want[v] = NoPath
  /\ pc[v] \in {"once", "check"} \union Publishing => want[v] \in Paths
  /\ pc[v] \in Building /\ want[v] # NoPath => Loaded(want[v])
  /\ pc[v] \in {"register", "engine"} \/ handle[v] # NoPath => shared = "built"
  /\ pc[v] = "engine" \/ handle[v] # NoPath => Registered

CallsKnow == \A v \in VUs : CallKnows(v)

\* Each answer is backed by what has been settled for good.
AnswersBacked ==
  \A a \in answers :
    /\ once = "done"
    /\ \/ a[2] = "invalid" /\ schemaErr # NoPath
       \/ a[2] = "mismatch" /\ schemaErr = NoPath /\ loadedPath # a[1]
       \/ a[2] = "loaded" /\ Loaded(a[1]) /\ shared = "built" /\ Registered
       \/ a[2] = "broken" /\ Loaded(a[1]) /\ (shared = "failed" \/ registered = "failed")

LEMMA OnceStep ==
  ASSUME Typed, OnceHolds, CallsKnow, [Next]_vars
  PROVE  OnceHolds'
<1> USE DEF test, root, setup, pipe, stats, OnceHolds, Typed, Publishing
<1>1. CASE UNCHANGED <<root, pc>>
  BY <1>1
<1>2. CASE InitDone \/ SetupDone \/ OutputStart \/ Export \/ UNCHANGED vars
  BY <1>1, <1>2 DEF InitDone, SetupDone, OutputStart, Export, vars
<1>3. ASSUME NEW v \in VUs, UNCHANGED root, pc' = [pc EXCEPT ![v] = pc'[v]],
             pc'[v] \in Publishing \union {"check"} => pc'[v] = "check" /\ once = "done"
      PROVE  OnceHolds'
  BY <1>3
<1>4. ASSUME NEW v \in VUs, InLoad(v) PROVE OnceHolds'
  <2>1. CASE EnterOnce(v)
    <3>1. CASE want[v] \in Valid
      BY <2>1, <3>1 DEF EnterOnce
    <3>2. CASE want[v] \notin Valid
      <4>1. /\ once = "new" /\ once' = "done" /\ pc' = [pc EXCEPT ![v] = "check"]
            /\ schemaErr' = want[v] /\ UNCHANGED <<schema, overlay, loadedPath>>
        BY <2>1, <3>2 DEF EnterOnce
      <4>2. want[v] # NoPath
        BY <2>1, PathAssumption DEF EnterOnce, CallsKnow, CallKnows
      <4> QED
        BY <4>1, <4>2
    <3> QED
      BY <3>1, <3>2
  <2>2. CASE SetSchema(v)
    BY <2>2 DEF SetSchema
  <2>3. CASE SetOverlay(v)
    BY <2>3 DEF SetOverlay
  <2>4. CASE LeaveOnce(v)
    BY <2>4 DEF LeaveOnce
  <2>5. CASE PassOnce(v)
    BY <1>3, <2>5 DEF PassOnce
  <2>6. CASE CheckLoaded(v) \/ GetOrBuildPipeline(v) \/ EnsureObservableRegistration(v) \/ NewEngine(v)
    BY <1>3, <2>6 DEF CheckLoaded, GetOrBuildPipeline, EnsureObservableRegistration, NewEngine, Return
  <2> QED
    BY <1>4, <2>1, <2>2, <2>3, <2>4, <2>5, <2>6 DEF InLoad
<1>5. ASSUME NEW v \in VUs, NewModuleInstance(v) \/ \E p \in Paths : Load(v, p) PROVE OnceHolds'
  BY <1>3, <1>5 DEF NewModuleInstance, Load
<1>6. ASSUME NEW v \in VUs, StatsOrFlush(v) \/ \E b \in BOOLEAN : RunJourney(v, b) \/ Configure(v, b)
      PROVE  OnceHolds'
  BY <1>1, <1>6 DEF StatsOrFlush, RunJourney, Configure
<1> QED
  BY <1>2, <1>4, <1>5, <1>6 DEF Next

\* What is settled stays settled.
SettledStays ==
  /\ once = "done" => UNCHANGED <<once, schemaErr, loadedPath>>
  /\ shared # "unset" => shared' = shared
  /\ registered # "no" => registered' = registered

LEMMA Settled ==
  ASSUME Typed, OnceHolds, [Next]_vars
  PROVE  SettledStays
<1> USE DEF test, root, setup, pipe, stats
<1>1. CASE UNCHANGED <<root, shared, registered>>
  BY <1>1 DEF SettledStays
<1>2. ASSUME NEW v \in VUs, InLoad(v) PROVE SettledStays
  <2>1. CASE EnterOnce(v) \/ SetSchema(v) \/ SetOverlay(v) \/ PassOnce(v) \/ CheckLoaded(v) \/ NewEngine(v)
    BY <2>1 DEF SettledStays, EnterOnce, SetSchema, SetOverlay, PassOnce, CheckLoaded, NewEngine
  <2>2. CASE LeaveOnce(v)
    BY <2>2 DEF SettledStays, LeaveOnce, OnceHolds, Publishing
  <2>3. CASE GetOrBuildPipeline(v)
    BY <2>3 DEF SettledStays, GetOrBuildPipeline, GetShared
  <2>4. CASE EnsureObservableRegistration(v)
    BY <2>4 DEF SettledStays, EnsureObservableRegistration
  <2> QED
    BY <1>2, <2>1, <2>2, <2>3, <2>4 DEF InLoad
<1>3. ASSUME NEW v \in VUs, NewModuleInstance(v) \/ StatsOrFlush(v) \/ (\E p \in Paths : Load(v, p))
               \/ \E b \in BOOLEAN : RunJourney(v, b) \/ Configure(v, b)
      PROVE  SettledStays
  BY <1>3 DEF SettledStays, NewModuleInstance, StatsOrFlush, RunJourney, Load, Configure, GetShared
<1>4. CASE InitDone \/ SetupDone \/ OutputStart \/ Export \/ UNCHANGED vars
  BY <1>4 DEF SettledStays, InitDone, SetupDone, OutputStart, Export, vars, GetShared
<1> QED
  BY <1>2, <1>3, <1>4 DEF Next

\* What has been answered, and what a VU knows that does not move, stays true.
LEMMA AnswersStay ==
  ASSUME AnswersBacked, SettledStays
  PROVE  \A a \in answers :
    /\ once' = "done"
    /\ \/ a[2] = "invalid" /\ schemaErr' # NoPath
       \/ a[2] = "mismatch" /\ schemaErr' = NoPath /\ loadedPath' # a[1]
       \/ a[2] = "loaded" /\ Loaded(a[1])' /\ shared' = "built" /\ Registered'
       \/ a[2] = "broken" /\ Loaded(a[1])' /\ (shared' = "failed" \/ registered' = "failed")
  BY DEF AnswersBacked, SettledStays, Loaded, Registered

LEMMA KnowledgeStays ==
  ASSUME SettledStays, NEW v \in VUs, CallKnows(v), UNCHANGED <<pc[v], want[v], handle[v]>>
  PROVE  CallKnows(v)'
<1>1. ASSUME NEW p, Loaded(p) PROVE Loaded(p)'
  BY <1>1 DEF SettledStays, Loaded
<1>2. Registered => Registered'
  BY DEF SettledStays, Registered
<1>3. shared = "built" => shared' = "built"
  BY DEF SettledStays
<1> QED
  BY <1>1, <1>2, <1>3 DEF CallKnows

\* A call of load() that returns: its answer is backed, and v holds nothing more.
LEMMA ReturnBacked ==
  ASSUME Typed, AnswersBacked, SettledStays, NEW v \in VUs, NEW result, Return(v, result),
         NEW p, want[v] = p,
         p # NoPath =>
           /\ once' = "done"
           /\ \/ result = "invalid" /\ schemaErr' # NoPath
              \/ result = "mismatch" /\ schemaErr' = NoPath /\ loadedPath' # p
              \/ result = "loaded" /\ Loaded(p)' /\ shared' = "built" /\ Registered'
              \/ result = "broken" /\ Loaded(p)' /\ (shared' = "failed" \/ registered' = "failed")
  PROVE  AnswersBacked'
<1>1. answers' = answers \union {<<q, result>> : q \in {p} \ {NoPath}}
  BY DEF Return
<1>2. ASSUME NEW a \in answers', a \notin answers PROVE p # NoPath /\ a = <<p, result>>
  <2>1. PICK q \in {p} \ {NoPath} : a = <<q, result>>
    BY <1>1, <1>2
  <2> QED
    BY <2>1
<1>3. ASSUME NEW a \in answers', p # NoPath, a = <<p, result>>
      PROVE  /\ once' = "done"
             /\ \/ a[2] = "invalid" /\ schemaErr' # NoPath
                \/ a[2] = "mismatch" /\ schemaErr' = NoPath /\ loadedPath' # a[1]
                \/ a[2] = "loaded" /\ Loaded(a[1])' /\ shared' = "built" /\ Registered'
                \/ a[2] = "broken" /\ Loaded(a[1])' /\ (shared' = "failed" \/ registered' = "failed")
  <2>1. a[1] = p /\ a[2] = result
    BY <1>3
  <2> QED
    BY <1>3, <2>1
<1> QED
  BY <1>2, <1>3, AnswersStay DEF AnswersBacked

LEMMA LoadBacked ==
  ASSUME Typed, OnceHolds, CallsKnow, AnswersBacked, SettledStays, NEW v \in VUs, InLoad(v)
  PROVE  CallKnows(v)' /\ AnswersBacked'
<1> USE DEF test, root, setup, pipe, stats, Typed, Publishing, Building
<1>0. CallKnows(v)
  BY DEF CallsKnow
<1> PICK p : want[v] = p
  OBVIOUS
<1>1. answers' = answers => AnswersBacked'
  BY AnswersStay DEF AnswersBacked
<1>2. CASE EnterOnce(v) \/ SetSchema(v) \/ SetOverlay(v) \/ LeaveOnce(v) \/ PassOnce(v)
  <2>1. /\ pc[v] \in {"once"} \union Publishing /\ pc'[v] \in {"check"} \union Publishing
        /\ UNCHANGED <<want, handle, shared, registered, answers>>
    BY <1>2 DEF EnterOnce, SetSchema, SetOverlay, LeaveOnce, PassOnce
  <2>2. CallKnows(v)'
    BY <1>0, <2>1 DEF CallKnows, Registered
  <2> QED
    BY <1>1, <2>1, <2>2
<1>3. ASSUME NEW result, Return(v, result), handle' = handle
      PROVE  CallKnows(v)'
  <2>1. pc'[v] = "idle" /\ want'[v] = NoPath
    BY <1>3 DEF Return
  <2>2. handle[v] # NoPath => shared' = "built" /\ Registered'
    BY <1>0 DEF CallKnows, SettledStays, Registered
  <2> QED
    BY <1>3, <2>1, <2>2 DEF CallKnows
<1>4. CASE CheckLoaded(v)
  <2>1. /\ once = "done" /\ UNCHANGED <<once, schemaErr, loadedPath, handle, shared, registered>>
        /\ pc[v] = "check" /\ want[v] \in Paths
    BY <1>0, <1>4 DEF CheckLoaded, OnceHolds, CallKnows
  <2>2. CASE schemaErr # NoPath /\ Return(v, "invalid")
    BY <1>3, <2>1, <2>2, ReturnBacked
  <2>3. CASE schemaErr = NoPath /\ loadedPath # want[v] /\ Return(v, "mismatch")
    BY <1>3, <2>1, <2>3, ReturnBacked
  <2>4. CASE schemaErr = NoPath /\ loadedPath = want[v] /\ handle[v] # NoPath /\ Return(v, "loaded")
    BY <1>0, <1>3, <2>1, <2>4, ReturnBacked DEF Loaded, CallKnows, Registered
  <2>5. CASE schemaErr = NoPath /\ loadedPath = want[v] /\ pc' = [pc EXCEPT ![v] = "pipeline"]
               /\ UNCHANGED <<want, answers>>
    BY <1>0, <1>1, <2>1, <2>5 DEF CallKnows, Loaded, Registered
  <2> QED
    BY <1>4, <2>2, <2>3, <2>4, <2>5 DEF CheckLoaded
<1>5. CASE GetOrBuildPipeline(v)
  <2>1. /\ pc[v] = "pipeline" /\ UNCHANGED <<once, schemaErr, loadedPath, handle, registered>>
        /\ p # NoPath => Loaded(p)
    BY <1>0, <1>5 DEF GetOrBuildPipeline, CallKnows
  <2>2. CASE shared' = "failed" /\ Return(v, "broken")
    BY <1>3, <2>1, <2>2, ReturnBacked DEF Loaded
  <2>3. CASE shared' = "built" /\ pc' = [pc EXCEPT ![v] = "register"] /\ UNCHANGED <<want, answers>>
    BY <1>0, <1>1, <2>1, <2>3 DEF CallKnows, Loaded, Registered
  <2> QED
    BY <1>5, <2>2, <2>3 DEF GetOrBuildPipeline
<1>6. CASE EnsureObservableRegistration(v)
  <2>1. /\ pc[v] = "register" /\ UNCHANGED <<once, schemaErr, loadedPath, handle, shared>>
        /\ p # NoPath => Loaded(p)
        /\ shared = "built"
    BY <1>0, <1>6 DEF EnsureObservableRegistration, CallKnows
  <2>2. CASE registered' = "failed" /\ Return(v, "broken")
    BY <1>3, <2>1, <2>2, ReturnBacked DEF Loaded
  <2>3. CASE registered' # "failed" /\ pc' = [pc EXCEPT ![v] = "engine"] /\ UNCHANGED <<want, answers>>
    <3>1. registered' \in {"complete", "blind"}
      BY <1>6, <2>3 DEF EnsureObservableRegistration
    <3> QED
      BY <1>0, <1>1, <2>1, <2>3, <3>1 DEF CallKnows, Loaded, Registered
  <2> QED
    BY <1>6, <2>2, <2>3 DEF EnsureObservableRegistration
<1>7. CASE NewEngine(v)
  <2>1. /\ pc[v] = "engine" /\ UNCHANGED <<once, schemaErr, loadedPath, registered, shared>>
        /\ p # NoPath => Loaded(p)
        /\ shared = "built" /\ Registered
    BY <1>0, <1>7 DEF NewEngine, CallKnows
  <2>2. CASE Return(v, "loaded")
    <3>1. AnswersBacked'
      BY <2>1, <2>2, ReturnBacked DEF Loaded, Registered
    <3>2. pc'[v] = "idle" /\ want'[v] = NoPath
      BY <2>2 DEF Return
    <3> QED
      BY <2>1, <3>1, <3>2 DEF CallKnows, Registered
  <2>3. CASE pc' = [pc EXCEPT ![v] = "panicked"] /\ UNCHANGED <<want, handle, answers>>
    BY <1>0, <1>1, <2>1, <2>3 DEF CallKnows, Registered
  <2> QED
    BY <1>7, <2>2, <2>3 DEF NewEngine
<1> QED
  BY <1>2, <1>4, <1>5, <1>6, <1>7 DEF InLoad

\* A step of one VU leaves the others where they are.
LEMMA OthersStay ==
  ASSUME Typed, NEW v \in VUs, InLoad(v), NEW w \in VUs, w # v
  PROVE  UNCHANGED <<pc[w], want[w], handle[w]>>
  BY DEF Typed, InLoad, EnterOnce, SetSchema, SetOverlay, LeaveOnce, PassOnce, CheckLoaded,
     GetOrBuildPipeline, EnsureObservableRegistration, NewEngine, Return

LEMMA BackedStep ==
  ASSUME Typed, OnceHolds, CallsKnow, AnswersBacked, [Next]_vars
  PROVE  CallsKnow' /\ AnswersBacked'
<1> USE DEF test, root, setup, pipe, stats
<1>0. SettledStays
  BY Settled
<1>1. answers' = answers => AnswersBacked'
  BY <1>0, AnswersStay DEF AnswersBacked
<1>2. ASSUME NEW v \in VUs, InLoad(v) PROVE CallsKnow' /\ AnswersBacked'
  BY <1>0, <1>2, LoadBacked, OthersStay, KnowledgeStays DEF CallsKnow
<1>3. CASE UNCHANGED <<pc, want, handle, answers>>
  BY <1>0, <1>1, <1>3, KnowledgeStays DEF CallsKnow
<1>4. ASSUME NEW v \in VUs, NEW p \in Paths, NewModuleInstance(v) \/ Load(v, p)
      PROVE  CallsKnow' /\ AnswersBacked'
  <2>1. /\ \A w \in VUs : w # v => UNCHANGED <<pc[w], want[w], handle[w]>>
        /\ answers' = answers
    BY <1>4 DEF NewModuleInstance, Load, Typed
  <2>2. CallKnows(v)'
    <3>1. CASE NewModuleInstance(v)
      BY <3>1 DEF NewModuleInstance, CallsKnow, CallKnows, Typed, Publishing, Building, Registered
    <3>2. CASE Load(v, p)
      BY <3>2 DEF Load, CallsKnow, CallKnows, Typed, Publishing, Building, Registered
    <3> QED
      BY <1>4, <3>1, <3>2
  <2> QED
    BY <1>0, <1>1, <2>1, <2>2, KnowledgeStays DEF CallsKnow
<1>5. ASSUME NEW v \in VUs, StatsOrFlush(v) \/ \E b \in BOOLEAN : RunJourney(v, b) \/ Configure(v, b)
      PROVE  UNCHANGED <<pc, want, handle, answers>>
  BY <1>5 DEF StatsOrFlush, RunJourney, Configure
<1>6. CASE InitDone \/ SetupDone \/ OutputStart \/ Export \/ UNCHANGED vars
  BY <1>3, <1>6 DEF InitDone, SetupDone, OutputStart, Export, vars
<1>7. ASSUME NEW v \in VUs, NewModuleInstance(v) PROVE CallsKnow' /\ AnswersBacked'
  <2>1. /\ \A w \in VUs : w # v => UNCHANGED <<pc[w], want[w], handle[w]>>
        /\ answers' = answers
    BY <1>7 DEF NewModuleInstance, Typed
  <2>2. CallKnows(v)'
    BY <1>7 DEF NewModuleInstance, CallsKnow, CallKnows, Typed, Publishing, Building, Registered
  <2> QED
    BY <1>0, <1>1, <2>1, <2>2, KnowledgeStays DEF CallsKnow
<1> QED
  BY <1>2, <1>3, <1>4, <1>5, <1>6, <1>7 DEF Next

LEMMA BackedAlways == Spec => [](OnceHolds /\ CallsKnow /\ AnswersBacked)
<1>1. Init => OnceHolds
  BY DEF Init, OnceHolds, Publishing
<1>2. Init => CallsKnow
  BY DEF Init, CallsKnow, CallKnows, Publishing, Building
<1>3. Init => AnswersBacked
  BY DEF Init, AnswersBacked
<1> QED
  BY <1>1, <1>2, <1>3, OnceStep, BackedStep, TypedAlways, PTL DEF Spec

\* Whoever calls load() with a path, and whenever: the answer is always the same.
THEOREM SameAnswerCorrect == Spec => []SameAnswer
<1>1. Typed /\ AnswersBacked => SameAnswer
  BY DEF AnswersBacked, SameAnswer, Typed, Loaded, Registered
<1> QED
  BY <1>1, BackedAlways, TypedAlways, PTL

-----------------------------------------------------------------------------
(***************************************************************************)
(* The configuration.  Where the script configures in setup() and loads in *)
(* the iterations, nothing touches the once or the pipeline before they    *)
(* start, and then the configuration changes no more.                      *)
(***************************************************************************)
Untouched == once = "new" /\ \A v \in VUs : pc[v] \in {"absent", "idle"}
BeforeLoad == phase # "run" /\ "init" \notin script.load => Untouched

Configuration ==
  /\ configured \in {"open", "failed"} => config = {} /\ acks = 0
  /\ configured = "done" => config = {"env", "js"} /\ acks = 1

Documented == script.load = {"run"} /\ script.configure = {"setup"} /\ ~script.output
PipelineFollows ==
  Documented => /\ phase # "run" => shared = "unset"
                /\ shared = "built" => builtFrom = config

LEMMA BeforeLoadStep ==
  ASSUME Typed, OnceHolds, BeforeLoad, [Next]_vars
  PROVE  BeforeLoad'
<1> USE DEF test, root, setup, pipe, stats
<1>1. ASSUME UNCHANGED <<script, once, pc>>, phase' = phase \/ phase' = "run" \/ phase = "init"
      PROVE  BeforeLoad'
  BY <1>1 DEF BeforeLoad, Untouched
<1>2. CASE InitDone \/ SetupDone \/ OutputStart \/ Export \/ UNCHANGED vars
  BY <1>1, <1>2 DEF InitDone, SetupDone, OutputStart, Export, vars
<1>3. ASSUME NEW v \in VUs, InLoad(v) PROVE BeforeLoad'
  <2>1. pc[v] \notin {"absent", "idle"} /\ UNCHANGED <<script, phase>>
    BY <1>3 DEF InLoad, EnterOnce, SetSchema, SetOverlay, LeaveOnce, PassOnce, CheckLoaded,
       GetOrBuildPipeline, EnsureObservableRegistration, NewEngine
  <2> QED
    BY <2>1 DEF BeforeLoad, Untouched
<1>4. ASSUME NEW v \in VUs, NewModuleInstance(v) PROVE BeforeLoad'
  BY <1>4 DEF NewModuleInstance, BeforeLoad, Untouched, Typed, OnceHolds
<1>5. ASSUME NEW v \in VUs, StatsOrFlush(v) \/ \E b \in BOOLEAN : RunJourney(v, b) \/ Configure(v, b)
      PROVE  BeforeLoad'
  BY <1>1, <1>5 DEF StatsOrFlush, RunJourney, Configure
<1>6. ASSUME NEW v \in VUs, NEW p \in Paths, Load(v, p) PROVE BeforeLoad'
  <2>1. phase \in script.load /\ script.load \subseteq {"init", "run"} /\ UNCHANGED <<script, phase>>
    BY <1>6 DEF Load, Typed, Script
  <2> QED
    BY <2>1 DEF BeforeLoad
<1> QED
  BY <1>2, <1>3, <1>4, <1>5, <1>6 DEF Next

LEMMA ConfigurationStep ==
  ASSUME Typed, Configuration, [Next]_vars
  PROVE  Configuration'
<1> USE DEF test, root, setup, pipe, stats
<1>1. UNCHANGED setup \/ \E v \in VUs, good \in BOOLEAN : Configure(v, good)
  BY DEF Next, InitDone, SetupDone, OutputStart, Export, NewModuleInstance, InLoad, EnterOnce,
     SetSchema, SetOverlay, LeaveOnce, PassOnce, CheckLoaded, GetOrBuildPipeline,
     EnsureObservableRegistration, NewEngine, StatsOrFlush, RunJourney, Load, vars
<1>2. CASE UNCHANGED setup
  BY <1>2 DEF Configuration
<1>3. ASSUME NEW v \in VUs, NEW good \in BOOLEAN, Configure(v, good) PROVE Configuration'
  BY <1>3 DEF Configure, Configuration, Typed
<1> QED
  BY <1>1, <1>2, <1>3

LEMMA PipelineFollowsStep ==
  ASSUME Typed, BeforeLoad, PipelineFollows, [Next]_vars
  PROVE  PipelineFollows'
<1> USE DEF test, root, setup, pipe, stats, Typed
<1>1. ASSUME UNCHANGED <<script, pipe, config>>, phase' = phase \/ phase' = "run" \/ phase = "init"
      PROVE  PipelineFollows'
  BY <1>1 DEF PipelineFollows, Documented
<1>2. CASE InitDone \/ SetupDone \/ Export \/ UNCHANGED vars
  BY <1>1, <1>2 DEF InitDone, SetupDone, Export, vars
<1>3. CASE OutputStart
  BY <1>3 DEF OutputStart, PipelineFollows, Documented
<1>4. ASSUME NEW v \in VUs, GetOrBuildPipeline(v) \/ StatsOrFlush(v) PROVE PipelineFollows'
  <2>1. GetShared(config) /\ UNCHANGED <<script, phase, config>>
    BY <1>4 DEF GetOrBuildPipeline, StatsOrFlush
  <2>2. "init" \notin script.load => phase = "run"
    BY <1>4 DEF GetOrBuildPipeline, StatsOrFlush, BeforeLoad, Untouched
  <2> QED
    BY <2>1, <2>2 DEF PipelineFollows, Documented, GetShared
<1>5. ASSUME NEW v \in VUs, NEW good \in BOOLEAN, Configure(v, good) PROVE PipelineFollows'
  <2>1. phase \in script.configure /\ UNCHANGED <<script, phase, pipe>>
    BY <1>5 DEF Configure
  <2> QED
    BY <2>1 DEF PipelineFollows, Documented
<1>6. ASSUME NEW v \in VUs,
             NewModuleInstance(v) \/ (\E b \in BOOLEAN : RunJourney(v, b)) \/ EnterOnce(v) \/ SetSchema(v) \/ SetOverlay(v)
               \/ LeaveOnce(v) \/ PassOnce(v) \/ CheckLoaded(v) \/ EnsureObservableRegistration(v)
               \/ NewEngine(v) \/ \E p \in Paths : Load(v, p)
      PROVE  PipelineFollows'
  BY <1>1, <1>6 DEF NewModuleInstance, RunJourney, EnterOnce, SetSchema, SetOverlay, LeaveOnce,
     PassOnce, CheckLoaded, EnsureObservableRegistration, NewEngine, Load
<1> QED
  BY <1>2, <1>3, <1>4, <1>5, <1>6 DEF Next, InLoad

LEMMA BeforeLoadAlways == Spec => []BeforeLoad
<1>1. Init => BeforeLoad
  BY DEF Init, BeforeLoad, Untouched
<1> QED
  BY <1>1, BeforeLoadStep, BackedAlways, TypedAlways, PTL DEF Spec

\* configure() tells the truth for every script, and in the documented one the
\* options it accepted are those the pipeline is made from.
THEOREM ConfigureCorrect == Spec => []ConfigureTrue
<1>1. Init => Configuration /\ PipelineFollows
  BY DEF Init, Configuration, PipelineFollows
<1>2. Typed /\ Configuration /\ PipelineFollows => ConfigureTrue
  BY DEF Typed, Configuration, PipelineFollows, Documented, ConfigureTrue, ConfigureWins, AcksTrue
<1> QED
  BY <1>1, <1>2, ConfigurationStep, PipelineFollowsStep, BeforeLoadAlways, TypedAlways, PTL DEF Spec


-----------------------------------------------------------------------------
(***************************************************************************)
(* Publication.  A VU inside lateInit finds the overlay set: it comes from *)
(* load(), past the once, or is initialised while nobody is inside the     *)
(* once - unless k6 initialises VUs during the test.                       *)
(***************************************************************************)
NoLateVUs ==
  /\ pc[Boot] = "absent" => once = "new" /\ \A v \in VUs : pc[v] = "absent"
  /\ phase # "init" => \A v \in VUs : pc[v] # "absent"
  /\ \A v \in VUs : pc[v] \in Building => overlay
  /\ PublishedWhole

SafeInside == script.late = {} => NoLateVUs

LEMMA SafeInsideStep ==
  ASSUME Typed, OnceHolds, BeforeLoad, SafeInside, [Next]_vars
  PROVE  SafeInside'
<1> USE VUsAssumption DEF test, root, setup, pipe, stats, Typed, PublishedWhole,
       EnginesHaveOverlay
<1>0. script' = script
  BY DEF Next, InitDone, SetupDone, OutputStart, Export, NewModuleInstance, InLoad, EnterOnce,
     SetSchema, SetOverlay, LeaveOnce, PassOnce, CheckLoaded, GetOrBuildPipeline,
     EnsureObservableRegistration, NewEngine, StatsOrFlush, RunJourney, Load, Configure, vars
<1> SUFFICES ASSUME script.late = {}, NoLateVUs PROVE NoLateVUs'
  BY <1>0 DEF SafeInside
<1> USE DEF NoLateVUs
<1>1. CASE UNCHANGED <<phase, once, overlay, pc, registered>>
  BY <1>1
<1>2. CASE InitDone
  <2>1. (\A v \in VUs : pc[v] = "idle") /\ UNCHANGED <<once, overlay, pc, registered>>
    BY <1>2 DEF InitDone
  <2> QED
    BY <2>1
<1>3. CASE SetupDone
  <2>1. phase # "init" /\ UNCHANGED <<once, overlay, pc, registered>>
    BY <1>3 DEF SetupDone
  <2> QED
    BY <2>1
<1>4. CASE OutputStart \/ Export \/ UNCHANGED vars
  BY <1>1, <1>4 DEF OutputStart, Export, vars
<1>5. ASSUME NEW v \in VUs, InLoad(v) PROVE NoLateVUs'
  <2>1. /\ pc[v] # "absent" /\ phase' = phase
        /\ \A w \in VUs : w # v => pc'[w] = pc[w]
    BY <1>5 DEF InLoad, EnterOnce, SetSchema, SetOverlay, LeaveOnce, PassOnce, CheckLoaded,
       GetOrBuildPipeline, EnsureObservableRegistration, NewEngine, Return
  <2>2. pc[Boot] # "absent"
    BY <2>1
  <2>3. /\ overlay => overlay'
        /\ pc'[v] \notin {"absent", "panicked"}
        /\ pc'[v] \in Building => overlay
        /\ registered' # "blind"
    <3>1. CASE EnterOnce(v) \/ SetSchema(v) \/ SetOverlay(v) \/ LeaveOnce(v) \/ PassOnce(v)
      BY <3>1 DEF EnterOnce, SetSchema, SetOverlay, LeaveOnce, PassOnce, Building
    <3>2. CASE CheckLoaded(v)
      BY <3>2 DEF CheckLoaded, Return, OnceHolds, Building
    <3>3. CASE GetOrBuildPipeline(v) \/ EnsureObservableRegistration(v) \/ NewEngine(v)
      BY <3>3 DEF GetOrBuildPipeline, EnsureObservableRegistration, NewEngine, Return, Building
    <3> QED
      BY <1>5, <3>1, <3>2, <3>3 DEF InLoad
  <2> QED
    BY <2>1, <2>2, <2>3
<1>6. ASSUME NEW v \in VUs, NewModuleInstance(v) PROVE NoLateVUs'
  <2>1. /\ phase = "init" /\ pc[v] = "absent" /\ (v # Boot => BootLoaded)
        /\ UNCHANGED <<phase, once, overlay, registered>>
        /\ pc' = [pc EXCEPT ![v] = IF schema = NoPath THEN "idle" ELSE "pipeline"]
    BY <1>6 DEF NewModuleInstance
  <2>2. schema = NoPath \/ overlay
    BY <2>1 DEF BootLoaded, BeforeLoad, Untouched, OnceHolds
  <2>3. pc'[Boot] # "absent"
    BY <2>1 DEF BootLoaded
  <2> QED
    BY <2>1, <2>2, <2>3 DEF Building
<1>7. ASSUME NEW v \in VUs, NEW p \in Paths, Load(v, p) PROVE NoLateVUs'
  <2>1. pc[v] = "idle" /\ pc' = [pc EXCEPT ![v] = "once"] /\ UNCHANGED <<phase, once, overlay, registered>>
    BY <1>7 DEF Load
  <2> QED
    BY <2>1 DEF Building
<1>8. ASSUME NEW v \in VUs, StatsOrFlush(v) \/ \E b \in BOOLEAN : RunJourney(v, b) \/ Configure(v, b)
      PROVE  NoLateVUs'
  BY <1>1, <1>8 DEF StatsOrFlush, RunJourney, Configure
<1> QED
  BY <1>2, <1>3, <1>4, <1>5, <1>6, <1>7, <1>8 DEF Next

\* In a test whose VUs are all initialised before it starts, no engine is built and no
\* metric registered on a topology that is only half published.
THEOREM LoadSafeCorrect == Spec => []LoadSafe
<1>1. Init => SafeInside
  BY VUsAssumption DEF Init, SafeInside, NoLateVUs, PublishedWhole, EnginesHaveOverlay, Building
<1>2. SafeInside => LoadSafe
  BY DEF SafeInside, NoLateVUs, LoadSafe
<1> QED
  BY <1>1, <1>2, SafeInsideStep, BeforeLoadAlways, BackedAlways, TypedAlways, PTL DEF Spec

=============================================================================
