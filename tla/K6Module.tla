------------------------------ MODULE K6Module ------------------------------
(***************************************************************************)
(* The process-wide state of the JS module k6/x/otel-gen (RootModule) and  *)
(* its per-VU instances: load, configure, stats, flush and runJourney      *)
(* called by the VUs of a test, and the k6 output that shares the          *)
(* pipeline with them (exporter.GetShared).                                *)
(*                                                                         *)
(* A topology is named by the path it is read from.  A configuration is    *)
(* the set of sources it was merged from: {} is the zero Config, for       *)
(* which exporter.New supplies the defaults.                               *)
(***************************************************************************)
EXTENDS Naturals, FiniteSets

CONSTANTS
  VUs,         \* the VUs of the test, each a goroutine of its own
  Boot,        \* the one k6 initialises first, alone, to read the script
  Paths,       \* the paths scripts pass to load()
  Valid,       \* those that hold a topology
  Scripts,     \* the tests considered, see Script
  NoPath       \* nil

Phases  == {"init", "setup", "run"}

(* A test: the VUs k6 initialises while others iterate (maxVUs), where the *)
(* script calls load() and configure(), whether it runs with               *)
(* --out otel-gen, and, as a bound of the model, how many exports the      *)
(* pipeline makes.                                                         *)
Script == [late : SUBSET (VUs \ {Boot}), load : SUBSET {"init", "run"},
           configure : SUBSET {"setup", "run"}, output : BOOLEAN, exports : Nat]

ASSUME VUsAssumption    == Boot \in VUs
ASSUME PathAssumption   == Valid \subseteq Paths /\ NoPath \notin Paths
ASSUME ScriptAssumption == Scripts \subseteq Script

VARIABLES
  script,      \* the test that runs
  phase,       \* how far k6 is: VUs initialised, setup() run, iterations running
  once,        \* RootModule.schemaOnce
  schema,      \* RootModule.schema, NoPath for nil
  overlay,     \* RootModule.overlay # nil
  loadedPath,  \* RootModule.loadedPath
  schemaErr,   \* the path whose reading failed, NoPath for nil
  configured,  \* configureOnce with configured and configureErr: "open", "done", "failed"
  config,      \* RootModule.config
  shared,      \* exporter's sharedOnce with its result: "unset", "built", "failed"
  builtFrom,   \* the configuration the shared pipeline was made from
  exported,    \* the pipeline's counters (Stats), one for all
  registered,  \* observableOnce with its result; "blind": without the fault overlay
  pc,          \* pc[v]: where VU v stands in a call of the module
  want,        \* want[v]: the path v passed to load()
  handle,      \* handle[v]: the topology of v's engine, NoPath for none
  lastStats,   \* lastStats[v]: ModuleInstance.lastStats
  reported,    \* reported[v]: what v pushed to the native k6 metrics (history)
  muted,       \* muted[v]: some of v's deltas were not pushed, see RunJourney (history)
  answers,     \* what calls of load() returned (history)
  acks         \* calls of configure() that returned without error (history)

root  == <<once, schema, overlay, loadedPath, schemaErr>>
pipe  == <<shared, builtFrom>>
setup == <<configured, config, acks>>
stats == <<lastStats, reported, muted>>
test  == <<script, phase>>
vars  == <<script, phase, root, setup, pipe, exported, registered, pc, want, handle, stats, answers>>

Init ==
  /\ script \in Scripts
  /\ phase = "init"
  /\ once = "new" /\ schema = NoPath /\ overlay = FALSE
  /\ loadedPath = NoPath /\ schemaErr = NoPath
  /\ configured = "open" /\ config = {} /\ acks = 0
  /\ shared = "unset" /\ builtFrom = {}
  /\ exported = 0
  /\ registered = "no"
  /\ pc = [v \in VUs |-> "absent"]
  /\ want = [v \in VUs |-> NoPath]
  /\ handle = [v \in VUs |-> NoPath]
  /\ lastStats = [v \in VUs |-> 0]
  /\ reported = [v \in VUs |-> 0]
  /\ muted = [v \in VUs |-> FALSE]
  /\ answers = {}

-----------------------------------------------------------------------------
(* Mutant: a failed construction is tried again by the next caller.        *)
GetShared_retried(cfg) ==
  \/ shared = "built" /\ UNCHANGED pipe
  \/ shared # "built" /\ shared' = "built"  /\ builtFrom' = cfg
  \/ shared # "built" /\ shared' = "failed" /\ UNCHANGED builtFrom

(* exporter.GetShared under sharedMu: the first caller's factory decides   *)
(* for the process, by success or by failure.                              *)
GetShared(cfg) ==
  \/ shared # "unset" /\ UNCHANGED pipe
  \/ shared = "unset" /\ shared' = "built"  /\ builtFrom' = cfg
  \/ shared = "unset" /\ shared' = "failed" /\ UNCHANGED builtFrom

-----------------------------------------------------------------------------
(* The phases of a k6 test.                                                *)

BootLoaded == pc[Boot] = "idle" /\ ("init" \in script.load => once = "done")

InitDone ==
  /\ phase = "init"
  /\ \A v \in VUs \ script.late : pc[v] = "idle"
  /\ phase' = "setup"
  /\ UNCHANGED <<script, root, setup, pipe, exported, registered, pc, want, handle, stats, answers>>

SetupDone ==
  /\ phase = "setup"
  /\ \A v \in VUs : pc[v] \in {"idle", "absent"}
  /\ phase' = "run"
  /\ UNCHANGED <<script, root, setup, pipe, exported, registered, pc, want, handle, stats, answers>>

(* k6 makes the instance of a VU; one that sees a schema already prepares  *)
(* its engine here.  The fields of RootModule are read without a lock.     *)
NewModuleInstance(v) ==
  /\ pc[v] = "absent"
  /\ \/ v = Boot /\ phase = "init"
     \/ v \in VUs \ (script.late \union {Boot}) /\ phase = "init" /\ BootLoaded
     \/ v \in script.late /\ phase = "run"
  /\ pc' = [pc EXCEPT ![v] = IF schema = NoPath THEN "idle" ELSE "pipeline"]
  /\ UNCHANGED <<test, root, setup, pipe, exported, registered, want, handle, stats, answers>>

-----------------------------------------------------------------------------
(* load()                                                                  *)

(* v's call returns; when lateInit was entered from NewModuleInstance the  *)
(* error goes to initErr, which nothing reads.                             *)
Return(v, result) ==
  /\ pc' = [pc EXCEPT ![v] = "idle"]
  /\ want' = [want EXCEPT ![v] = NoPath]
  /\ answers' = answers \union {<<p, result>> : p \in {want[v]} \ {NoPath}}

Load(v, p) ==
  /\ pc[v] = "idle"
  /\ phase \in script.load
  /\ pc' = [pc EXCEPT ![v] = "once"]
  /\ want' = [want EXCEPT ![v] = p]
  /\ UNCHANGED <<test, root, setup, pipe, exported, registered, handle, stats, answers>>

(* Mutant: after an unreadable file the once is never released.            *)
EnterOnce_held(v) ==
  /\ pc[v] = "once" /\ once = "new"
  /\ once' = "running"
  /\ IF want[v] \in Valid
       THEN pc' = [pc EXCEPT ![v] = "schema"] /\ UNCHANGED schemaErr
       ELSE pc' = [pc EXCEPT ![v] = "check"] /\ schemaErr' = want[v]
  /\ UNCHANGED <<test, schema, overlay, loadedPath, setup, pipe, exported, registered,
                 want, handle, stats, answers>>

(* v runs the function of schemaOnce.Do: reads and parses the file, then   *)
(* assigns the three fields, one after the other.                          *)
EnterOnce(v) ==
  /\ pc[v] = "once" /\ once = "new"
  /\ \/ /\ want[v] \in Valid
        /\ once' = "running"
        /\ pc' = [pc EXCEPT ![v] = "schema"]
        /\ UNCHANGED schemaErr
     \/ /\ want[v] \notin Valid
        /\ once' = "done"
        /\ schemaErr' = want[v]
        /\ pc' = [pc EXCEPT ![v] = "check"]
  /\ UNCHANGED <<test, schema, overlay, loadedPath, setup, pipe, exported, registered,
                 want, handle, stats, answers>>

SetSchema(v) ==
  /\ pc[v] = "schema"
  /\ schema' = want[v]
  /\ pc' = [pc EXCEPT ![v] = "overlay"]
  /\ UNCHANGED <<test, once, overlay, loadedPath, schemaErr, setup, pipe, exported, registered,
                 want, handle, stats, answers>>

SetOverlay(v) ==
  /\ pc[v] = "overlay"
  /\ overlay' = TRUE
  /\ pc' = [pc EXCEPT ![v] = "path"]
  /\ UNCHANGED <<test, once, schema, loadedPath, schemaErr, setup, pipe, exported, registered,
                 want, handle, stats, answers>>

LeaveOnce(v) ==
  /\ pc[v] = "path"
  /\ loadedPath' = want[v]
  /\ once' = "done"
  /\ pc' = [pc EXCEPT ![v] = "check"]
  /\ UNCHANGED <<test, schema, overlay, schemaErr, setup, pipe, exported, registered,
                 want, handle, stats, answers>>

(* Mutant: a schema that is there already is used without waiting.         *)
PassOnce_fast_path(v) ==
  /\ pc[v] = "once"
  /\ \/ once = "done" /\ pc' = [pc EXCEPT ![v] = "check"]
     \/ schema = want[v] /\ pc' = [pc EXCEPT ![v] = "pipeline"]
  /\ UNCHANGED <<test, root, setup, pipe, exported, registered, want, handle, stats, answers>>

(* Everyone else waits in Do until the function has returned.              *)
PassOnce(v) ==
  /\ pc[v] = "once" /\ once = "done"
  /\ pc' = [pc EXCEPT ![v] = "check"]
  /\ UNCHANGED <<test, root, setup, pipe, exported, registered, want, handle, stats, answers>>

CheckLoaded(v) ==
  /\ pc[v] = "check"
  /\ \/ schemaErr # NoPath /\ Return(v, "invalid")
     \/ schemaErr = NoPath /\ loadedPath # want[v] /\ Return(v, "mismatch")
     \/ /\ schemaErr = NoPath /\ loadedPath = want[v]
        /\ \/ handle[v] # NoPath /\ Return(v, "loaded")
           \/ /\ handle[v] = NoPath
              /\ pc' = [pc EXCEPT ![v] = "pipeline"]
              /\ UNCHANGED <<want, answers>>
  /\ UNCHANGED <<test, root, setup, pipe, exported, registered, handle, stats>>

(* lateInit: the shared pipeline, ...                                      *)
GetOrBuildPipeline(v) ==
  /\ pc[v] = "pipeline"
  /\ GetShared(config)
  /\ \/ /\ shared' = "built"
        /\ pc' = [pc EXCEPT ![v] = "register"]
        /\ UNCHANGED <<want, answers>>
     \/ shared' = "failed" /\ Return(v, "broken")
  /\ UNCHANGED <<test, root, setup, exported, registered, handle, stats>>

(* ... the observable metrics, registered once with the schema and the     *)
(* overlay as they are now, ...                                            *)
EnsureObservableRegistration(v) ==
  /\ pc[v] = "register"
  /\ \/ registered # "no" /\ UNCHANGED registered
     \/ registered = "no" /\ registered' \in {IF overlay THEN "complete" ELSE "blind", "failed"}
  /\ \/ /\ registered' # "failed"
        /\ pc' = [pc EXCEPT ![v] = "engine"]
        /\ UNCHANGED <<want, answers>>
     \/ registered' = "failed" /\ Return(v, "broken")
  /\ UNCHANGED <<test, root, setup, pipe, exported, handle, stats>>

(* ... and the engine, whose constructor panics on a nil overlay.          *)
NewEngine(v) ==
  /\ pc[v] = "engine"
  /\ \/ /\ overlay
        /\ handle' = [handle EXCEPT ![v] = schema]
        /\ Return(v, "loaded")
     \/ /\ ~overlay
        /\ pc' = [pc EXCEPT ![v] = "panicked"]
        /\ UNCHANGED <<want, handle, answers>>
  /\ UNCHANGED <<test, root, setup, pipe, exported, registered, stats>>

-----------------------------------------------------------------------------
(* The other operations.                                                   *)

(* Mutant: the kept error is not returned.                                 *)
Configure_error_dropped(v, good) ==
  /\ pc[v] = "idle"
  /\ phase \in script.configure
  /\ \/ configured = "open" /\ good /\ configured' = "done" /\ config' = {"env", "js"} /\ acks' = acks + 1
     \/ configured = "open" /\ ~good /\ configured' = "failed" /\ UNCHANGED <<config, acks>>
     \/ configured = "failed" /\ good /\ acks = 0 /\ acks' = 1 /\ UNCHANGED <<configured, config>>
  /\ UNCHANGED <<test, root, pipe, exported, registered, pc, want, handle, stats, answers>>

(* configure() with options that optsToConfig accepts or not, under        *)
(* configureMu.  A rejected call uses up configureOnce.                    *)
Configure(v, good) ==
  /\ pc[v] = "idle"
  /\ phase \in script.configure
  /\ \/ /\ configured = "open" /\ good
        /\ configured' = "done"
        /\ config' = {"env", "js"}
        /\ acks' = acks + 1
     \/ /\ configured = "open" /\ ~good
        /\ configured' = "failed"
        /\ UNCHANGED <<config, acks>>
     \/ /\ configured # "open"
        /\ UNCHANGED setup
  /\ UNCHANGED <<test, root, pipe, exported, registered, pc, want, handle, stats, answers>>

(* stats() and flush() build the pipeline when nobody has yet.             *)
StatsOrFlush(v) ==
  /\ pc[v] = "idle"
  /\ phase = "run"
  /\ GetShared(config)
  /\ UNCHANGED <<test, root, setup, exported, registered, pc, want, handle, stats, answers>>

(* Output.Start of --out otel-gen, before k6 makes any VU but the first.   *)
OutputStart ==
  /\ script.output
  /\ phase = "init"
  /\ GetShared({"env", "out"})
  /\ UNCHANGED <<test, root, setup, exported, registered, pc, want, handle, stats, answers>>

(* Something leaves the pipeline and is counted.                           *)
Export ==
  /\ shared = "built"
  /\ \E v \in VUs : handle[v] # NoPath
  /\ exported < script.exports
  /\ exported' = exported + 1
  /\ UNCHANGED <<test, root, setup, pipe, registered, pc, want, handle, stats, answers>>

(* Mutant: the last snapshot is not kept.                                  *)
RunJourney_snapshot_lost(v, live) ==
  /\ pc[v] = "idle" /\ handle[v] # NoPath
  /\ phase # "init" /\ live
  /\ reported[v] <= script.exports
  /\ reported' = [reported EXCEPT ![v] = @ + (exported - lastStats[v])]
  /\ UNCHANGED <<test, root, setup, pipe, exported, registered, pc, want, handle, lastStats, muted,
                 answers>>

(* handle.runJourney ends with emitExporterStats, whatever became of the   *)
(* journey: the pipeline's counters are the VU's new snapshot, and what    *)
(* was added to them since the last one is pushed to k6 - but not in the   *)
(* init context, where the VU has no state, nor when the VU's context is   *)
(* done by then (live is FALSE).                                           *)
RunJourney(v, live) ==
  /\ pc[v] = "idle" /\ handle[v] # NoPath
  /\ lastStats' = [lastStats EXCEPT ![v] = exported]
  /\ \/ /\ phase # "init" /\ live
        /\ reported' = [reported EXCEPT ![v] = @ + (exported - lastStats[v])]
        /\ UNCHANGED muted
     \/ /\ phase = "init" \/ ~live
        /\ muted' = [muted EXCEPT ![v] = @ \/ exported > lastStats[v]]
        /\ UNCHANGED reported
  /\ UNCHANGED <<test, root, setup, pipe, exported, registered, pc, want, handle, answers>>

-----------------------------------------------------------------------------
InLoad(v) ==
  \/ EnterOnce(v) \/ SetSchema(v) \/ SetOverlay(v) \/ LeaveOnce(v) \/ PassOnce(v)
  \/ CheckLoaded(v) \/ GetOrBuildPipeline(v) \/ EnsureObservableRegistration(v) \/ NewEngine(v)

Next ==
  \/ InitDone \/ SetupDone \/ OutputStart \/ Export
  \/ \E v \in VUs :
       \/ NewModuleInstance(v) \/ InLoad(v) \/ StatsOrFlush(v)
       \/ \E live \in BOOLEAN : RunJourney(v, live)
       \/ \E p \in Paths : Load(v, p)
       \/ \E good \in BOOLEAN : Configure(v, good)

Spec == Init /\ [][Next]_vars

(* A VU inside a call runs on: nothing in load() waits but for schemaOnce. *)
FairSpec == Spec /\ \A v \in VUs : WF_vars(InLoad(v))

-----------------------------------------------------------------------------
(* All calls of load() with one path get the same answer, whichever VU     *)
(* makes them and whatever else is under way: the first use of the once,   *)
(* of the shared pipeline and of the registration settles it (instance.go  *)
(* Load, lateInit).                                                        *)
SameAnswer == \A a, b \in answers : a[1] = b[1] => a[2] = b[2]

(* No VU builds an engine without its fault overlay, which panics          *)
(* (instance.go lateInit).                                                 *)
EnginesHaveOverlay == \A v \in VUs : pc[v] # "panicked"

(* No VU works with a topology that is only half published: neither does   *)
(* an engine, nor are the observable metrics registered without the        *)
(* overlay, which would hide every fault from them for the rest of the     *)
(* test.                                                                   *)
PublishedWhole == EnginesHaveOverlay /\ registered # "blind"

(* Where k6 initialises no VU during the test, both hold (instance.go      *)
(* Load, lateInit).                                                        *)
LoadSafe == script.late = {} => PublishedWhole

(* A configuration that was accepted is the one the pipeline runs with:    *)
(* in the documented script, configure() in setup(), load() in the         *)
(* iterations and no output, nothing builds the pipeline before it         *)
(* (instance.go Configure, getOrBuildPipeline).                            *)
ConfigureWins ==
  script.load = {"run"} /\ script.configure = {"setup"} /\ ~script.output =>
    (configured = "done" /\ shared = "built" => "js" \in builtFrom)

(* configure() tells the truth: at most one call succeeds, and the options *)
(* are in the configuration exactly when one did - also when an earlier    *)
(* call with bad options has used up configureOnce.                        *)
AcksTrue == acks <= 1 /\ (acks = 1 <=> "js" \in config)

(* What a script that calls configure() relies on: the answer it gets is   *)
(* true, and the options it gave are the ones in use.                      *)
ConfigureTrue == ConfigureWins /\ AcksTrue

(* No VU reports an export twice, and the deltas it pushes add up to the   *)
(* counters it saw last: none is left out unless the VU ran a journey in   *)
(* the init context or one that outlived its context.  What such a journey *)
(* did not push is pushed by no later one (metrics.go                      *)
(* emitExporterStatsSnapshot).                                             *)
DeltasAddUp ==
  \A v \in VUs :
    /\ reported[v] <= lastStats[v] /\ lastStats[v] <= exported
    /\ ~muted[v] => reported[v] = lastStats[v]

(* Every call of load() returns, with a handle or an error: nobody is left *)
(* waiting for schemaOnce or the pipeline.                                 *)
LoadReturns == \A v \in VUs : pc[v] = "once" ~> pc[v] \in {"idle", "panicked"}

=============================================================================
