---------------------------- MODULE JourneyExec ----------------------------
(***************************************************************************)
(* Execution of one journey plan by journey.Engine (journey/executor.go,   *)
(* journey/recovery.go).                                                   *)
(*                                                                         *)
(* The plan is a static tree.  Every node of the tree owns one frame: the  *)
(* local variables of the executeNodeAt call that is running the node.     *)
(* executeNodeAt is recursive, and a parallel group runs one goroutine per *)
(* branch, so several frames can make steps at the same time; within a     *)
(* branch only the innermost frame does.  A node is never run by two       *)
(* frames at once, because its only caller waits for it to return.         *)
(*                                                                         *)
(* Time is simulated: the engine never sleeps, it computes the start and   *)
(* end of every span from sampled latencies.                               *)
(***************************************************************************)
EXTENDS Integers, Sequences

CONSTANTS
  Node,           \* the nodes of the plan, the fallback targets included
  Root,           \* Plan.Root
  Depth,          \* the number of calls that lead from the root to a node
  Kind,           \* "op", "seq" (virtual root of a multi-step journey), "par"
  Kids,           \* Node.Children, or Node.Parallel of a group, in order
  Fallbacks,      \* the nodes executeFallbackAt makes from OnFailure.Fallback
  OnFailure,      \* "none" (no policy) or the policy's OnExhausted mode
  Retries,        \* Edge.Retries
  Backoff,        \* Edge.RetryBackoff
  BaseDelay,      \* Edge.RetryBaseDelay
  Timeout,        \* Edge.Timeout, 0 for none
  Messaging,      \* the nodes reached over a messaging edge
  PublishLatency, \* messagingPublishLatency
  Dice            \* what foldFaults and the latency sample can yield for a node

ExhaustedMode == {"propagate", "return_default", "succeed_silently"}
ErrorType == {"none", "crashed", "context_canceled", "timeout",
              "connection_refused", "fault"}

Die == [crashed : BOOLEAN, refused : BOOLEAN, fail : BOOLEAN, latency : Nat]

(***************************************************************************)
(* The wait before retry k: retryBackoffDelay.                             *)
(***************************************************************************)
RetryDelay(n, k) ==
  CASE Backoff[n] = "constant" -> BaseDelay[n]
    [] Backoff[n] = "linear"   -> k * BaseDelay[n]
    [] OTHER                   -> 2^(k - 1) * BaseDelay[n]

KidSet(n) == {Kids[n][i] : i \in DOMAIN Kids[n]}
FallbackSet(n) == {Fallbacks[n][i] : i \in DOMAIN Fallbacks[n]}
Callees(n) == KidSet(n) \cup FallbackSet(n)

ASSUME PlanShape ==
  /\ Root \in Node
  /\ Kind \in [Node -> {"op", "seq", "par"}]
  /\ Kids \in [Node -> Seq(Node)]
  /\ Fallbacks \in [Node -> Seq(Node)]

(***************************************************************************)
(* buildPlan makes a tree: a node fills one slot of one caller, the root   *)
(* none, and no node is below itself (an operation met again on the build  *)
(* path is rejected).  Only the root stands for the steps of a journey,    *)
(* and a parallel group has a branch.                                      *)
(***************************************************************************)
ASSUME PlanIsTree ==
  /\ \A n \in Node : Root \notin Callees(n)
  /\ \A c \in Node \ {Root} : \E n \in Node : c \in Callees(n)
  /\ Depth \in [Node -> Nat]
  /\ \A n \in Node : \A c \in Callees(n) : Depth[n] < Depth[c]
  /\ \A m, n \in Node : m # n => Callees(m) \cap Callees(n) = {}
  /\ \A n \in Node :
       /\ KidSet(n) \cap FallbackSet(n) = {}
       /\ \A i, j \in DOMAIN Kids[n] : Kids[n][i] = Kids[n][j] => i = j
       /\ \A i, j \in DOMAIN Fallbacks[n] : Fallbacks[n][i] = Fallbacks[n][j] => i = j
       /\ Kind[n] = "seq" => n = Root
       /\ Kind[n] = "par" => Kids[n] # <<>>

(***************************************************************************)
(* A fallback node is built with no children, and only an operation node   *)
(* has a recovery policy.                                                  *)
(***************************************************************************)
ASSUME PlanPolicies ==
  /\ OnFailure \in [Node -> ExhaustedMode \cup {"none"}]
  /\ \A n \in Node : OnFailure[n] = "none" => Fallbacks[n] = <<>>
  /\ \A n \in Node : Kind[n] # "op" => OnFailure[n] = "none"
  /\ \A n \in Node : \A f \in FallbackSet(n) : Kind[f] = "op" /\ Kids[f] = <<>>

ASSUME PlanNumbers ==
  /\ Retries \in [Node -> Nat]
  /\ Timeout \in [Node -> Nat]
  /\ BaseDelay \in [Node -> Nat]
  /\ Backoff \in [Node -> {"constant", "linear", "exponential"}]
  /\ Messaging \subseteq Node
  /\ PublishLatency \in Nat
  /\ Dice \in [Node -> SUBSET Die]

(***************************************************************************)
(* time.Duration is an int64: the doubling delay of a large retry count    *)
(* wraps around.  The plans considered here stay below that.               *)
(***************************************************************************)
ASSUME DelaysDoNotWrap ==
  \A n \in Node : \A k \in 1..Retries[n] : RetryDelay(n, k) \in Nat

-----------------------------------------------------------------------------
(***************************************************************************)
(* Outcomes.  StatusCode follows ErrorType and is left out.  recovery says *)
(* how applyRecoveryAt ended: PrimaryFailed with FallbackUsed, DefaultUsed,*)
(* SilentlySucceeded, or none of them.                                     *)
(***************************************************************************)
Recovery == {"none", "fallback", "default", "silent", "exhausted"}
Outcome == [ok : BOOLEAN, err : ErrorType, cascaded : BOOLEAN,
            latency : Nat, recovery : Recovery]

Succeeded(lat) ==
  [ok |-> TRUE, err |-> "none", cascaded |-> FALSE,
   latency |-> lat, recovery |-> "none"]

Failed(e, lat) ==
  [ok |-> FALSE, err |-> e, cascaded |-> FALSE,
   latency |-> lat, recovery |-> "none"]

\* A nil parent and a successful one take the same path in executeNodeAt.
NoParent == Succeeded(0)

(***************************************************************************)
(* Spans.  A span is named by its node and its place among the node's      *)
(* spans; a context is the name of the span it carries.  kind separates    *)
(* the spans of executeSingleAttempt ("work"), of executeCascadeAt         *)
(* ("skip") and of emitMessagingProducerSpan ("publish").                  *)
(***************************************************************************)
NoSpan == <<>>
Context == {NoSpan} \cup (Node \X (Nat \ {0}))
Span == [kind : {"work", "skip", "publish"}, parent : Context, attempt : Nat,
         open : BOOLEAN, start : Nat, end : Nat, ok : BOOLEAN,
         err : ErrorType, die : Die]

NoDie == [crashed |-> FALSE, refused |-> FALSE, fail |-> FALSE, latency |-> 0]

\* A finished span: it ends with outcome o, o.latency after its start s.
NewSpan(kind, c, k, s, o, d) ==
  [kind |-> kind, parent |-> c, attempt |-> k, open |-> FALSE, start |-> s,
   end |-> s + o.latency, ok |-> o.ok, err |-> o.err, die |-> d]

PublishSpan(c, k, s) == NewSpan("publish", c, k, s, Succeeded(PublishLatency), NoDie)

VARIABLES
  \* the frame of each node
  pc,        \* where executeNodeAt stands
  start,     \* the start time it was given
  ctx,       \* the context it was given
  up,        \* the parent outcome it was given
  attempt,   \* attempts already made
  total,     \* time spent in earlier attempts and delays
  elapsed,   \* time spent in the current loop over children
  idx,       \* the loop's position
  die,       \* the folded faults of the current attempt
  out,       \* the outcome so far, or the one returned
  \* shared by all frames
  spans,     \* the spans of each node, in the order they were begun
  canceled   \* the context handed to Execute is done

frame == <<pc, start, ctx, up, attempt, total, elapsed, idx, die, out>>
vars == <<pc, start, ctx, up, attempt, total, elapsed, idx, die, out,
          spans, canceled>>

Calling == {"sequence", "children", "recovering", "cascading"}
PC == {"idle", "entered", "joining", "begun", "attempted", "retry",
       "settled", "returned"} \cup Calling

AttemptStart(n) == start[n] + total[n]
OwnSpan(n) == <<n, Len(spans[n])>>

Init ==
  /\ pc = [n \in Node |-> IF n = Root THEN "entered" ELSE "idle"]
  /\ start = [n \in Node |-> 0]
  /\ ctx = [n \in Node |-> NoSpan]
  /\ up = [n \in Node |-> NoParent]
  /\ attempt = [n \in Node |-> 0]
  /\ total = [n \in Node |-> 0]
  /\ elapsed = [n \in Node |-> 0]
  /\ idx = [n \in Node |-> 1]
  /\ die = [n \in Node |-> NoDie]
  /\ out = [n \in Node |-> NoParent]
  /\ spans = [n \in Node |-> <<>>]
  /\ canceled = FALSE

-----------------------------------------------------------------------------
(***************************************************************************)
(* Calls from one frame to the next.                                       *)
(***************************************************************************)
Loop(n) == IF pc[n] = "recovering" THEN Fallbacks[n] ELSE Kids[n]
Callee(n) == Loop(n)[idx[n]]

\* Mutants of the start of a call: going back in time; a fallback not waiting for
\* the attempts before it.
CallStart_behind(n) == start[n] - elapsed[n]
CallStart_at_once(n) ==
  IF pc[n] = "children" THEN AttemptStart(n) + elapsed[n]
  ELSE IF pc[n] = "recovering" THEN start[n] ELSE start[n] + elapsed[n]

CallStart(n) ==
  CASE pc[n] = "children"   -> AttemptStart(n) + elapsed[n]
    [] pc[n] = "recovering" -> start[n] + out[n].latency
    [] OTHER                -> start[n] + elapsed[n]

\* Children of an attempt run under the attempt's span; the steps of a virtual
\* node, fallbacks and skipped children under the context of the node itself.
CallContext(n) == IF pc[n] = "children" THEN OwnSpan(n) ELSE ctx[n]

\* Mutant: a failed step is forgotten.
CallParent_forgotten(n) == IF pc[n] = "cascading" THEN out[n] ELSE NoParent

CallParent(n) ==
  CASE pc[n] = "sequence"  -> up[n]
    [] pc[n] = "cascading" -> out[n]
    [] OTHER               -> NoParent

\* The next iteration of a loop calls executeNodeAt for its node.
Call(n) ==
  /\ pc[n] \in Calling
  /\ idx[n] <= Len(Loop(n))
  /\ pc[Callee(n)] = "idle"
  /\ pc' = [pc EXCEPT ![Callee(n)] = "entered"]
  /\ start' = [start EXCEPT ![Callee(n)] = CallStart(n)]
  /\ ctx' = [ctx EXCEPT ![Callee(n)] = CallContext(n)]
  /\ up' = [up EXCEPT ![Callee(n)] = CallParent(n)]
  /\ attempt' = [attempt EXCEPT ![Callee(n)] = 0]
  /\ total' = [total EXCEPT ![Callee(n)] = 0]
  /\ UNCHANGED <<elapsed, idx, die, out, spans, canceled>>

\* Mutant: the loop does not wait for the callee to return.
Consume_running(n) ==
  /\ idx[n] <= Len(Loop(n))
  /\ pc[Callee(n)] # "idle"
  /\ UNCHANGED <<start, ctx, attempt, total, die, spans, canceled>>

\* The loop of n has its callee's outcome: the callee's frame is gone.
Consume(n) ==
  /\ idx[n] <= Len(Loop(n))
  /\ pc[Callee(n)] = "returned"
  /\ UNCHANGED <<start, ctx, attempt, total, die, spans, canceled>>

-----------------------------------------------------------------------------
(***************************************************************************)
(* Parallel groups: executeParallelGroupAt, aggregateParallelOutcomes.     *)
(***************************************************************************)
StartGroup(n) ==
  /\ pc[n] = "entered"
  /\ Kind[n] = "par"
  /\ pc' = [m \in Node |-> IF m = n THEN "joining"
                           ELSE IF m \in KidSet(n) THEN "entered" ELSE pc[m]]
  /\ start' = [m \in Node |-> IF m \in KidSet(n) THEN start[n] ELSE start[m]]
  /\ ctx' = [m \in Node |-> IF m \in KidSet(n) THEN ctx[n] ELSE ctx[m]]
  /\ up' = [m \in Node |-> IF m \in KidSet(n) THEN up[n] ELSE up[m]]
  /\ attempt' = [m \in Node |-> IF m \in KidSet(n) THEN 0 ELSE attempt[m]]
  /\ total' = [m \in Node |-> IF m \in KidSet(n) THEN 0 ELSE total[m]]
  /\ UNCHANGED <<elapsed, idx, die, out, spans, canceled>>

\* The slowest branch gives the latency, the first failing one in declaration
\* order the error.
Latencies(os) == {0} \cup {os[i].latency : i \in DOMAIN os}
IsLongest(lat, os) == \A l \in Latencies(os) : l <= lat
Failing(os) == {i \in DOMAIN os : ~os[i].ok}
FirstFailure(os) == os[CHOOSE i \in Failing(os) : \A j \in Failing(os) : i <= j]

Aggregate(os, longest) ==
  IF Failing(os) = {} THEN Succeeded(longest)
  ELSE [Failed(FirstFailure(os).err, longest) EXCEPT !.cascaded = FirstFailure(os).cascaded]

BranchOutcomes(n) == [i \in DOMAIN Kids[n] |-> out[Kids[n][i]]]

\* Mutants of the wait: for any branch, for the branches to succeed.
BranchesDone_any(n) == \E m \in KidSet(n) : pc[m] = "returned"
BranchesDone_succeeded(n) == \A m \in KidSet(n) : pc[m] = "returned" /\ out[m].ok

\* wg.Wait.
BranchesDone(n) == \A m \in KidSet(n) : pc[m] = "returned"

JoinGroup(n) ==
  /\ pc[n] = "joining"
  /\ BranchesDone(n)
  /\ pc' = [m \in Node |-> IF m = n THEN "returned"
                           ELSE IF m \in KidSet(n) THEN "idle" ELSE pc[m]]
  /\ \E longest \in Latencies(BranchOutcomes(n)) :
       /\ IsLongest(longest, BranchOutcomes(n))
       /\ out' = [out EXCEPT ![n] = Aggregate(BranchOutcomes(n), longest)]
  /\ UNCHANGED <<start, ctx, up, attempt, total, elapsed, idx, die, spans, canceled>>

-----------------------------------------------------------------------------
(***************************************************************************)
(* The virtual root of a multi-step journey: executeSequentialVirtualAt.   *)
(* Once a step fails, its outcome becomes the parent of every later step.  *)
(***************************************************************************)
StartSequence(n) ==
  /\ pc[n] = "entered"
  /\ Kind[n] = "seq"
  /\ pc' = [pc EXCEPT ![n] = "sequence"]
  /\ elapsed' = [elapsed EXCEPT ![n] = 0]
  /\ idx' = [idx EXCEPT ![n] = 1]
  /\ out' = [out EXCEPT ![n] = Succeeded(0)]
  /\ UNCHANGED <<start, ctx, up, attempt, total, die, spans, canceled>>

StepReturned(n) ==
  /\ pc[n] = "sequence"
  /\ Consume(n)
  /\ LET step == out[Callee(n)]
     IN /\ elapsed' = [elapsed EXCEPT ![n] = @ + step.latency]
        /\ out' = [out EXCEPT ![n] = step]
        /\ up' = [up EXCEPT ![n] = IF step.ok THEN @ ELSE step]
  /\ idx' = [idx EXCEPT ![n] = @ + 1]
  /\ pc' = [pc EXCEPT ![Callee(n)] = "idle"]

EndSequence(n) ==
  /\ pc[n] = "sequence"
  /\ idx[n] > Len(Kids[n])
  /\ out' = [out EXCEPT ![n].latency = elapsed[n]]
  /\ pc' = [pc EXCEPT ![n] = "returned"]
  /\ UNCHANGED <<start, ctx, up, attempt, total, elapsed, idx, die, spans, canceled>>

-----------------------------------------------------------------------------
(***************************************************************************)
(* An operation below a failure: executeCascadeAt.                         *)
(***************************************************************************)
Skipped(o) == [Failed(o.err, 0) EXCEPT !.cascaded = TRUE]

SkipSpan(c, s, o) == NewSpan("skip", c, 0, s, Skipped(o), NoDie)

Skip(n) ==
  /\ pc[n] = "entered"
  /\ Kind[n] = "op"
  /\ ~up[n].ok
  /\ spans' = [spans EXCEPT ![n] = Append(@, SkipSpan(ctx[n], start[n], up[n]))]
  /\ out' = [out EXCEPT ![n] = Skipped(up[n])]
  /\ pc' = [pc EXCEPT ![n] = "returned"]
  /\ UNCHANGED <<start, ctx, up, attempt, total, elapsed, idx, die, canceled>>

-----------------------------------------------------------------------------
(***************************************************************************)
(* One attempt: executeSingleAttempt.                                      *)
(***************************************************************************)
Published(n, c, k, s) == IF n \in Messaging THEN <<PublishSpan(c, k, s)>> ELSE <<>>

OpenSpan(n, d) ==
  [NewSpan("work", ctx[n], attempt[n], AttemptStart(n), Succeeded(0), d)
     EXCEPT !.open = TRUE]

\* Faults and latency are drawn; a messaging edge publishes first; the span is begun.
BeginAttempt(n) ==
  /\ \/ pc[n] = "entered" /\ Kind[n] = "op" /\ up[n].ok
     \/ pc[n] = "retry"
  /\ \E d \in Dice[n] :
       /\ die' = [die EXCEPT ![n] = d]
       /\ spans' = [spans EXCEPT ![n] =
                      @ \o Published(n, ctx[n], attempt[n], AttemptStart(n))
                        \o <<OpenSpan(n, d)>>]
  /\ pc' = [pc EXCEPT ![n] = "begun"]
  /\ UNCHANGED <<start, ctx, up, attempt, total, elapsed, idx, out, canceled>>

\* The checks before any child runs, in the order of the code.
TooSlow(n, d) == Timeout[n] > 0 /\ d.latency > Timeout[n]

EarlyOutcome(n, d, ended) ==
  IF d.crashed THEN Failed("crashed", 0)
  ELSE IF ended THEN Failed("context_canceled", 0)
  ELSE IF TooSlow(n, d) THEN Failed("timeout", Timeout[n])
  ELSE IF d.refused THEN Failed("connection_refused", d.latency)
  ELSE Succeeded(d.latency)

Early(n) == EarlyOutcome(n, die[n], canceled)

\* finishAndEmitAt: the span ends with the outcome, at the attempt's start plus
\* the outcome's latency.
Finish(n, o) ==
  spans' = [spans EXCEPT ![n][Len(spans[n])] =
              [@ EXCEPT !.open = FALSE, !.end = AttemptStart(n) + o.latency,
                        !.ok = o.ok, !.err = o.err]]

AbortAttempt(n) ==
  /\ pc[n] = "begun"
  /\ ~Early(n).ok
  /\ Finish(n, Early(n))
  /\ out' = [out EXCEPT ![n] = Early(n)]
  /\ pc' = [pc EXCEPT ![n] = "attempted"]
  /\ UNCHANGED <<start, ctx, up, attempt, total, elapsed, idx, die, canceled>>

StartChildren(n) ==
  /\ pc[n] = "begun"
  /\ Early(n).ok
  /\ elapsed' = [elapsed EXCEPT ![n] = die[n].latency]
  /\ idx' = [idx EXCEPT ![n] = 1]
  /\ pc' = [pc EXCEPT ![n] = "children"]
  /\ UNCHANGED <<start, ctx, up, attempt, total, die, out, spans, canceled>>

\* A failing child ends the loop, but does not fail the attempt.
ChildReturned(n) ==
  /\ pc[n] = "children"
  /\ Consume(n)
  /\ LET child == out[Callee(n)]
     IN /\ elapsed' = [elapsed EXCEPT ![n] = @ + child.latency]
        /\ idx' = [idx EXCEPT ![n] = IF child.ok THEN @ + 1 ELSE Len(Kids[n]) + 1]
  /\ pc' = [pc EXCEPT ![Callee(n)] = "idle"]
  /\ UNCHANGED <<up, out>>

AttemptOutcome(n) ==
  IF die[n].fail THEN Failed("fault", elapsed[n]) ELSE Succeeded(elapsed[n])

FinishAttempt(n) ==
  /\ pc[n] = "children"
  /\ idx[n] > Len(Kids[n])
  /\ Finish(n, AttemptOutcome(n))
  /\ out' = [out EXCEPT ![n] = AttemptOutcome(n)]
  /\ pc' = [pc EXCEPT ![n] = "attempted"]
  /\ UNCHANGED <<start, ctx, up, attempt, total, elapsed, idx, die, canceled>>

-----------------------------------------------------------------------------
(***************************************************************************)
(* The attempts of a node: executeAttemptSequence.                         *)
(***************************************************************************)
AttemptSucceeded(n) ==
  /\ pc[n] = "attempted"
  /\ out[n].ok
  /\ out' = [out EXCEPT ![n].latency = @ + total[n]]
  /\ pc' = [pc EXCEPT ![n] = "returned"]
  /\ UNCHANGED <<start, ctx, up, attempt, total, elapsed, idx, die, spans, canceled>>

LastAttempt_canceled_too(n) == attempt[n] >= Retries[n]  \* mutant
LastAttempt(n) == out[n].err = "context_canceled" \/ attempt[n] >= Retries[n]

Retry(n) ==
  /\ pc[n] = "attempted"
  /\ ~out[n].ok
  /\ ~LastAttempt(n)
  /\ attempt' = [attempt EXCEPT ![n] = @ + 1]
  /\ total' = [total EXCEPT ![n] = @ + out[n].latency + RetryDelay(n, attempt[n] + 1)]
  /\ pc' = [pc EXCEPT ![n] = "retry"]
  /\ UNCHANGED <<start, ctx, up, elapsed, idx, die, out, spans, canceled>>

\* capLatencyToTimeout and applyTimeoutFailure on the sum of all attempts.
Settled(n, o, spent) ==
  IF Timeout[n] > 0 /\ spent > Timeout[n]
  THEN [o EXCEPT !.latency = Timeout[n], !.ok = FALSE, !.err = "timeout"]
  ELSE [o EXCEPT !.latency = spent]

GiveUp(n) ==
  /\ pc[n] = "attempted"
  /\ ~out[n].ok
  /\ LastAttempt(n)
  /\ out' = [out EXCEPT ![n] = Settled(n, out[n], total[n] + out[n].latency)]
  /\ idx' = [idx EXCEPT ![n] = 1]
  /\ pc' = [pc EXCEPT ![n] = IF OnFailure[n] = "none" THEN "settled" ELSE "recovering"]
  /\ UNCHANGED <<start, ctx, up, attempt, total, elapsed, die, spans, canceled>>

-----------------------------------------------------------------------------
(***************************************************************************)
(* Recovery: applyRecoveryAt, executeFallbackAt.                           *)
(***************************************************************************)
Recovered(o, how) == [o EXCEPT !.ok = TRUE, !.err = "none", !.recovery = how]

Exhausted(n, o) ==
  CASE OnFailure[n] = "return_default"   -> Recovered(o, "default")
    [] OnFailure[n] = "succeed_silently" -> Recovered(o, "silent")
    [] OTHER -> [o EXCEPT !.ok = FALSE, !.recovery = "exhausted"]

FallbackReturned(n) ==
  /\ pc[n] = "recovering"
  /\ Consume(n)
  /\ LET fb == out[Callee(n)]
         waited == [out[n] EXCEPT !.latency = @ + fb.latency]
     IN IF fb.ok
        THEN /\ out' = [out EXCEPT ![n] = Recovered(waited, "fallback")]
             /\ pc' = [pc EXCEPT ![n] = "settled", ![Callee(n)] = "idle"]
        ELSE /\ out' = [out EXCEPT ![n] = waited]
             /\ pc' = [pc EXCEPT ![Callee(n)] = "idle"]
  /\ idx' = [idx EXCEPT ![n] = @ + 1]
  /\ UNCHANGED <<up, elapsed>>

Exhaust(n) ==
  /\ pc[n] = "recovering"
  /\ idx[n] > Len(Fallbacks[n])
  /\ out' = [out EXCEPT ![n] = Exhausted(n, @)]
  /\ pc' = [pc EXCEPT ![n] = "settled"]
  /\ UNCHANGED <<start, ctx, up, attempt, total, elapsed, idx, die, spans, canceled>>

-----------------------------------------------------------------------------
(***************************************************************************)
(* Failures that keep the call from reaching the children emit the         *)
(* children's spans as skipped: shouldCascadeChildren, executeChildrenAt.  *)
(***************************************************************************)
ShouldCascade(o) == ~o.ok /\ o.err # "fault"

StartCascade(n) ==
  /\ pc[n] = "settled"
  /\ ShouldCascade(out[n])
  /\ elapsed' = [elapsed EXCEPT ![n] = out[n].latency]
  /\ idx' = [idx EXCEPT ![n] = 1]
  /\ pc' = [pc EXCEPT ![n] = "cascading"]
  /\ UNCHANGED <<start, ctx, up, attempt, total, die, out, spans, canceled>>

SkippedReturned(n) ==
  /\ pc[n] = "cascading"
  /\ Consume(n)
  /\ elapsed' = [elapsed EXCEPT ![n] = @ + out[Callee(n)].latency]
  /\ idx' = [idx EXCEPT ![n] = @ + 1]
  /\ pc' = [pc EXCEPT ![Callee(n)] = "idle"]
  /\ UNCHANGED <<up, out>>

Return(n) ==
  /\ \/ pc[n] = "settled" /\ ~ShouldCascade(out[n])
     \/ pc[n] = "cascading" /\ idx[n] > Len(Kids[n])
  /\ pc' = [pc EXCEPT ![n] = "returned"]
  /\ UNCHANGED <<start, ctx, up, attempt, total, elapsed, idx, die, out, spans, canceled>>

-----------------------------------------------------------------------------
(***************************************************************************)
(* The caller of Execute may cancel its context at any time.               *)
(***************************************************************************)
Cancel ==
  /\ ~canceled
  /\ pc[Root] # "returned"
  /\ canceled' = TRUE
  /\ UNCHANGED <<frame, spans>>

Done == pc[Root] = "returned"

\* Execute has returned; its caller has nothing left to ask for.
Finished == Done /\ UNCHANGED vars

Step(n) ==
  \/ Call(n)
  \/ StartGroup(n) \/ JoinGroup(n)
  \/ StartSequence(n) \/ StepReturned(n) \/ EndSequence(n)
  \/ Skip(n)
  \/ BeginAttempt(n) \/ AbortAttempt(n) \/ StartChildren(n)
  \/ ChildReturned(n) \/ FinishAttempt(n)
  \/ AttemptSucceeded(n) \/ Retry(n) \/ GiveUp(n)
  \/ FallbackReturned(n) \/ Exhaust(n)
  \/ StartCascade(n) \/ SkippedReturned(n) \/ Return(n)

Next ==
  \/ \E n \in Node : Step(n)
  \/ Cancel
  \/ Finished

(***************************************************************************)
(* Every goroutine of the engine keeps running: no step of a frame blocks  *)
(* except wg.Wait.  Nobody is obliged to cancel.                           *)
(***************************************************************************)
Fairness == \A n \in Node : WF_vars(Step(n))

Spec == Init /\ [][Next]_vars /\ Fairness

-----------------------------------------------------------------------------
(***************************************************************************)
(* Properties.                                                             *)
(***************************************************************************)
TypeOK ==
  /\ pc \in [Node -> PC]
  /\ start \in [Node -> Nat]
  /\ ctx \in [Node -> Context]
  /\ up \in [Node -> Outcome]
  /\ attempt \in [Node -> Nat]
  /\ total \in [Node -> Nat]
  /\ elapsed \in [Node -> Nat]
  /\ idx \in [Node -> Nat \ {0}]
  /\ die \in [Node -> Die]
  /\ out \in [Node -> Outcome]
  /\ spans \in [Node -> Seq(Span)]
  /\ canceled \in BOOLEAN

SpanAt(c) == spans[c[1]][c[2]]
Works(n) == {i \in DOMAIN spans[n] : spans[n][i].kind = "work"}

\* When Execute returns, no branch of the plan is still running and every span
\* that was begun has been finished: the recursion and wg.Wait leave nothing
\* behind, whatever failed, was retried or was canceled on the way.
NothingOutlivesJourney ==
  Done => \A n \in Node :
            /\ n # Root => pc[n] = "idle"
            /\ \A i \in DOMAIN spans[n] : ~spans[n][i].open

\* A span that is open has an open parent: a caller never finishes its span
\* while a call made under that span is running, in its own goroutine or in a
\* branch of a parallel group.
OpenSpansNest ==
  \A n \in Node : \A i \in DOMAIN spans[n] :
    LET s == spans[n][i]
    IN s.open /\ s.parent # NoSpan => SpanAt(s.parent).open

\* A frame that runs is the one its caller waits for, in the position the
\* caller's loop or parallel group stands at.
Serves(n, c) ==
  \/ pc[n] = "joining" /\ c \in KidSet(n)
  \/ pc[n] \in Calling /\ idx[n] <= Len(Loop(n)) /\ c = Callee(n)

CallDiscipline ==
  \A n \in Node : \A c \in Callees(n) : pc[c] # "idle" => Serves(n, c)

\* TP-U2-5: no span ends before it starts, and none starts before its parent.
TimeMonotone ==
  \A n \in Node : \A i \in DOMAIN spans[n] :
    LET s == spans[n][i]
    IN /\ s.end >= s.start
       /\ s.parent # NoSpan => s.start >= SpanAt(s.parent).start

\* The simulated end of a finished span covers the spans of the calls made
\* under it, for every callee whose reported latency the edge's timeout cannot
\* cut below the time its own attempts and children took.
Uncut(n) == Timeout[n] = 0 \/ (Retries[n] = 0 /\ Kids[n] = <<>>)

SpansContained ==
  \A n \in Node : Uncut(n) =>
    \A i \in DOMAIN spans[n] :
      LET s == spans[n][i]
      IN s.kind # "publish" /\ s.parent # NoSpan /\ ~SpanAt(s.parent).open
           => s.end <= SpanAt(s.parent).end

\* A retry follows a failed attempt that was not canceled, and starts a full
\* backoff delay after that attempt's end.
RetriesSeparated ==
  \A n \in Node : \A i \in Works(n) : spans[n][i].attempt > 0 =>
    \E j \in Works(n) :
      LET this == spans[n][i]  before == spans[n][j]
      IN /\ j < i
         /\ \A k \in Works(n) : k <= j \/ k >= i
         /\ before.attempt = this.attempt - 1
         /\ ~before.ok /\ ~before.open /\ before.err # "context_canceled"
         /\ this.start = before.end + RetryDelay(n, this.attempt)

\* An operation that returns success had a last attempt that succeeded and took
\* exactly the time reported, or was recovered: by the fallback tried last,
\* after every earlier one failed, or by the policy once all had failed.
LastWork(n) == spans[n][CHOOSE i \in Works(n) : \A j \in Works(n) : j <= i]

SuccessExplained ==
  \A n \in Node : pc[n] = "returned" /\ Kind[n] = "op" /\ out[n].ok =>
    /\ out[n].err = "none" /\ ~out[n].cascaded
    /\ CASE out[n].recovery = "none" ->
              LastWork(n).ok /\ start[n] + out[n].latency = LastWork(n).end
         [] out[n].recovery = "fallback" ->
              /\ ~LastWork(n).ok
              /\ out[Fallbacks[n][idx[n] - 1]].ok
              /\ \A i \in 1..(idx[n] - 2) : ~out[Fallbacks[n][i]].ok
         [] OTHER ->
              /\ ~LastWork(n).ok
              /\ OnFailure[n] \in {"return_default", "succeed_silently"}
              /\ \A f \in FallbackSet(n) : ~out[f].ok

\* A skipped operation takes no time and has its caller's failure, which is that
\* of the caller's last attempt, whichever retries and fallbacks came before, or a
\* timeout when all attempts together took longer than the caller's timeout.
SkipsInheritError ==
  \A n \in Node : pc[n] = "cascading" =>
    \A k \in KidSet(n) : pc[k] = "returned" =>
      /\ ~out[k].ok /\ out[k].cascaded /\ out[k].latency = 0
      /\ out[k].err = out[n].err
      /\ ~LastWork(n).ok
      /\ IF Timeout[n] > 0 /\ LastWork(n).end - start[n] > Timeout[n]
         THEN out[k].err = "timeout" ELSE out[k].err = LastWork(n).err

\* Once a step of a multi-step journey has failed, recovery included, no later
\* step executes anything.
NoWorkAfterFailedStep ==
  \A n \in Node : Kind[n] = "seq" =>
    \A i, j \in DOMAIN Kids[n] :
      i < j /\ i < idx[n] /\ ~out[Kids[n][i]].ok => Works(Kids[n][j]) = {}

\* Every span is finished, and finished inside its parent: while the branches of a
\* group run and at the end of the journey.
SpansNest == NothingOutlivesJourney /\ OpenSpansNest

\* The latencies that Execute adds up by hand agree with the spans: of parents and
\* children, and of the attempts of one operation.
TimesAddUp == TimeMonotone /\ SpansContained /\ RetriesSeparated

\* What failed, and what was not run because of it, can be told from the outcomes:
\* a success is one or was recovered, a skip has its caller's error, and nothing
\* runs after a failed step.
FailuresExplained == SuccessExplained /\ SkipsInheritError /\ NoWorkAfterFailedStep

\* The engine finishes every journey: no frame waits forever for another.
Termination == <>Done

=============================================================================
