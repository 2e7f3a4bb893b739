--------------------------- MODULE JourneyBigStep ---------------------------
(***************************************************************************)
(* The engine read as the recursive function it is written as: RunNode     *)
(* evaluates executeNodeAt in one go, running the branches of a parallel   *)
(* group one after the other in declaration order.  It replays the draws   *)
(* that a finished execution of JourneyExec recorded in its spans.         *)
(*                                                                         *)
(* A log maps each node to the spans emitted so far; the evaluation of a   *)
(* call takes a log and gives back the call's outcome and the longer log.  *)
(***************************************************************************)
EXTENDS JourneyExec

Result(o, log) == [out |-> o, log |-> log]
Emit(log, n, s) == [log EXCEPT ![n] = @ \o s]

\* The work span that the next attempt of n emitted in the execution replayed.
Recorded(n, log) == spans[n][Len(log[n]) + (IF n \in Messaging THEN 2 ELSE 1)]

RECURSIVE RunNode(_, _, _, _, _)
RECURSIVE RunAttempts(_, _, _, _, _, _)
RECURSIVE RunChildren(_, _, _, _, _, _)
RECURSIVE RunBranches(_, _, _, _, _, _)
RECURSIVE RunSteps(_, _, _, _, _, _, _)
RECURSIVE RunFallbacks(_, _, _, _, _)
RECURSIVE RunSkips(_, _, _, _, _)

\* executeSingleAttempt: at is the attempt's start.
RunAttempt(n, at, c, k, log) ==
  LET rec == Recorded(n, log)
      early == EarlyOutcome(n, rec.die, rec.err = "context_canceled")
      work(o) == NewSpan("work", c, k, at, o, rec.die)
      begun == Emit(log, n, Published(n, c, k, at) \o <<work(early)>>)
      here == Len(begun[n])
      ran == IF early.ok THEN RunChildren(n, 1, at, <<n, here>>, rec.die.latency, begun)
             ELSE Result(early, begun)
      outcome == IF early.ok /\ rec.die.fail THEN Failed("fault", ran.out.latency) ELSE ran.out
  IN Result(outcome, [ran.log EXCEPT ![n][here] = work(outcome)])

\* The loop over children: the latency accumulates, the first failure ends it.
RunChildren(n, i, at, c, lat, log) ==
  IF i > Len(Kids[n]) THEN Result(Succeeded(lat), log)
  ELSE LET child == RunNode(Kids[n][i], at + lat, c, NoParent, log)
           spent == lat + child.out.latency
       IN IF child.out.ok THEN RunChildren(n, i + 1, at, c, spent, child.log)
          ELSE Result(Succeeded(spent), child.log)

\* executeAttemptSequence, from attempt k with t spent.
RunAttempts(n, s, c, k, t, log) ==
  LET a == RunAttempt(n, s + t, c, k, log)
      spent == t + a.out.latency
      settled == Settled(n, a.out, spent)
      final == IF OnFailure[n] = "none" THEN Result(settled, a.log)
               ELSE RunFallbacks(n, 1, settled, <<s, c>>, a.log)
  IN IF a.out.ok THEN Result([a.out EXCEPT !.latency = spent], a.log)
     ELSE IF a.out.err # "context_canceled" /\ k < Retries[n]
     THEN RunAttempts(n, s, c, k + 1, spent + RetryDelay(n, k + 1), a.log)
     ELSE IF ShouldCascade(final.out)
     THEN Result(final.out,
                 RunSkips(n, 1, <<s + final.out.latency, c>>, final.out, final.log).log)
     ELSE final

\* applyRecoveryAt, from fallback i.
RunFallbacks(n, i, o, sc, log) ==
  IF i > Len(Fallbacks[n])
  THEN Result(Exhausted(n, o), log)
  ELSE LET fb == RunNode(Fallbacks[n][i], sc[1] + o.latency, sc[2], NoParent, log)
           waited == o.latency + fb.out.latency
       IN IF fb.out.ok
          THEN Result(Recovered([o EXCEPT !.latency = waited], "fallback"), fb.log)
          ELSE RunFallbacks(n, i + 1, [o EXCEPT !.latency = waited], sc, fb.log)

\* executeChildrenAt below a failure.
RunSkips(n, i, sc, o, log) ==
  IF i > Len(Kids[n]) THEN Result(o, log)
  ELSE LET kid == RunNode(Kids[n][i], sc[1], sc[2], o, log)
       IN RunSkips(n, i + 1, <<sc[1] + kid.out.latency, sc[2]>>, o, kid.log)

\* executeParallelGroupAt: every branch starts at s; lasts collects the outcomes.
RunBranches(n, s, c, u, lasts, log) ==
  IF Len(lasts) = Len(Kids[n])
  THEN Result(Aggregate(lasts, CHOOSE l \in Latencies(lasts) : IsLongest(l, lasts)), log)
  ELSE LET b == RunNode(Kids[n][Len(lasts) + 1], s, c, u, log)
       IN RunBranches(n, s, c, u, Append(lasts, b.out), b.log)

\* executeSequentialVirtualAt, from step i, with last the previous step's outcome.
RunSteps(n, i, s, c, u, last, log) ==
  IF i > Len(Kids[n]) THEN Result(last, log)
  ELSE LET step == RunNode(Kids[n][i], s + last.latency, c, u, log)
       IN RunSteps(n, i + 1, s, c, IF step.out.ok THEN u ELSE step.out,
                   [step.out EXCEPT !.latency = @ + last.latency], step.log)

\* executeNodeAt.
RunNode(n, s, c, u, log) ==
  CASE Kind[n] = "par" -> RunBranches(n, s, c, u, <<>>, log)
    [] Kind[n] = "seq" -> RunSteps(n, 1, s, c, u, Succeeded(0), log)
    [] Kind[n] = "op" /\ ~u.ok ->
         Result(Skipped(u), Emit(log, n, <<SkipSpan(c, s, u)>>))
    [] Kind[n] = "op" /\ u.ok -> RunAttempts(n, s, c, 0, 0, log)

-----------------------------------------------------------------------------
\* Whatever the order in which the goroutines of parallel groups ran, the outcome
\* and every span of the finished journey are those of the sequential evaluation
\* with the same draws (TP-U2-7, parallel ordering invariance).
InterleavingInvisible ==
  Done => LET seq == RunNode(Root, 0, NoSpan, NoParent, [n \in Node |-> <<>>])
          IN out[Root] = seq.out /\ spans = seq.log

=============================================================================
