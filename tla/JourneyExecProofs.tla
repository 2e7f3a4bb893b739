------------------------- MODULE JourneyExecProofs --------------------------
(***************************************************************************)
(* Proofs about JourneyExec, for every plan that satisfies its assumptions.*)
(***************************************************************************)
EXTENDS JourneyExec, SequenceTheorems, WellFoundedInduction, TLAPS

LEMMA LeastNat ==
  ASSUME NEW T, T \subseteq Nat, T # {}
  PROVE  \E x \in T : \A y \in T : x <= y
<1> DEFINE R == OpToRel(<, Nat)
<1>1. \A y, x \in Nat : y < x => <<y, x>> \in R
  BY Zenon DEF OpToRel
<1>2. IsWellFoundedOn(R, Nat)
  BY NatLessThanWellFounded, Zenon
<1> HIDE DEF R
<1>3. PICK x \in T : \A y \in T : ~(<<y, x>> \in R)
  BY <1>2, WFMin, Zenon
<1>4. \A y \in T : ~(y < x)
  BY <1>1, <1>3
<1> QED
  BY <1>4

-----------------------------------------------------------------------------
(***************************************************************************)
(* Outcomes and spans.                                                     *)
(***************************************************************************)
LEMMA OutcomeTypes ==
  /\ \A lat \in Nat : Succeeded(lat) \in Outcome
  /\ \A e \in ErrorType, lat \in Nat : Failed(e, lat) \in Outcome
  /\ NoParent \in Outcome
  BY DEF Outcome, Succeeded, Failed, NoParent, ErrorType, Recovery

LEMMA OutcomeFields ==
  ASSUME NEW o \in Outcome
  PROVE  /\ o.ok \in BOOLEAN /\ o.err \in ErrorType /\ o.latency \in Nat
         /\ \A lat \in Nat : [o EXCEPT !.latency = lat] \in Outcome
  BY DEF Outcome

\* A field of a frame set to a value of its type keeps its type.
LEMMA FieldSet ==
  ASSUME NEW T, NEW f \in [Node -> T], NEW n \in Node, NEW v \in T
  PROVE  [f EXCEPT ![n] = v] \in [Node -> T]
OBVIOUS

LEMMA SkippedType == \A o \in Outcome : Skipped(o) \in Outcome
  BY DEF Outcome, Skipped, Failed, Recovery

LEMMA EarlyOutcomeType ==
  ASSUME NEW n \in Node, NEW d \in Die, NEW ended
  PROVE  EarlyOutcome(n, d, ended) \in Outcome
<1>1. d.latency \in Nat /\ Timeout[n] \in Nat
  BY PlanNumbers DEF Die
<1> QED
  BY <1>1, OutcomeTypes DEF EarlyOutcome, ErrorType

LEMMA SettledType ==
  ASSUME NEW n \in Node, NEW o \in Outcome, NEW spent \in Nat
  PROVE  Settled(n, o, spent) \in Outcome
  BY PlanNumbers DEF Settled, Outcome, ErrorType

LEMMA RecoveredType ==
  ASSUME NEW o \in Outcome, NEW how \in Recovery
  PROVE  Recovered(o, how) \in Outcome
  BY DEF Recovered, Outcome, ErrorType

LEMMA ExhaustedType ==
  ASSUME NEW n \in Node, NEW o \in Outcome
  PROVE  Exhausted(n, o) \in Outcome
<1>1. [o EXCEPT !.ok = FALSE, !.recovery = "exhausted"] \in Outcome
  BY DEF Outcome, Recovery
<1> QED
  BY <1>1, RecoveredType DEF Exhausted, Recovery

LEMMA NoDieType == NoDie \in Die
  BY DEF NoDie, Die

LEMMA NewSpanType ==
  ASSUME NEW kind \in {"work", "skip", "publish"}, NEW c \in Context, NEW k \in Nat,
         NEW s \in Nat, NEW o \in Outcome, NEW d \in Die
  PROVE  /\ NewSpan(kind, c, k, s, o, d) \in Span
         /\ [NewSpan(kind, c, k, s, o, d) EXCEPT !.open = TRUE] \in Span
<1>1. s + o.latency \in Nat /\ o.ok \in BOOLEAN /\ o.err \in ErrorType
  BY OutcomeFields
<1> QED
  BY <1>1 DEF NewSpan, Span

\* The first failing branch exists when a branch fails.
LEMMA FirstFailureType ==
  ASSUME NEW os \in Seq(Outcome), Failing(os) # {}
  PROVE  FirstFailure(os) \in Outcome
<1>1. Failing(os) \subseteq 1..Len(os)
  BY LenProperties DEF Failing
<1>2. \E i \in Failing(os) : \A j \in Failing(os) : i <= j
  BY <1>1, LenProperties, LeastNat
<1> DEFINE first == CHOOSE i \in Failing(os) : \A j \in Failing(os) : i <= j
<1>3. first \in Failing(os)
  BY <1>2
<1> QED
  BY <1>1, <1>3, ElementOfSeq DEF FirstFailure

LEMMA AggregateType ==
  ASSUME NEW os \in Seq(Outcome), NEW lat \in Nat
  PROVE  Aggregate(os, lat) \in Outcome
<1>1. CASE Failing(os) = {}
  BY <1>1, OutcomeTypes DEF Aggregate
<1>2. CASE Failing(os) # {}
  <2>1. FirstFailure(os).err \in ErrorType /\ FirstFailure(os).cascaded \in BOOLEAN
    BY <1>2, FirstFailureType DEF Outcome
  <2> QED
    BY <1>2, <2>1 DEF Aggregate, Failed, Outcome, Recovery
<1> QED
  BY <1>1, <1>2

-----------------------------------------------------------------------------
(***************************************************************************)
(* Types.  An attempt that has begun has a span: that keeps the contexts   *)
(* handed to its children, <<n, Len(spans[n])>>, names of spans.           *)
(***************************************************************************)
HasSpan == \A n \in Node : pc[n] \in {"begun", "children"} => Len(spans[n]) > 0
Typed == TypeOK /\ HasSpan

LEMMA FieldTypes ==
  ASSUME Typed, NEW n \in Node
  PROVE  /\ pc[n] \in PC /\ start[n] \in Nat /\ ctx[n] \in Context /\ up[n] \in Outcome
         /\ attempt[n] \in Nat /\ total[n] \in Nat /\ elapsed[n] \in Nat
         /\ idx[n] \in Nat \ {0} /\ die[n] \in Die /\ out[n] \in Outcome
         /\ spans[n] \in Seq(Span) /\ Len(spans[n]) \in Nat
  BY LenProperties DEF Typed, TypeOK

LEMMA CalleeType ==
  ASSUME Typed, NEW n \in Node, idx[n] <= Len(Loop(n))
  PROVE  /\ Callee(n) \in Node
         /\ pc[n] = "recovering" => Callee(n) \in FallbackSet(n)
         /\ pc[n] # "recovering" => Callee(n) \in KidSet(n)
<1>1. Loop(n) \in Seq(Node)
  BY PlanShape DEF Loop
<1>2. idx[n] \in 1..Len(Loop(n)) /\ DOMAIN Loop(n) = 1..Len(Loop(n))
  BY <1>1, FieldTypes, LenProperties
<1>3. Callee(n) \in Node
  BY <1>1, <1>2, ElementOfSeq DEF Callee
<1> QED
  BY <1>2, <1>3 DEF Callee, Loop, FallbackSet, KidSet

LEMMA KidsAreNodes ==
  ASSUME NEW n \in Node
  PROVE  KidSet(n) \subseteq Node /\ FallbackSet(n) \subseteq Node
<1>1. Kids[n] \in Seq(Node) /\ Fallbacks[n] \in Seq(Node)
  BY PlanShape
<1> QED
  BY <1>1, LenProperties, ElementOfSeq DEF KidSet, FallbackSet

LEMMA FinishType ==
  ASSUME Typed, NEW n \in Node, NEW o \in Outcome, Finish(n, o)
  PROVE  /\ spans' \in [Node -> Seq(Span)]
         /\ \A m \in Node : Len(spans'[m]) = Len(spans[m])
<1> DEFINE k == Len(spans[n])
           s == [spans[n][k] EXCEPT !.open = FALSE, !.end = AttemptStart(n) + o.latency,
                                    !.ok = o.ok, !.err = o.err]
<1>1. spans \in [Node -> Seq(Span)] /\ spans[n] \in Seq(Span) /\ k \in Nat
  BY FieldTypes DEF Typed, TypeOK
<1>2. spans' = [spans EXCEPT ![n] = [spans[n] EXCEPT ![k] = s]]
  BY <1>1 DEF Finish
<1>3. [spans[n] EXCEPT ![k] = s] \in Seq(Span) /\ Len([spans[n] EXCEPT ![k] = s]) = k
  <2>1. CASE k = 0
    <3>1. DOMAIN spans[n] = 1..0
      BY <1>1, <2>1, LenProperties
    <3>2. [spans[n] EXCEPT ![k] = s] = spans[n]
      BY <1>1, <2>1, <3>1, LenProperties
    <3> QED
      BY <1>1, <3>2
  <2>2. CASE k > 0
    <3>1. spans[n][k] \in Span
      BY <1>1, <2>2, ElementOfSeq
    <3>2. AttemptStart(n) + o.latency \in Nat /\ o.ok \in BOOLEAN /\ o.err \in ErrorType
      BY FieldTypes, OutcomeFields DEF AttemptStart
    <3>3. s \in Span
      BY <3>1, <3>2 DEF Span
    <3> QED
      BY <1>1, <2>2, <3>3, ExceptSeq
  <2> QED
    BY <1>1, <2>1, <2>2
<1> QED
  BY <1>1, <1>2, <1>3

LEMMA CallTypes ==
  ASSUME Typed, NEW n \in Node
  PROVE  /\ CallStart(n) \in Nat /\ CallContext(n) \in Context /\ CallParent(n) \in Outcome
         /\ AttemptStart(n) \in Nat
<1>1. CallStart(n) \in Nat /\ AttemptStart(n) \in Nat
  BY FieldTypes, OutcomeFields DEF CallStart, AttemptStart
<1>2. CallContext(n) \in Context
  BY FieldTypes DEF CallContext, OwnSpan, Context, Typed, HasSpan
<1>3. CallParent(n) \in Outcome
  BY FieldTypes, OutcomeTypes DEF CallParent
<1> QED
  BY <1>1, <1>2, <1>3

LEMMA CallTyped ==
  ASSUME Typed, NEW n \in Node, Call(n)
  PROVE  Typed'
<1>1. Callee(n) \in Node
  BY CalleeType DEF Call
<1>2. HasSpan'
  BY <1>1 DEF Typed, TypeOK, HasSpan, Call
<1>3. pc' \in [Node -> PC] /\ start' \in [Node -> Nat] /\ ctx' \in [Node -> Context]
  BY <1>1, CallTypes DEF Typed, TypeOK, Call, PC
<1>4. up' \in [Node -> Outcome] /\ attempt' \in [Node -> Nat] /\ total' \in [Node -> Nat]
  BY <1>1, CallTypes DEF Typed, TypeOK, Call
<1> QED
  BY <1>2, <1>3, <1>4 DEF Typed, TypeOK, Call

LEMMA StartGroupTyped ==
  ASSUME Typed, NEW n \in Node, StartGroup(n)
  PROVE  Typed'
<1>1. HasSpan'
  BY DEF Typed, TypeOK, HasSpan, StartGroup
<1>2. pc' \in [Node -> PC]
  BY DEF Typed, TypeOK, StartGroup, PC
<1>3. start' \in [Node -> Nat] /\ ctx' \in [Node -> Context] /\ up' \in [Node -> Outcome]
  BY DEF Typed, TypeOK, StartGroup
<1>4. attempt' \in [Node -> Nat] /\ total' \in [Node -> Nat]
  BY DEF Typed, TypeOK, StartGroup
<1> QED
  BY <1>1, <1>2, <1>3, <1>4 DEF Typed, TypeOK, StartGroup

LEMMA JoinGroupTyped ==
  ASSUME Typed, NEW n \in Node, JoinGroup(n)
  PROVE  Typed'
<1> DEFINE os == BranchOutcomes(n)
<1>1. os \in Seq(Outcome)
  <2>1. Kids[n] \in Seq(Node)
    BY PlanShape
  <2>2. Len(Kids[n]) \in Nat /\ DOMAIN Kids[n] = 1..Len(Kids[n])
    BY <2>1, LenProperties
  <2>3. \A i \in 1..Len(Kids[n]) : out[Kids[n][i]] \in Outcome
    BY <2>1, ElementOfSeq, FieldTypes
  <2>4. os = [i \in 1..Len(Kids[n]) |-> out[Kids[n][i]]]
    BY <2>2 DEF BranchOutcomes
  <2> QED
    BY <2>2, <2>3, <2>4
<1>2. PICK longest \in Latencies(os) : out' = [out EXCEPT ![n] = Aggregate(os, longest)]
  BY DEF JoinGroup
<1>3. longest \in Nat
  BY <1>1, ElementOfSeq, LenProperties, OutcomeFields DEF Latencies
<1>4. out' \in [Node -> Outcome]
  BY <1>1, <1>2, <1>3, AggregateType DEF Typed, TypeOK
<1>5. pc' \in [Node -> PC] /\ HasSpan'
  BY DEF Typed, TypeOK, HasSpan, JoinGroup, PC
<1> QED
  BY <1>4, <1>5 DEF Typed, TypeOK, JoinGroup

LEMMA SequenceTyped ==
  ASSUME Typed, NEW n \in Node, StartSequence(n) \/ StepReturned(n) \/ EndSequence(n)
  PROVE  Typed'
<1>1. CASE StartSequence(n)
  BY <1>1, OutcomeTypes DEF Typed, TypeOK, HasSpan, StartSequence, PC, Calling
<1>2. CASE StepReturned(n)
  <2>1. idx[n] <= Len(Loop(n)) /\ UNCHANGED <<start, ctx, attempt, total, die, spans, canceled>>
    BY <1>2 DEF StepReturned, Consume
  <2>2. Callee(n) \in Node
    BY <2>1, CalleeType
  <2>3. out[Callee(n)] \in Outcome /\ out[Callee(n)].latency \in Nat
    BY <2>2, FieldTypes, OutcomeFields
  <2>4. elapsed' \in [Node -> Nat] /\ out' \in [Node -> Outcome]
    <3>1. /\ elapsed' = [elapsed EXCEPT ![n] = elapsed[n] + out[Callee(n)].latency]
          /\ out' = [out EXCEPT ![n] = out[Callee(n)]]
      BY <1>2 DEF StepReturned
    <3>2. elapsed[n] + out[Callee(n)].latency \in Nat
      BY <2>3, FieldTypes
    <3>3. elapsed' \in [Node -> Nat]
      BY <3>1, <3>2, FieldSet DEF Typed, TypeOK
    <3>4. out' \in [Node -> Outcome]
      BY <2>3, <3>1, FieldSet DEF Typed, TypeOK
    <3> QED
      BY <3>3, <3>4
  <2>5. up' \in [Node -> Outcome]
    <3>1. up' = [up EXCEPT ![n] = IF out[Callee(n)].ok THEN up[n] ELSE out[Callee(n)]]
      BY <1>2 DEF StepReturned
    <3> QED
      BY <2>3, <3>1, FieldTypes DEF Typed, TypeOK
  <2>6. pc' \in [Node -> PC] /\ HasSpan' /\ idx' \in [Node -> Nat \ {0}]
    BY <1>2, <2>1, <2>2 DEF StepReturned, Typed, TypeOK, HasSpan, PC
  <2> QED
    BY <2>1, <2>4, <2>5, <2>6 DEF Typed, TypeOK
<1>3. CASE EndSequence(n)
  <2>1. out' \in [Node -> Outcome]
    BY <1>3, FieldTypes, OutcomeFields DEF Typed, TypeOK, EndSequence
  <2>2. pc' \in [Node -> PC] /\ HasSpan'
    BY <1>3 DEF Typed, TypeOK, HasSpan, EndSequence, PC
  <2> QED
    BY <1>3, <2>1, <2>2 DEF Typed, TypeOK, EndSequence
<1> QED
  BY <1>1, <1>2, <1>3

LEMMA SkipTyped ==
  ASSUME Typed, NEW n \in Node, Skip(n)
  PROVE  Typed'
<1>1. Skipped(up[n]) \in Outcome
  BY FieldTypes, SkippedType
<1>2. SkipSpan(ctx[n], start[n], up[n]) \in Span
  BY <1>1, FieldTypes, NewSpanType, NoDieType DEF SkipSpan
<1>3. spans' \in [Node -> Seq(Span)]
  BY <1>2, AppendProperties DEF Typed, TypeOK, Skip
<1>4. pc' \in [Node -> PC] /\ out' \in [Node -> Outcome]
  BY <1>1 DEF Typed, TypeOK, Skip, PC
<1>5. HasSpan'
  BY DEF Typed, TypeOK, HasSpan, Skip
<1> QED
  BY <1>3, <1>4, <1>5 DEF Typed, TypeOK, Skip

LEMMA BeginAttemptTyped ==
  ASSUME Typed, NEW n \in Node, BeginAttempt(n)
  PROVE  Typed'
<1>1. PICK d \in Dice[n] :
        /\ die' = [die EXCEPT ![n] = d]
        /\ spans' = [spans EXCEPT ![n] =
                       @ \o Published(n, ctx[n], attempt[n], AttemptStart(n)) \o <<OpenSpan(n, d)>>]
  BY DEF BeginAttempt
<1>2. d \in Die
  BY <1>1, PlanNumbers
<1>3. OpenSpan(n, d) \in Span
  BY <1>2, FieldTypes, CallTypes, NewSpanType, OutcomeTypes DEF OpenSpan
<1>4. PublishSpan(ctx[n], attempt[n], AttemptStart(n)) \in Span
  BY FieldTypes, CallTypes, NewSpanType, OutcomeTypes, NoDieType, PlanNumbers DEF PublishSpan
<1>5. Published(n, ctx[n], attempt[n], AttemptStart(n)) \in Seq(Span)
  BY <1>4 DEF Published
<1> DEFINE before == spans[n] \o Published(n, ctx[n], attempt[n], AttemptStart(n))
           new == before \o <<OpenSpan(n, d)>>
<1>6. before \in Seq(Span)
  BY <1>5, FieldTypes, ConcatProperties
<1>7. new \in Seq(Span) /\ Len(new) > 0
  <2> HIDE DEF before
  <2>1. <<OpenSpan(n, d)>> \in Seq(Span) /\ Len(<<OpenSpan(n, d)>>) = 1
    BY <1>3
  <2> QED
    BY <1>6, <2>1, ConcatProperties, LenProperties
<1>8. spans' = [spans EXCEPT ![n] = new]
  BY <1>1
<1> HIDE DEF new
<1>9. spans' \in [Node -> Seq(Span)] /\ die' \in [Node -> Die]
  BY <1>1, <1>2, <1>7, <1>8 DEF Typed, TypeOK
<1>10. pc' \in [Node -> PC]
  BY DEF Typed, TypeOK, BeginAttempt, PC
<1>11. HasSpan'
  BY <1>7, <1>8 DEF Typed, TypeOK, HasSpan, BeginAttempt
<1> QED
  BY <1>9, <1>10, <1>11 DEF Typed, TypeOK, BeginAttempt

LEMMA AttemptTyped ==
  ASSUME Typed, NEW n \in Node,
         AbortAttempt(n) \/ StartChildren(n) \/ ChildReturned(n) \/ FinishAttempt(n)
  PROVE  Typed'
<1>1. Early(n) \in Outcome /\ AttemptOutcome(n) \in Outcome
  BY FieldTypes, EarlyOutcomeType, OutcomeTypes DEF Early, AttemptOutcome, ErrorType
<1>2. ASSUME NEW o \in Outcome, Finish(n, o), out' = [out EXCEPT ![n] = o],
             pc' = [pc EXCEPT ![n] = "attempted"],
             UNCHANGED <<start, ctx, up, attempt, total, elapsed, idx, die, canceled>>
      PROVE  Typed'
  <2>1. /\ spans' \in [Node -> Seq(Span)]
        /\ \A m \in Node : Len(spans'[m]) = Len(spans[m])
    BY <1>2, FinishType
  <2>2. out' \in [Node -> Outcome] /\ pc' \in [Node -> PC]
    BY <1>2 DEF Typed, TypeOK, PC
  <2>3. HasSpan'
    BY <1>2, <2>1 DEF Typed, TypeOK, HasSpan
  <2> QED
    BY <1>2, <2>1, <2>2, <2>3 DEF Typed, TypeOK
<1>3. CASE AbortAttempt(n)
  BY <1>1, <1>2, <1>3 DEF AbortAttempt
<1>4. CASE FinishAttempt(n)
  BY <1>1, <1>2, <1>4 DEF FinishAttempt
<1>5. CASE StartChildren(n)
  <2>1. elapsed' \in [Node -> Nat] /\ idx' \in [Node -> Nat \ {0}]
    <3>1. elapsed' = [elapsed EXCEPT ![n] = die[n].latency] /\ idx' = [idx EXCEPT ![n] = 1]
      BY <1>5 DEF StartChildren
    <3>2. die[n].latency \in Nat
      BY FieldTypes DEF Die
    <3>3. elapsed' \in [Node -> Nat]
      BY <3>1, <3>2, FieldSet DEF Typed, TypeOK
    <3>4. idx' \in [Node -> Nat \ {0}]
      BY <3>1, FieldSet DEF Typed, TypeOK
    <3> QED
      BY <3>3, <3>4
  <2>2. pc' \in [Node -> PC] /\ HasSpan'
    BY <1>5 DEF StartChildren, Typed, TypeOK, HasSpan, PC, Calling
  <2> QED
    BY <1>5, <2>1, <2>2 DEF StartChildren, Typed, TypeOK
<1>6. CASE ChildReturned(n)
  <2>1. idx[n] <= Len(Loop(n)) /\ UNCHANGED <<start, ctx, attempt, total, die, spans, canceled>>
    BY <1>6 DEF ChildReturned, Consume
  <2>2. Callee(n) \in Node /\ Len(Kids[n]) \in Nat
    BY <2>1, CalleeType, PlanShape, LenProperties
  <2>3. out[Callee(n)].latency \in Nat
    BY <2>2, FieldTypes, OutcomeFields
  <2>4. elapsed' \in [Node -> Nat]
    <3>1. elapsed' = [elapsed EXCEPT ![n] = elapsed[n] + out[Callee(n)].latency]
      BY <1>6 DEF ChildReturned
    <3>2. elapsed[n] + out[Callee(n)].latency \in Nat
      BY <2>3, FieldTypes
    <3> QED
      BY <3>1, <3>2, FieldSet DEF Typed, TypeOK
  <2>5. idx' \in [Node -> Nat \ {0}]
    <3>1. idx' = [idx EXCEPT ![n] = IF out[Callee(n)].ok THEN idx[n] + 1 ELSE Len(Kids[n]) + 1]
      BY <1>6 DEF ChildReturned
    <3>2. idx[n] + 1 \in Nat \ {0} /\ Len(Kids[n]) + 1 \in Nat \ {0}
      BY <2>2, FieldTypes
    <3> QED
      BY <3>1, <3>2 DEF Typed, TypeOK
  <2>6. pc' \in [Node -> PC] /\ HasSpan'
    BY <1>6, <2>1, <2>2 DEF ChildReturned, Typed, TypeOK, HasSpan, PC
  <2> QED
    BY <1>6, <2>1, <2>4, <2>5, <2>6 DEF ChildReturned, Typed, TypeOK
<1> QED
  BY <1>3, <1>4, <1>5, <1>6

LEMMA RetryTyped ==
  ASSUME Typed, NEW n \in Node, AttemptSucceeded(n) \/ Retry(n) \/ GiveUp(n)
  PROVE  Typed'
<1>1. out[n].latency \in Nat /\ total[n] \in Nat /\ attempt[n] \in Nat /\ out[n] \in Outcome
  BY FieldTypes, OutcomeFields
<1>2. CASE AttemptSucceeded(n)
  <2>1. out' \in [Node -> Outcome]
    <3>1. out' = [out EXCEPT ![n] = [out[n] EXCEPT !.latency = out[n].latency + total[n]]]
      BY <1>2 DEF AttemptSucceeded
    <3>2. [out[n] EXCEPT !.latency = out[n].latency + total[n]] \in Outcome
      BY <1>1, OutcomeFields
    <3> QED
      BY <3>1, <3>2 DEF Typed, TypeOK
  <2>2. pc' \in [Node -> PC] /\ HasSpan'
    BY <1>2 DEF AttemptSucceeded, Typed, TypeOK, HasSpan, PC
  <2> QED
    BY <1>2, <2>1, <2>2 DEF AttemptSucceeded, Typed, TypeOK
<1>3. CASE Retry(n)
  <2>1. attempt[n] + 1 \in 1..Retries[n]
    BY <1>1, <1>3, PlanNumbers DEF Retry, LastAttempt
  <2>2. RetryDelay(n, attempt[n] + 1) \in Nat
    BY <2>1, DelaysDoNotWrap
  <2>3. attempt' \in [Node -> Nat] /\ total' \in [Node -> Nat]
    <3>1. /\ attempt' = [attempt EXCEPT ![n] = attempt[n] + 1]
          /\ total' = [total EXCEPT ![n] =
                         total[n] + out[n].latency + RetryDelay(n, attempt[n] + 1)]
      BY <1>3 DEF Retry
    <3>2. attempt[n] + 1 \in Nat /\ total[n] + out[n].latency + RetryDelay(n, attempt[n] + 1) \in Nat
      BY <1>1, <2>2
    <3>3. attempt' \in [Node -> Nat]
      BY <3>1, <3>2, FieldSet DEF Typed, TypeOK
    <3>4. total' \in [Node -> Nat]
      BY <3>1, <3>2, FieldSet DEF Typed, TypeOK
    <3> QED
      BY <3>3, <3>4
  <2>4. pc' \in [Node -> PC] /\ HasSpan'
    BY <1>3 DEF Retry, Typed, TypeOK, HasSpan, PC
  <2> QED
    BY <1>3, <2>3, <2>4 DEF Retry, Typed, TypeOK
<1>4. CASE GiveUp(n)
  <2>1. Settled(n, out[n], total[n] + out[n].latency) \in Outcome
    BY <1>1, SettledType
  <2>2. out' \in [Node -> Outcome] /\ idx' \in [Node -> Nat \ {0}]
    BY <1>4, <2>1 DEF GiveUp, Typed, TypeOK
  <2>3. pc' \in [Node -> PC] /\ HasSpan'
    BY <1>4 DEF GiveUp, Typed, TypeOK, HasSpan, PC, Calling
  <2> QED
    BY <1>4, <2>2, <2>3 DEF GiveUp, Typed, TypeOK
<1> QED
  BY <1>2, <1>3, <1>4

LEMMA RecoveryTyped ==
  ASSUME Typed, NEW n \in Node, FallbackReturned(n) \/ Exhaust(n)
  PROVE  Typed'
<1>1. CASE FallbackReturned(n)
  <2> DEFINE waited == [out[n] EXCEPT !.latency = out[n].latency + out[Callee(n)].latency]
  <2>1. /\ idx[n] <= Len(Loop(n)) /\ UNCHANGED <<start, ctx, attempt, total, die, spans, canceled>>
        /\ UNCHANGED <<up, elapsed>> /\ idx' = [idx EXCEPT ![n] = @ + 1]
    BY <1>1 DEF FallbackReturned, Consume
  <2>2. Callee(n) \in Node
    BY <2>1, CalleeType
  <2>3. waited \in Outcome
    <3>1. out[n] \in Outcome /\ out[n].latency + out[Callee(n)].latency \in Nat
      BY <2>2, FieldTypes, OutcomeFields
    <3> QED
      BY <3>1, OutcomeFields
  <2>4. out' = [out EXCEPT ![n] = Recovered(waited, "fallback")] \/ out' = [out EXCEPT ![n] = waited]
    BY <1>1 DEF FallbackReturned
  <2> HIDE DEF waited
  <2>5. out' \in [Node -> Outcome]
    BY <2>3, <2>4, RecoveredType DEF Typed, TypeOK, Recovery
  <2>6. pc' \in [Node -> PC] /\ HasSpan'
    <3>1. \/ pc' = [pc EXCEPT ![n] = "settled", ![Callee(n)] = "idle"]
          \/ pc' = [pc EXCEPT ![Callee(n)] = "idle"]
      BY <1>1 DEF FallbackReturned
    <3> QED
      BY <2>1, <2>2, <3>1 DEF Typed, TypeOK, HasSpan, PC
  <2>7. idx' \in [Node -> Nat \ {0}]
    BY <2>1, FieldTypes DEF Typed, TypeOK
  <2> QED
    BY <2>1, <2>5, <2>6, <2>7 DEF Typed, TypeOK
<1>2. CASE Exhaust(n)
  <2>1. out' \in [Node -> Outcome]
    BY <1>2, FieldTypes, ExhaustedType DEF Exhaust, Typed, TypeOK
  <2>2. pc' \in [Node -> PC] /\ HasSpan'
    BY <1>2 DEF Exhaust, Typed, TypeOK, HasSpan, PC
  <2> QED
    BY <1>2, <2>1, <2>2 DEF Exhaust, Typed, TypeOK
<1> QED
  BY <1>1, <1>2

LEMMA CascadeTyped ==
  ASSUME Typed, NEW n \in Node, StartCascade(n) \/ SkippedReturned(n) \/ Return(n)
  PROVE  Typed'
<1>1. CASE StartCascade(n)
  <2>1. elapsed' \in [Node -> Nat] /\ idx' \in [Node -> Nat \ {0}]
    BY <1>1, FieldTypes, OutcomeFields DEF StartCascade, Typed, TypeOK
  <2>2. pc' \in [Node -> PC] /\ HasSpan'
    BY <1>1 DEF StartCascade, Typed, TypeOK, HasSpan, PC, Calling
  <2> QED
    BY <1>1, <2>1, <2>2 DEF StartCascade, Typed, TypeOK
<1>2. CASE SkippedReturned(n)
  <2>1. idx[n] <= Len(Loop(n)) /\ UNCHANGED <<start, ctx, attempt, total, die, spans, canceled>>
    BY <1>2 DEF SkippedReturned, Consume
  <2>2. Callee(n) \in Node
    BY <2>1, CalleeType
  <2>3. elapsed' \in [Node -> Nat] /\ idx' \in [Node -> Nat \ {0}]
    <3>1. elapsed[n] + out[Callee(n)].latency \in Nat /\ idx[n] + 1 \in Nat \ {0}
      BY <2>2, FieldTypes, OutcomeFields
    <3> QED
      BY <1>2, <3>1 DEF SkippedReturned, Typed, TypeOK
  <2>4. pc' \in [Node -> PC] /\ HasSpan'
    BY <1>2, <2>1, <2>2 DEF SkippedReturned, Typed, TypeOK, HasSpan, PC
  <2> QED
    BY <1>2, <2>1, <2>3, <2>4 DEF SkippedReturned, Typed, TypeOK
<1>3. CASE Return(n)
  <2>1. pc' \in [Node -> PC] /\ HasSpan'
    BY <1>3 DEF Return, Typed, TypeOK, HasSpan, PC
  <2> QED
    BY <1>3, <2>1 DEF Return, Typed, TypeOK
<1> QED
  BY <1>1, <1>2, <1>3

LEMMA InitTyped == Init => Typed
<1> SUFFICES ASSUME Init PROVE Typed
  OBVIOUS
<1>1. canceled \in BOOLEAN
  BY Zenon DEF Init
<1>2. /\ pc \in [Node -> PC] /\ HasSpan
  BY DEF Init, PC, HasSpan
<1>3. /\ up \in [Node -> Outcome] /\ out \in [Node -> Outcome] /\ die \in [Node -> Die]
      /\ spans \in [Node -> Seq(Span)]
  BY OutcomeTypes, NoDieType, EmptySeq DEF Init
<1> QED
  BY <1>1, <1>2, <1>3 DEF Init, Typed, TypeOK, Context

LEMMA TypedStep == Typed /\ [Next]_vars => Typed'
<1> SUFFICES ASSUME Typed, [Next]_vars PROVE Typed'
  OBVIOUS
<1>1. ASSUME NEW n \in Node, Step(n) PROVE Typed'
  BY <1>1, CallTyped, StartGroupTyped, JoinGroupTyped, SequenceTyped, SkipTyped,
     BeginAttemptTyped, AttemptTyped, RetryTyped, RecoveryTyped, CascadeTyped DEF Step
<1>2. CASE Cancel
  BY <1>2 DEF Cancel, frame, Typed, TypeOK, HasSpan
<1>3. CASE UNCHANGED vars
  BY <1>3 DEF vars, Typed, TypeOK, HasSpan
<1> QED
  BY <1>1, <1>2, <1>3 DEF Next, Finished

LEMMA TypedAlways == Spec => []Typed
  BY InitTyped, TypedStep, PTL DEF Spec

\* Frames, outcomes and spans keep their shapes for every plan: in particular the
\* simulated times never go below zero and every context names a span.
THEOREM TypeCorrect == Spec => []TypeOK
<1>1. Typed => TypeOK
  BY DEF Typed
<1> QED
  BY TypedAlways, <1>1, PTL

-----------------------------------------------------------------------------
(***************************************************************************)
(* Callers and callees.  The plan is a tree, so a frame has one caller,    *)
(* and that caller stands where it waits for the frame; the frame's        *)
(* context is the one that caller hands out there.                         *)
(***************************************************************************)
Linked ==
  \A p \in Node : \A c \in Callees(p) :
    pc[c] # "idle" => Serves(p, c) /\ ctx[c] = CallContext(p)

RootFree == pc[Root] # "idle" /\ ctx[Root] = NoSpan

NoCallees(n) == \A c \in Callees(n) : pc[c] = "idle"

LEMMA Tree ==
  /\ \A n \in Node : n \notin Callees(n) /\ Callees(n) \subseteq Node /\ Root \notin Callees(n)
  /\ \A m, n \in Node : m # n => Callees(m) \cap Callees(n) = {}
<1>1. \A n \in Node : Callees(n) \subseteq Node
  BY KidsAreNodes DEF Callees
<1>2. \A n \in Node : n \notin Callees(n)
  <2> SUFFICES ASSUME NEW n \in Node, n \in Callees(n) PROVE FALSE
    OBVIOUS
  <2>1. Depth[n] < Depth[n] /\ Depth[n] \in Nat
    BY PlanIsTree
  <2> QED
    BY <2>1
<1> QED
  BY <1>1, <1>2, PlanIsTree

\* Nothing runs below a frame that is neither joining nor inside one of its loops.
LEMMA NotServing ==
  ASSUME Linked, NEW n \in Node,
         pc[n] # "joining",
         pc[n] \notin Calling \/ ~(idx[n] <= Len(Loop(n)))
  PROVE  NoCallees(n)
  BY DEF Linked, Serves, NoCallees

\* A step that only moves the frame of n, while nothing runs below it.
LEMMA LocalStepLinked ==
  ASSUME Typed, Linked, NEW n \in Node, pc[n] # "idle", NoCallees(n),
         NEW x, pc' = [pc EXCEPT ![n] = x], UNCHANGED ctx,
         \A m \in Node : m # n => idx'[m] = idx[m] /\ Len(spans'[m]) = Len(spans[m])
  PROVE  Linked'
<1> SUFFICES ASSUME NEW p \in Node, NEW c \in Callees(p), pc'[c] # "idle"
             PROVE  Serves(p, c)' /\ ctx'[c] = CallContext(p)'
  BY DEF Linked
<1>1. c \in Node /\ c # p
  BY Tree
<1>2. pc \in [Node -> PC]
  BY DEF Typed, TypeOK
<1>3. pc[c] # "idle"
  BY <1>1, <1>2
<1>4. p # n
  BY <1>3 DEF NoCallees
<1>5. pc'[p] = pc[p] /\ idx'[p] = idx[p] /\ Len(spans'[p]) = Len(spans[p])
  BY <1>2, <1>4
<1>6. Serves(p, c) /\ ctx[c] = CallContext(p)
  BY <1>3 DEF Linked
<1> QED
  BY <1>5, <1>6 DEF Serves, Loop, Callee, CallContext, OwnSpan

LEMMA CallLinked ==
  ASSUME Typed, Linked, NEW n \in Node, Call(n)
  PROVE  Linked'
<1> DEFINE e == Callee(n)
<1>1. pc \in [Node -> PC] /\ ctx \in [Node -> Context]
  BY DEF Typed, TypeOK
<1>2. e \in Callees(n) /\ e \in Node /\ e # n
  BY CalleeType, Tree DEF Call, Callees
<1>3. /\ pc[n] \in Calling /\ idx[n] <= Len(Loop(n)) /\ pc[e] = "idle"
      /\ pc' = [pc EXCEPT ![e] = "entered"] /\ ctx' = [ctx EXCEPT ![e] = CallContext(n)]
      /\ UNCHANGED <<idx, spans>>
  BY DEF Call
<1> HIDE DEF e
<1> SUFFICES ASSUME NEW p \in Node, NEW c \in Callees(p), pc'[c] # "idle"
             PROVE  Serves(p, c)' /\ ctx'[c] = CallContext(p)'
  BY DEF Linked
<1>4. c \in Node /\ c # p
  BY Tree
<1>5. CASE c = e
  <2>1. p = n
    BY <1>2, <1>5, Tree
  <2>2. pc'[n] = pc[n] /\ ctx'[n] = ctx[n] /\ ctx'[e] = CallContext(n)
    BY <1>1, <1>2, <1>3
  <2>3. Callee(n)' = e /\ Loop(n)' = Loop(n) /\ CallContext(n)' = CallContext(n)
    BY <1>3, <2>2 DEF Callee, Loop, CallContext, OwnSpan, e
  <2> QED
    BY <1>3, <1>5, <2>1, <2>2, <2>3 DEF Serves
<1>6. CASE c # e
  <2>1. Serves(p, c) /\ ctx[c] = CallContext(p) /\ pc[c] # "idle"
    BY <1>1, <1>3, <1>4, <1>6 DEF Linked
  <2>2. p # e
    BY <1>3, <2>1 DEF Serves, Calling
  <2>3. pc'[p] = pc[p] /\ ctx'[p] = ctx[p] /\ ctx'[c] = ctx[c]
    BY <1>1, <1>2, <1>3, <1>4, <1>6, <2>2
  <2> QED
    BY <1>3, <2>1, <2>3 DEF Serves, Loop, Callee, CallContext, OwnSpan
<1> QED
  BY <1>5, <1>6

\* A loop takes its callee's outcome.
LEMMA ConsumeLinked ==
  ASSUME Typed, Linked, NEW n \in Node, pc[n] \in Calling, Consume(n),
         pc'[Callee(n)] = "idle",
         \A m \in Node : m # n => idx'[m] = idx[m] /\ (m # Callee(n) => pc'[m] = pc[m])
  PROVE  Linked'
<1> DEFINE e == Callee(n)
<1>1. e \in Callees(n) /\ e \in Node /\ e # n
  BY CalleeType, Tree DEF Consume, Callees
<1>2. pc[e] = "returned" /\ UNCHANGED <<ctx, spans>>
  BY DEF Consume
<1>3. /\ pc'[e] = "idle"
      /\ \A m \in Node : m # n => idx'[m] = idx[m] /\ (m # e => pc'[m] = pc[m])
  OBVIOUS
<1>4. \A c \in Callees(n) : pc[c] # "idle" => c = e
  BY DEF Linked, Serves, Calling
<1> HIDE DEF e
<1> SUFFICES ASSUME NEW p \in Node, NEW c \in Callees(p), pc'[c] # "idle"
             PROVE  Serves(p, c)' /\ ctx'[c] = CallContext(p)'
  BY DEF Linked
<1>5. c \in Node /\ c # p /\ c # e
  BY <1>3, Tree
<1>6. pc[c] # "idle"
  BY <1>3, <1>5 DEF Calling
<1>7. p # n
  BY <1>3, <1>4, <1>5, <1>6
<1>8. Serves(p, c) /\ ctx[c] = CallContext(p)
  BY <1>6 DEF Linked
<1>9. p # e
  BY <1>2, <1>8 DEF Serves, Calling
<1>10. pc'[p] = pc[p] /\ idx'[p] = idx[p]
  BY <1>3, <1>7, <1>9, Zenon
<1> QED
  BY <1>2, <1>8, <1>10 DEF Serves, Loop, Callee, CallContext, OwnSpan

LEMMA GroupLinked ==
  ASSUME Typed, Linked, NEW n \in Node, StartGroup(n) \/ JoinGroup(n)
  PROVE  Linked'
<1> DEFINE K == KidSet(n)
<1>1. pc \in [Node -> PC] /\ ctx \in [Node -> Context]
  BY DEF Typed, TypeOK
<1>2. K \subseteq Callees(n) /\ K \subseteq Node /\ n \notin K
  BY KidsAreNodes, Tree DEF Callees
<1>3. UNCHANGED <<idx, spans>> /\ pc[n] \in {"entered", "joining"}
  BY DEF StartGroup, JoinGroup
<1>4. \A k \in K : NoCallees(k)
  <2> SUFFICES ASSUME NEW k \in K PROVE NoCallees(k)
    OBVIOUS
  <2>1. pc[k] \in {"idle", "returned"}
    BY <1>2, NotServing DEF StartGroup, JoinGroup, NoCallees, Calling, BranchesDone
  <2> QED
    BY <1>2, <2>1, NotServing DEF Calling
<1> SUFFICES ASSUME NEW p \in Node, NEW c \in Callees(p), pc'[c] # "idle"
             PROVE  Serves(p, c)' /\ ctx'[c] = CallContext(p)'
  BY DEF Linked
<1>5. c \in Node /\ c # p
  BY Tree
<1>6. ASSUME c \notin K, p # n PROVE Serves(p, c)' /\ ctx'[c] = CallContext(p)'
  <2>1. pc[c] # "idle" /\ ctx'[c] = ctx[c]
    BY <1>1, <1>3, <1>5, <1>6 DEF StartGroup, JoinGroup
  <2>2. Serves(p, c) /\ ctx[c] = CallContext(p)
    BY <2>1 DEF Linked
  <2>3. p \notin K
    BY <1>4, <2>1 DEF NoCallees
  <2>4. pc'[p] = pc[p] /\ ctx'[p] = ctx[p]
    BY <1>1, <1>6, <2>3 DEF StartGroup, JoinGroup
  <2> QED
    BY <1>3, <2>1, <2>2, <2>4 DEF Serves, Loop, Callee, CallContext, OwnSpan
<1>7. ASSUME p = n PROVE Serves(p, c)' /\ ctx'[c] = CallContext(p)'
  <2>1. CASE StartGroup(n)
    <3>1. pc[c] = "idle"
      BY <1>7, <2>1, NotServing DEF StartGroup, NoCallees, Calling
    <3>2. c \in K
      BY <1>1, <1>5, <1>7, <2>1, <3>1 DEF StartGroup
    <3> QED
      BY <1>1, <1>2, <1>5, <1>7, <2>1, <3>2 DEF StartGroup, Serves, CallContext
  <2>2. CASE JoinGroup(n)
    <3>1. c \notin K
      BY <1>1, <1>2, <1>5, <2>2 DEF JoinGroup
    <3>2. pc[c] # "idle"
      BY <1>1, <1>5, <1>7, <2>2, <3>1 DEF JoinGroup
    <3>3. Serves(n, c)
      BY <1>7, <3>2 DEF Linked
    <3> QED
      BY <2>2, <3>1, <3>3 DEF Serves, JoinGroup, Calling
  <2> QED
    BY <2>1, <2>2
<1>8. c \in K => p = n
  BY <1>2, Tree
<1> QED
  BY <1>6, <1>7, <1>8

\* The actions that move one frame and start or end no call.
Local(n) ==
  \/ StartSequence(n) \/ EndSequence(n) \/ Skip(n)
  \/ BeginAttempt(n) \/ AbortAttempt(n) \/ StartChildren(n) \/ FinishAttempt(n)
  \/ AttemptSucceeded(n) \/ Retry(n) \/ GiveUp(n)
  \/ Exhaust(n) \/ StartCascade(n) \/ Return(n)

LEMMA LocalEffect ==
  ASSUME Typed, Linked, NEW n \in Node, Local(n)
  PROVE  /\ pc[n] # "idle" /\ NoCallees(n)
         /\ \E x \in PC \ {"idle"} : pc' = [pc EXCEPT ![n] = x]
         /\ UNCHANGED <<start, ctx, canceled>>
         /\ \A m \in Node : m # n => idx'[m] = idx[m] /\ spans'[m] = spans[m]
<1> USE DEF PC, Calling
<1>1. pc[n] # "idle" /\ pc[n] # "joining"
  BY DEF Local, StartSequence, EndSequence, Skip, BeginAttempt, AbortAttempt, StartChildren,
     FinishAttempt, AttemptSucceeded, Retry, GiveUp, Exhaust, StartCascade, Return
<1>2. pc[n] \notin Calling \/ ~(idx[n] <= Len(Loop(n)))
  <2>1. CASE EndSequence(n) \/ FinishAttempt(n) \/ Exhaust(n) \/ Return(n)
    <3>1. Len(Loop(n)) \in Nat /\ idx[n] \in Nat
      BY PlanShape, FieldTypes, LenProperties DEF Loop
    <3>2. pc[n] = "settled" \/ idx[n] > Len(Loop(n))
      BY <2>1 DEF EndSequence, FinishAttempt, Exhaust, Return, Loop
    <3> QED
      BY <3>1, <3>2
  <2>2. CASE pc[n] \notin Calling
    BY <2>2
  <2> QED
    BY <2>1, <2>2 DEF Local, StartSequence, Skip, BeginAttempt, AbortAttempt, StartChildren,
       AttemptSucceeded, Retry, GiveUp, StartCascade
<1>3. \E x \in PC \ {"idle"} : pc' = [pc EXCEPT ![n] = x]
  BY DEF Local, StartSequence, EndSequence, Skip, BeginAttempt, AbortAttempt, StartChildren,
     FinishAttempt, AttemptSucceeded, Retry, GiveUp, Exhaust, StartCascade, Return
<1>4. UNCHANGED <<start, ctx, canceled>>
  BY DEF Local, StartSequence, EndSequence, Skip, BeginAttempt, AbortAttempt, StartChildren,
     FinishAttempt, AttemptSucceeded, Retry, GiveUp, Exhaust, StartCascade, Return
<1>5. \A m \in Node : m # n => idx'[m] = idx[m]
  BY DEF Typed, TypeOK, Local, StartSequence, EndSequence, Skip, BeginAttempt, AbortAttempt,
     StartChildren, FinishAttempt, AttemptSucceeded, Retry, GiveUp, Exhaust, StartCascade, Return
<1>6. \A m \in Node : m # n => spans'[m] = spans[m]
  <2>1. \/ UNCHANGED spans
        \/ \E s : spans' = [spans EXCEPT ![n] = s]
    <3>1. CASE AbortAttempt(n) \/ FinishAttempt(n)
      BY <3>1 DEF AbortAttempt, FinishAttempt, Finish
    <3>2. CASE BeginAttempt(n)
      BY <3>2 DEF BeginAttempt
    <3>3. CASE Skip(n)
      BY <3>3 DEF Skip
    <3> QED
      BY <3>1, <3>2, <3>3 DEF Local, StartSequence, EndSequence, StartChildren,
         AttemptSucceeded, Retry, GiveUp, Exhaust, StartCascade, Return
  <2> QED
    BY <2>1 DEF Typed, TypeOK
<1> QED
  BY <1>1, <1>2, <1>3, <1>4, <1>5, <1>6, NotServing

LEMMA ConsumeEffect ==
  ASSUME Typed, NEW n \in Node,
         StepReturned(n) \/ ChildReturned(n) \/ FallbackReturned(n) \/ SkippedReturned(n)
  PROVE  /\ pc[n] \in Calling /\ Consume(n) /\ Callee(n) \in Callees(n)
         /\ pc'[Callee(n)] = "idle"
         /\ pc[n] # "recovering" => pc'[n] = pc[n]
         /\ pc[n] = "recovering" => pc'[n] \in {"recovering", "settled"}
         /\ \A m \in Node : m # n => idx'[m] = idx[m] /\ (m # Callee(n) => pc'[m] = pc[m])
<1>1. pc[n] \in Calling /\ Consume(n)
  BY DEF StepReturned, ChildReturned, FallbackReturned, SkippedReturned, Calling
<1>2. Callee(n) \in Node /\ Callee(n) \in Callees(n) /\ Callee(n) # n
  BY <1>1, CalleeType, Tree DEF Consume, Callees
<1>3. \/ pc' = [pc EXCEPT ![Callee(n)] = "idle"]
      \/ pc[n] = "recovering" /\ pc' = [pc EXCEPT ![n] = "settled", ![Callee(n)] = "idle"]
  BY DEF StepReturned, ChildReturned, FallbackReturned, SkippedReturned
<1>4. \E x : idx' = [idx EXCEPT ![n] = x]
  BY DEF StepReturned, ChildReturned, FallbackReturned, SkippedReturned
<1> QED
  BY <1>1, <1>2, <1>3, <1>4 DEF Typed, TypeOK

LEMMA LinkedStep == Typed /\ Linked /\ [Next]_vars => Linked'
<1> SUFFICES ASSUME Typed, Linked, [Next]_vars PROVE Linked'
  OBVIOUS
<1>1. ASSUME NEW n \in Node, Local(n) PROVE Linked'
  <2>1. PICK x \in PC \ {"idle"} : pc' = [pc EXCEPT ![n] = x]
    BY <1>1, LocalEffect
  <2>2. /\ pc[n] # "idle" /\ NoCallees(n) /\ UNCHANGED ctx
        /\ \A m \in Node : m # n => idx'[m] = idx[m] /\ Len(spans'[m]) = Len(spans[m])
    BY <1>1, LocalEffect
  <2> QED
    BY <2>1, <2>2, LocalStepLinked
<1>2. ASSUME NEW n \in Node,
             StepReturned(n) \/ ChildReturned(n) \/ FallbackReturned(n) \/ SkippedReturned(n)
      PROVE  Linked'
  BY <1>2, ConsumeEffect, ConsumeLinked
<1>3. CASE Cancel \/ UNCHANGED vars
  BY <1>3 DEF Cancel, frame, vars, Linked, Serves, Loop, Callee, CallContext, OwnSpan
<1> QED
  BY <1>1, <1>2, <1>3, CallLinked, GroupLinked DEF Next, Step, Local, Finished

LEMMA RootFreeStep == Typed /\ Linked /\ RootFree /\ [Next]_vars => RootFree'
<1> SUFFICES ASSUME Typed, Linked, RootFree, [Next]_vars PROVE RootFree'
  OBVIOUS
<1> USE PlanShape DEF RootFree
<1>1. pc \in [Node -> PC] /\ ctx \in [Node -> Context]
  BY DEF Typed, TypeOK
<1>2. ASSUME NEW n \in Node, Local(n) PROVE RootFree'
  BY <1>1, <1>2, LocalEffect
<1>3. ASSUME NEW n \in Node, Call(n) PROVE RootFree'
  <2>1. Callee(n) # Root
    BY <1>3, CalleeType, Tree DEF Call, Callees
  <2> QED
    BY <1>1, <1>3, <2>1 DEF Call
<1>4. ASSUME NEW n \in Node,
             StepReturned(n) \/ ChildReturned(n) \/ FallbackReturned(n) \/ SkippedReturned(n)
      PROVE  RootFree'
  <2>1. Callee(n) # Root /\ UNCHANGED ctx
    BY <1>4, ConsumeEffect, Tree DEF Consume
  <2>2. pc'[Root] = pc[Root] \/ (n = Root /\ pc'[n] \in {"recovering", "settled"})
    BY <1>4, <2>1, ConsumeEffect
  <2> QED
    BY <2>1, <2>2
<1>5. ASSUME NEW n \in Node, StartGroup(n) \/ JoinGroup(n) PROVE RootFree'
  <2>1. Root \notin KidSet(n)
    BY Tree DEF Callees
  <2> QED
    BY <1>1, <1>5, <2>1 DEF StartGroup, JoinGroup
<1>6. CASE Cancel \/ UNCHANGED vars
  BY <1>6 DEF Cancel, frame, vars
<1> QED
  BY <1>2, <1>3, <1>4, <1>5, <1>6 DEF Next, Step, Local, Finished

LEMMA InitLinked == Init => Linked /\ RootFree
<1> SUFFICES ASSUME Init PROVE Linked /\ RootFree
  OBVIOUS
<1>1. \A p \in Node : \A c \in Callees(p) : pc[c] = "idle"
  BY Tree DEF Init
<1> QED
  BY <1>1, PlanShape DEF Init, Linked, RootFree

LEMMA LinkedAlways == Spec => [](Linked /\ RootFree)
  BY InitLinked, LinkedStep, RootFreeStep, TypedAlways, PTL DEF Spec

\* At most one frame per call site: whatever interleaving the goroutines of the
\* groups take, a frame that exists is the one its caller is blocked on.
THEOREM CallDisciplineCorrect == Spec => []CallDiscipline
<1>1. Linked => CallDiscipline
  BY DEF Linked, CallDiscipline
<1> QED
  BY LinkedAlways, <1>1, PTL

-----------------------------------------------------------------------------
(***************************************************************************)
(* What the spans of a journey tell, for every plan: they nest, their      *)
(* times add up, and they explain the failures (SpansNest, TimesAddUp and  *)
(* FailuresExplained of JourneyExec).                                      *)
(*                                                                         *)
(* The argument follows the frames.  A frame that runs is the one its      *)
(* caller waits for (Linked) and holds what its caller gave it (Given), so *)
(* what a frame knows of its own attempts reaches its caller unchanged.    *)
(***************************************************************************)
\* The last span of a node, and the frames that have theirs open.
Current(n) == spans[n][Len(spans[n])]
InSpan(n) == pc[n] \in {"begun", "children"}

\* finishAndEmitAt on a span s of n, for outcome o.
Ended(n, s, o) == [s EXCEPT !.open = FALSE, !.end = AttemptStart(n) + o.latency,
                            !.ok = o.ok, !.err = o.err]

-----------------------------------------------------------------------------
(***************************************************************************)
(* What a step does to the spans.                                          *)
(***************************************************************************)
LEMMA SpanSeq ==
  ASSUME Typed, NEW n \in Node
  PROVE  /\ DOMAIN spans[n] = 1..Len(spans[n]) /\ Len(spans[n]) \in Nat
         /\ \A i \in DOMAIN spans[n] : spans[n][i] \in Span /\ i \in Nat \ {0}
         /\ InSpan(n) => Len(spans[n]) \in DOMAIN spans[n] /\ Current(n) \in Span
<1>1. spans[n] \in Seq(Span)
  BY FieldTypes
<1>2. DOMAIN spans[n] = 1..Len(spans[n]) /\ Len(spans[n]) \in Nat
  BY <1>1, LenProperties
<1>3. \A i \in DOMAIN spans[n] : spans[n][i] \in Span /\ i \in Nat \ {0}
  BY <1>1, <1>2, ElementOfSeq
<1>4. InSpan(n) => Len(spans[n]) \in DOMAIN spans[n]
  BY <1>2 DEF InSpan, Typed, HasSpan
<1> QED
  BY <1>2, <1>3, <1>4 DEF Current

LEMMA SpanFields ==
  ASSUME NEW s \in Span
  PROVE  /\ s.kind \in {"work", "skip", "publish"} /\ s.parent \in Context /\ s.attempt \in Nat
         /\ s.open \in BOOLEAN /\ s.start \in Nat /\ s.end \in Nat /\ s.ok \in BOOLEAN
  BY DEF Span

\* The spans a step may begin.
IsSkip(n, s) ==
  /\ s.kind = "skip" /\ s.parent = ctx[n] /\ ~s.open
  /\ s.start = start[n] /\ s.end = start[n] /\ ~s.ok

IsPublish(n, s) ==
  /\ s.kind = "publish" /\ s.parent = ctx[n] /\ ~s.open
  /\ s.start = AttemptStart(n) /\ s.end = AttemptStart(n) + PublishLatency

IsOpened(n, s) ==
  /\ s.kind = "work" /\ s.parent = ctx[n] /\ s.open /\ s.attempt = attempt[n]
  /\ s.start = AttemptStart(n) /\ s.end = AttemptStart(n)

LEMMA SkipEffect ==
  ASSUME Typed, NEW n \in Node, Skip(n)
  PROVE  /\ Len(spans'[n]) = Len(spans[n]) + 1
         /\ \A i \in DOMAIN spans[n] : spans'[n][i] = spans[n][i]
         /\ IsSkip(n, spans'[n][Len(spans'[n])])
<1> DEFINE s == SkipSpan(ctx[n], start[n], up[n])
<1>1. spans \in [Node -> Seq(Span)] /\ spans[n] \in Seq(Span) /\ start[n] \in Nat
  BY FieldTypes DEF Typed, TypeOK
<1>2. IsSkip(n, s)
  <2>1. Skipped(up[n]).latency = 0 /\ Skipped(up[n]).ok = FALSE
    BY DEF Skipped, Failed
  <2> QED
    BY <1>1, <2>1 DEF SkipSpan, NewSpan, IsSkip
<1> HIDE DEF s
<1>3. spans'[n] = Append(spans[n], s)
  BY <1>1 DEF Skip, s
<1> QED
  BY <1>1, <1>2, <1>3, LenProperties

LEMMA OneMore ==
  ASSUME NEW T, NEW s \in Seq(T), NEW e \in T
  PROVE  /\ s \o <<e>> \in Seq(T) /\ Len(s \o <<e>>) = Len(s) + 1 /\ Len(s) \in Nat
         /\ \A i \in DOMAIN s : (s \o <<e>>)[i] = s[i] /\ i \in DOMAIN (s \o <<e>>)
         /\ (s \o <<e>>)[Len(s) + 1] = e
<1>1. s \o <<e>> = Append(s, e)
  BY AppendIsConcat
<1> QED
  BY <1>1, AppendProperties, LenProperties

LEMMA BeginEffect ==
  ASSUME Typed, NEW n \in Node, BeginAttempt(n)
  PROVE  /\ Len(spans'[n]) = Len(spans[n]) + (IF n \in Messaging THEN 2 ELSE 1)
         /\ \A i \in DOMAIN spans[n] : spans'[n][i] = spans[n][i]
         /\ n \in Messaging => IsPublish(n, spans'[n][Len(spans[n]) + 1])
         /\ IsOpened(n, spans'[n][Len(spans'[n])])
<1>1. PICK d \in Dice[n] :
        spans' = [spans EXCEPT ![n] =
                    @ \o Published(n, ctx[n], attempt[n], AttemptStart(n)) \o <<OpenSpan(n, d)>>]
  BY DEF BeginAttempt
<1> DEFINE p == PublishSpan(ctx[n], attempt[n], AttemptStart(n))
           w == OpenSpan(n, d)
<1>2. spans \in [Node -> Seq(Span)] /\ spans[n] \in Seq(Span) /\ AttemptStart(n) \in Nat
  BY FieldTypes, CallTypes DEF Typed, TypeOK
<1>3. IsPublish(n, p)
  BY DEF PublishSpan, NewSpan, IsPublish, Succeeded
<1>4. IsOpened(n, w)
  <2> DEFINE t == NewSpan("work", ctx[n], attempt[n], AttemptStart(n), Succeeded(0), d)
  <2>1. /\ t.kind = "work" /\ t.parent = ctx[n] /\ t.attempt = attempt[n]
        /\ t.start = AttemptStart(n) /\ t.end = AttemptStart(n)
    BY <1>2 DEF NewSpan, Succeeded
  <2>2. w.open = TRUE /\ w.kind = t.kind /\ w.parent = t.parent /\ w.attempt = t.attempt
        /\ w.start = t.start /\ w.end = t.end
    BY DEF OpenSpan, NewSpan
  <2> QED
    BY <2>1, <2>2 DEF IsOpened
<1>5. p \in Span /\ w \in Span
  <2>1. d \in Die
    BY PlanNumbers
  <2> QED
    BY <1>2, <2>1, FieldTypes, NewSpanType, OutcomeTypes, NoDieType, PlanNumbers
       DEF PublishSpan, OpenSpan
<1> HIDE DEF p, w
<1>6. spans'[n] = IF n \in Messaging THEN (spans[n] \o <<p>>) \o <<w>> ELSE spans[n] \o <<w>>
  <2>1. spans'[n] = (spans[n] \o Published(n, ctx[n], attempt[n], AttemptStart(n))) \o <<w>>
    BY <1>1, <1>2 DEF w
  <2>2. spans[n] \o <<>> = spans[n]
    BY <1>2, ConcatEmptySeq
  <2> QED
    BY <2>1, <2>2 DEF Published, p
<1> DEFINE q == spans[n] \o <<p>>
<1>7. /\ q \in Seq(Span) /\ Len(q) = Len(spans[n]) + 1 /\ Len(spans[n]) \in Nat
      /\ \A i \in DOMAIN spans[n] : q[i] = spans[n][i] /\ i \in DOMAIN q
      /\ q[Len(spans[n]) + 1] = p /\ Len(spans[n]) + 1 \in DOMAIN q
  BY <1>2, <1>5, OneMore, LenProperties
<1>8. CASE n \in Messaging
  <2> HIDE DEF q
  <2>1. spans'[n] = q \o <<w>>
    BY <1>6, <1>8 DEF q
  <2>2. /\ Len(q \o <<w>>) = Len(q) + 1 /\ (q \o <<w>>)[Len(q) + 1] = w
        /\ \A i \in DOMAIN q : (q \o <<w>>)[i] = q[i]
    BY <1>5, <1>7, OneMore
  <2> QED
    BY <1>3, <1>4, <1>7, <1>8, <2>1, <2>2
<1>9. CASE n \notin Messaging
  <2>1. spans'[n] = spans[n] \o <<w>>
    BY <1>6, <1>9
  <2>2. /\ Len(spans[n] \o <<w>>) = Len(spans[n]) + 1
        /\ (spans[n] \o <<w>>)[Len(spans[n]) + 1] = w
        /\ \A i \in DOMAIN spans[n] : (spans[n] \o <<w>>)[i] = spans[n][i]
    BY <1>2, <1>5, OneMore
  <2> QED
    BY <1>4, <1>9, <2>1, <2>2
<1> QED
  BY <1>8, <1>9

LEMMA FinishEffect ==
  ASSUME Typed, NEW n \in Node, InSpan(n), NEW o, Finish(n, o)
  PROVE  /\ Len(spans'[n]) = Len(spans[n])
         /\ \A i \in DOMAIN spans[n] : i # Len(spans[n]) => spans'[n][i] = spans[n][i]
         /\ spans'[n][Len(spans[n])] = Ended(n, Current(n), o)
<1>1. spans \in [Node -> Seq(Span)] /\ spans[n] \in Seq(Span) /\ Len(spans[n]) \in DOMAIN spans[n]
  BY FieldTypes, SpanSeq DEF Typed, TypeOK
<1>2. spans'[n] = [spans[n] EXCEPT ![Len(spans[n])] = Ended(n, Current(n), o)]
  BY <1>1 DEF Finish, Ended, Current
<1>3. DOMAIN spans'[n] = DOMAIN spans[n]
  BY <1>2
<1>4. Len(spans'[n]) = Len(spans[n])
  <2>1. spans[n] \in [1..Len(spans[n]) -> Span] /\ Len(spans[n]) \in Nat
    BY <1>1, LenProperties
  <2>2. spans'[n] \in [1..Len(spans[n]) -> Span \cup {Ended(n, Current(n), o)}]
    BY <1>2, <2>1
  <2> QED
    BY <2>1, <2>2, LenProperties, IsASeq
<1> QED
  BY <1>1, <1>2, <1>4

\* The steps that end a span.
Finishes(n) == AbortAttempt(n) \/ FinishAttempt(n)

LEMMA FinishesEffect ==
  ASSUME Typed, NEW n \in Node, Finishes(n)
  PROVE  /\ InSpan(n) /\ pc' = [pc EXCEPT ![n] = "attempted"] /\ pc'[n] = "attempted"
         /\ out'[n] \in Outcome
         /\ Len(spans'[n]) = Len(spans[n])
         /\ \A i \in DOMAIN spans[n] : i # Len(spans[n]) => spans'[n][i] = spans[n][i]
         /\ spans'[n][Len(spans[n])] = Ended(n, Current(n), out'[n])
<1>1. Typed'
  BY AttemptTyped DEF Finishes
<1>2. /\ InSpan(n) /\ pc' = [pc EXCEPT ![n] = "attempted"] /\ Finish(n, out'[n])
  BY DEF Finishes, AbortAttempt, FinishAttempt, InSpan, Typed, TypeOK
<1>3. pc'[n] = "attempted" /\ out'[n] \in Outcome
  BY <1>1, <1>2 DEF Typed, TypeOK
<1> QED
  BY <1>2, <1>3, FinishEffect

\* One frame moves its spans at a time, and only these steps do.
LEMMA OthersKeepSpans ==
  ASSUME Typed, Linked, NEW n \in Node, Step(n)
  PROVE  /\ \A m \in Node : m # n => spans'[m] = spans[m]
         /\ ~Skip(n) /\ ~BeginAttempt(n) /\ ~Finishes(n) => spans' = spans
<1>1. CASE Local(n)
  <2>1. \A m \in Node : m # n => spans'[m] = spans[m]
    BY <1>1, LocalEffect
  <2>2. ~Skip(n) /\ ~BeginAttempt(n) /\ ~Finishes(n) => spans' = spans
    BY <1>1 DEF Local, Finishes, StartSequence, EndSequence, StartChildren, AttemptSucceeded,
       Retry, GiveUp, Exhaust, StartCascade, Return
  <2> QED
    BY <2>1, <2>2
<1>2. CASE ~Local(n)
  <2>1. spans' = spans
    BY <1>2 DEF Step, Local, Call, StartGroup, JoinGroup, StepReturned, ChildReturned,
       FallbackReturned, SkippedReturned, Consume
  <2> QED
    BY <2>1
<1> QED
  BY <1>1, <1>2

\* Where a span comes from, and what becomes of it.
LEMMA SpanOrigin ==
  ASSUME Typed, Linked, NEW n \in Node, Step(n), NEW m \in Node, NEW i \in DOMAIN spans'[m]
  PROVE  \/ i \in DOMAIN spans[m] /\ spans'[m][i] = spans[m][i]
         \/ /\ m = n /\ Finishes(n) /\ i = Len(spans[n])
            /\ spans'[n][i] = Ended(n, Current(n), out'[n])
         \/ m = n /\ Skip(n) /\ i = Len(spans'[n]) /\ IsSkip(n, spans'[n][i])
         \/ m = n /\ BeginAttempt(n) /\ i # Len(spans'[n]) /\ IsPublish(n, spans'[n][i])
         \/ m = n /\ BeginAttempt(n) /\ i = Len(spans'[n]) /\ IsOpened(n, spans'[n][i])
<1>1. CASE m # n \/ ~(Skip(n) \/ BeginAttempt(n) \/ Finishes(n))
  BY <1>1, OthersKeepSpans
<1>2. Typed'
  BY TypedStep DEF Next
<1>3. /\ DOMAIN spans'[n] = 1..Len(spans'[n]) /\ DOMAIN spans[n] = 1..Len(spans[n])
      /\ Len(spans[n]) \in Nat /\ Len(spans'[n]) \in Nat
  <2>1. spans[n] \in Seq(Span) /\ spans'[n] \in Seq(Span)
    BY <1>2, FieldTypes DEF Typed, TypeOK
  <2> QED
    BY <2>1, LenProperties
<1>4. CASE m = n /\ Finishes(n)
  BY <1>3, <1>4, FinishesEffect
<1>5. CASE m = n /\ Skip(n)
  BY <1>3, <1>5, SkipEffect
<1>6. CASE m = n /\ BeginAttempt(n)
  <2>1. /\ \A j \in DOMAIN spans[n] : spans'[n][j] = spans[n][j]
        /\ n \in Messaging => IsPublish(n, spans'[n][Len(spans[n]) + 1])
        /\ IsOpened(n, spans'[n][Len(spans'[n])])
    BY <1>6, BeginEffect
  <2>2. \/ Len(spans'[n]) = Len(spans[n]) + 1
        \/ n \in Messaging /\ Len(spans'[n]) = Len(spans[n]) + 2
    BY <1>6, BeginEffect
  <2> QED
    BY <1>3, <1>6, <2>1, <2>2
<1> QED
  BY <1>1, <1>4, <1>5, <1>6

LEMMA SpanKept ==
  ASSUME Typed, Linked, NEW n \in Node, Step(n), NEW m \in Node, NEW i \in DOMAIN spans[m]
  PROVE  /\ i \in DOMAIN spans'[m]
         /\ spans'[m][i] = spans[m][i] \/ (m = n /\ i = Len(spans[n]) /\ Finishes(n))
         /\ spans'[m][i].kind = spans[m][i].kind /\ spans'[m][i].parent = spans[m][i].parent
         /\ spans'[m][i].attempt = spans[m][i].attempt /\ spans'[m][i].start = spans[m][i].start
<1>1. CASE m # n \/ ~(Skip(n) \/ BeginAttempt(n) \/ Finishes(n))
  BY <1>1, OthersKeepSpans
<1>2. Typed'
  BY TypedStep DEF Next
<1>3. /\ DOMAIN spans'[n] = 1..Len(spans'[n]) /\ DOMAIN spans[n] = 1..Len(spans[n])
      /\ Len(spans[n]) \in Nat /\ Len(spans'[n]) \in Nat
  <2>1. spans[n] \in Seq(Span) /\ spans'[n] \in Seq(Span)
    BY <1>2, FieldTypes DEF Typed, TypeOK
  <2> QED
    BY <2>1, LenProperties
<1>4. CASE m = n /\ Finishes(n)
  <2>1. i \in DOMAIN spans'[m]
    BY <1>3, <1>4, FinishesEffect
  <2>2. CASE i # Len(spans[n])
    BY <1>4, <2>1, <2>2, FinishesEffect
  <2>3. CASE i = Len(spans[n])
    <3>1. spans'[m][i] = Ended(n, spans[m][i], out'[n]) /\ spans[m][i] \in Span
      BY <1>4, <2>3, FinishesEffect, SpanSeq DEF Current
    <3> QED
      BY <1>4, <2>1, <2>3, <3>1 DEF Ended, Span
  <2> QED
    BY <2>2, <2>3
<1>5. CASE m = n /\ Skip(n)
  BY <1>3, <1>5, SkipEffect
<1>6. CASE m = n /\ BeginAttempt(n)
  <2>1. /\ \A j \in DOMAIN spans[n] : spans'[n][j] = spans[n][j]
        /\ n \in Messaging => IsPublish(n, spans'[n][Len(spans[n]) + 1])
        /\ IsOpened(n, spans'[n][Len(spans'[n])])
    BY <1>6, BeginEffect
  <2>2. \/ Len(spans'[n]) = Len(spans[n]) + 1
        \/ n \in Messaging /\ Len(spans'[n]) = Len(spans[n]) + 2
    BY <1>6, BeginEffect
  <2> QED
    BY <1>3, <1>6, <2>1, <2>2
<1> QED
  BY <1>1, <1>4, <1>5, <1>6

-----------------------------------------------------------------------------
(***************************************************************************)
(* Nesting.  A span is open while its frame is inside the attempt, and the *)
(* context of a running frame names an open span.  The second needs the    *)
(* first and the tree: whoever runs under a span of n is below a callee    *)
(* that n is waiting for, so n does not end the span.                      *)
(***************************************************************************)
OpenSpans ==
  \A n \in Node : \A i \in DOMAIN spans[n] :
    spans[n][i].open <=> InSpan(n) /\ i = Len(spans[n])

Names(c) == c[1] \in Node /\ c[2] \in DOMAIN spans[c[1]]

OpenContexts ==
  \A n \in Node : pc[n] # "idle" /\ ctx[n] # NoSpan => Names(ctx[n]) /\ SpanAt(ctx[n]).open

OwnParents == \A n \in Node : InSpan(n) => Current(n).parent = ctx[n]

Nested == OpenSpans /\ OpenContexts /\ OwnParents

LEMMA LeastDeep ==
  ASSUME NEW S, S \subseteq Node, S # {}
  PROVE  \E m \in S : \A p \in S : ~(Depth[p] < Depth[m])
<1>1. Depth \in [Node -> Nat]
  BY PlanIsTree
<1> DEFINE T == {Depth[m] : m \in S}
<1>2. PICK x \in T : \A y \in T : x <= y
  <2>1. T \subseteq Nat /\ T # {}
    BY <1>1
  <2> QED
    BY <2>1, LeastNat, Zenon
<1>3. PICK m \in S : x = Depth[m]
  BY <1>2
<1>4. \A p \in S : Depth[m] <= Depth[p] /\ Depth[p] \in Nat /\ Depth[m] \in Nat
  BY <1>1, <1>2, <1>3
<1> QED
  BY <1>4

\* The caller of a running frame waits for it.
LEMMA CallerWaits ==
  ASSUME Linked, NEW m \in Node, m # Root, pc[m] # "idle"
  PROVE  \E p \in Node :
           /\ m \in Callees(p) /\ Depth[p] < Depth[m]
           /\ pc[p] = "joining" \/ pc[p] \in Calling
           /\ ctx[m] = CallContext(p)
<1>1. PICK p \in Node : m \in Callees(p)
  BY PlanIsTree
<1>2. Serves(p, m) /\ ctx[m] = CallContext(p)
  BY <1>1 DEF Linked
<1> QED
  BY <1>1, <1>2, PlanIsTree DEF Serves

LEMMA UnderSpan ==
  ASSUME Linked, RootFree, NEW c \in Node, NoCallees(c)
  PROVE  \A m \in Node : pc[m] # "idle" /\ ctx[m] # NoSpan => ctx[m][1] # c
<1> DEFINE S == {m \in Node : pc[m] # "idle" /\ ctx[m] # NoSpan /\ ctx[m][1] = c}
<1> SUFFICES ASSUME S # {} PROVE FALSE
  OBVIOUS
<1>1. PICK m \in S : \A p \in S : ~(Depth[p] < Depth[m])
  BY LeastDeep
<1>2. m \in Node /\ m # Root /\ pc[m] # "idle"
  BY <1>1 DEF RootFree
<1>3. PICK p \in Node : /\ m \in Callees(p) /\ Depth[p] < Depth[m]
                        /\ pc[p] = "joining" \/ pc[p] \in Calling
                        /\ ctx[m] = CallContext(p)
  BY <1>2, CallerWaits
<1>4. p # c
  BY <1>2, <1>3 DEF NoCallees
<1>5. ctx[m] = ctx[p]
  BY <1>1, <1>3, <1>4 DEF CallContext, OwnSpan
<1>6. p \in S
  BY <1>1, <1>3, <1>5 DEF Calling
<1> QED
  BY <1>1, <1>3, <1>6

\* When the root has returned, nothing runs.
LEMMA AllReturned ==
  ASSUME Linked, pc[Root] = "returned"
  PROVE  \A m \in Node : m # Root => pc[m] = "idle"
<1> DEFINE S == {m \in Node : m # Root /\ pc[m] # "idle"}
<1> SUFFICES ASSUME S # {} PROVE FALSE
  OBVIOUS
<1>1. PICK m \in S : \A p \in S : ~(Depth[p] < Depth[m])
  BY LeastDeep
<1>2. PICK p \in Node : /\ m \in Callees(p) /\ Depth[p] < Depth[m]
                        /\ pc[p] = "joining" \/ pc[p] \in Calling
  BY <1>1, CallerWaits
<1>3. p \in S
  BY <1>2 DEF Calling
<1> QED
  BY <1>1, <1>2, <1>3

\* Which frames run, and which of them have a span open, after a step.
LEMMA FramesMove ==
  ASSUME Typed, Linked, NEW n \in Node, Step(n), NEW m \in Node
  PROVE  /\ m # n \/ ~(BeginAttempt(n) \/ Finishes(n)) => (InSpan(m)' <=> InSpan(m))
         /\ BeginAttempt(n) => ~InSpan(n) /\ InSpan(n)' /\ NoCallees(n)
         /\ Finishes(n) => InSpan(n) /\ ~InSpan(n)' /\ NoCallees(n)
<1>1. pc \in [Node -> PC]
  BY DEF Typed, TypeOK
<1>2. CASE Local(n)
  <2>1. m # n => pc'[m] = pc[m]
    BY <1>1, <1>2, LocalEffect
  <2>2. NoCallees(n)
    BY <1>2, LocalEffect
  <2>3. BeginAttempt(n) => ~InSpan(n) /\ InSpan(n)'
    BY <1>1 DEF BeginAttempt, InSpan
  <2>4. Finishes(n) => InSpan(n) /\ ~InSpan(n)'
    BY <1>1 DEF Finishes, AbortAttempt, FinishAttempt, InSpan
  <2>5. Local(n) /\ ~BeginAttempt(n) /\ ~Finishes(n) => (InSpan(n)' <=> InSpan(n))
    BY <1>1 DEF Local, Finishes, InSpan, Calling, StartSequence, EndSequence, Skip, StartChildren,
       AttemptSucceeded, Retry, GiveUp, Exhaust, StartCascade, Return
  <2> QED
    BY <1>2, <2>1, <2>2, <2>3, <2>4, <2>5 DEF InSpan
<1>3. CASE ~Local(n)
  <2>1. ~BeginAttempt(n) /\ ~Finishes(n)
    BY <1>3 DEF Local, Finishes
  <2>2. CASE Call(n)
    <3>1. Callee(n) \in Node
      BY <2>2, CalleeType DEF Call
    <3> QED
      BY <1>1, <2>1, <2>2, <3>1 DEF Call, InSpan
  <2>3. CASE StartGroup(n) \/ JoinGroup(n)
    <3>1. \A k \in KidSet(n) : pc[k] \in {"idle", "returned"}
      BY <2>3, NotServing DEF StartGroup, JoinGroup, NoCallees, Calling, BranchesDone, Callees
    <3> QED
      BY <1>1, <2>1, <2>3, <3>1 DEF StartGroup, JoinGroup, InSpan
  <2>4. CASE StepReturned(n) \/ ChildReturned(n) \/ FallbackReturned(n) \/ SkippedReturned(n)
    <3>1. /\ pc[Callee(n)] = "returned" /\ pc'[Callee(n)] = "idle"
          /\ pc'[n] = pc[n] \/ (pc[n] = "recovering" /\ pc'[n] \in {"recovering", "settled"})
          /\ \A k \in Node : k # n /\ k # Callee(n) => pc'[k] = pc[k]
      BY <2>4, ConsumeEffect DEF Consume
    <3> QED
      BY <2>1, <3>1 DEF InSpan
  <2> QED
    BY <1>3, <2>2, <2>3, <2>4 DEF Step, Local
<1> QED
  BY <1>2, <1>3

\* A frame that runs after a step of n ran before, or was just called by n.
Calls(n, m) ==
  /\ Call(n) \/ StartGroup(n)
  /\ m \in Callees(n) /\ pc[m] = "idle" /\ pc'[m] = "entered"
  /\ pc[n] # "idle" /\ pc'[n] # "idle"
  /\ ctx'[m] = CallContext(n)
  /\ start'[m] = (IF pc[n] = "entered" THEN start[n] ELSE CallStart(n))
  /\ up'[m] = (IF pc[n] = "entered" THEN up[n] ELSE CallParent(n))
  /\ attempt'[m] = 0 /\ total'[m] = 0

LEMMA FrameOrigin ==
  ASSUME Typed, Linked, NEW n \in Node, Step(n), NEW m \in Node, pc'[m] # "idle"
  PROVE  \/ pc[m] # "idle" /\ ctx'[m] = ctx[m] /\ start'[m] = start[m]
         \/ Calls(n, m) /\ UNCHANGED <<elapsed, idx, die, out, spans, canceled>>
<1>1. pc \in [Node -> PC] /\ ctx \in [Node -> Context] /\ start \in [Node -> Nat]
      /\ up \in [Node -> Outcome] /\ attempt \in [Node -> Nat] /\ total \in [Node -> Nat]
  BY DEF Typed, TypeOK
<1>2. CASE Local(n)
  <2>1. UNCHANGED <<start, ctx>> /\ pc[n] # "idle" /\ \E x \in PC : pc' = [pc EXCEPT ![n] = x]
    BY <1>2, LocalEffect
  <2> QED
    BY <1>1, <2>1
<1>3. CASE Call(n)
  <2>1. Callee(n) \in Node /\ Callee(n) \in Callees(n) /\ Callee(n) # n
    BY <1>3, CalleeType, Tree DEF Call, Callees
  <2>2. CASE m = Callee(n)
    BY <1>1, <1>3, <2>1, <2>2 DEF Call, Calls, Calling
  <2>3. CASE m # Callee(n)
    BY <1>1, <1>3, <2>1, <2>3 DEF Call
  <2> QED
    BY <2>2, <2>3
<1>4. CASE StartGroup(n)
  <2>1. NoCallees(n)
    BY <1>4, NotServing DEF StartGroup, Calling
  <2>2. n \notin KidSet(n) /\ KidSet(n) \subseteq Callees(n)
    BY Tree DEF Callees
  <2>3. CASE m \in KidSet(n)
    BY <1>1, <1>4, <2>1, <2>2, <2>3 DEF StartGroup, Calls, NoCallees, CallContext
  <2>4. CASE m \notin KidSet(n)
    BY <1>1, <1>4, <2>4 DEF StartGroup
  <2> QED
    BY <2>3, <2>4
<1>5. CASE JoinGroup(n)
  BY <1>1, <1>5 DEF JoinGroup
<1>6. CASE StepReturned(n) \/ ChildReturned(n) \/ FallbackReturned(n) \/ SkippedReturned(n)
  BY <1>6, ConsumeEffect DEF Consume, Calling
<1> QED
  BY <1>2, <1>3, <1>4, <1>5, <1>6 DEF Step, Local

LEMMA OpenSpansStep ==
  ASSUME Typed, Linked, OpenSpans, NEW n \in Node, Step(n)
  PROVE  OpenSpans'
<1> SUFFICES ASSUME NEW m \in Node, NEW i \in DOMAIN spans'[m]
             PROVE  spans'[m][i].open <=> InSpan(m)' /\ i = Len(spans'[m])
  BY DEF OpenSpans
<1>1. CASE m # n \/ ~(Skip(n) \/ BeginAttempt(n) \/ Finishes(n))
  <2>1. spans'[m] = spans[m] /\ (InSpan(m)' <=> InSpan(m))
    BY <1>1, OthersKeepSpans, FramesMove
  <2> QED
    BY <2>1 DEF OpenSpans
<1>2. CASE m = n /\ Skip(n)
  <2>1. ~InSpan(n) /\ ~InSpan(n)'
    BY <1>2 DEF Skip, InSpan, Typed, TypeOK
  <2>2. ~BeginAttempt(n) /\ ~Finishes(n)
    BY <1>2 DEF Skip, BeginAttempt, Finishes, AbortAttempt, FinishAttempt
  <2>3. \/ i \in DOMAIN spans[n] /\ spans'[n][i] = spans[n][i]
        \/ IsSkip(n, spans'[n][i])
    BY <1>2, <2>2, SpanOrigin
  <2> QED
    BY <1>2, <2>1, <2>3 DEF OpenSpans, IsSkip
<1>3. CASE m = n /\ BeginAttempt(n)
  <2>1. ~InSpan(n) /\ InSpan(n)'
    BY <1>3, FramesMove
  <2>2. ~Finishes(n) /\ ~Skip(n)
    BY <1>3, FramesMove DEF Skip, BeginAttempt
  <2>3. i \in DOMAIN spans[n] => i # Len(spans'[n])
    <3>1. Len(spans'[n]) = Len(spans[n]) + 1 \/ Len(spans'[n]) = Len(spans[n]) + 2
      BY <1>3, BeginEffect
    <3> QED
      BY <3>1, SpanSeq
  <2> QED
    BY <1>3, <2>1, <2>2, <2>3, SpanOrigin DEF OpenSpans, IsPublish, IsOpened
<1>4. CASE m = n /\ Finishes(n)
  <2>1. InSpan(n) /\ ~InSpan(n)' /\ ~BeginAttempt(n) /\ ~Skip(n)
    BY <1>4, FramesMove DEF Skip, InSpan
  <2>2. CASE i # Len(spans[n])
    BY <1>4, <2>1, <2>2, SpanOrigin DEF OpenSpans
  <2>3. CASE i = Len(spans[n])
    <3>1. spans'[n][i] = Ended(n, Current(n), out'[n]) /\ Current(n) \in Span
      BY <1>4, <2>1, <2>3, FinishesEffect, SpanSeq
    <3> QED
      BY <1>4, <2>1, <3>1 DEF Ended, Span
  <2> QED
    BY <2>2, <2>3
<1> QED
  BY <1>1, <1>2, <1>3, <1>4

\* A span named by the context of a frame running after a step is there before
\* the step, and the step does not end it.
LEMMA ContextKept ==
  ASSUME Typed, Linked, RootFree, OpenSpans, OpenContexts, NEW n \in Node, Step(n),
         NEW m \in Node, pc'[m] # "idle", ctx'[m] # NoSpan
  PROVE  /\ Names(ctx'[m]) /\ SpanAt(ctx'[m]).open
         /\ ctx'[m][2] \in DOMAIN spans'[ctx'[m][1]]
         /\ spans'[ctx'[m][1]][ctx'[m][2]] = SpanAt(ctx'[m])
<1> DEFINE c == ctx'[m]
<1>1. \/ pc[m] # "idle" /\ c = ctx[m]
      \/ Calls(n, m) /\ spans' = spans
  BY FrameOrigin
<1>2. CASE pc[m] # "idle" /\ c = ctx[m]
  <2>1. Names(c) /\ SpanAt(c).open
    BY <1>2 DEF OpenContexts
  <2>2. ~Finishes(n) \/ c[1] # n
    <3>1. Finishes(n) => NoCallees(n)
      BY FramesMove
    <3> QED
      BY <1>2, <3>1, UnderSpan
  <2>3. c[2] \in DOMAIN spans'[c[1]] /\ spans'[c[1]][c[2]] = spans[c[1]][c[2]]
    BY <2>1, <2>2, SpanKept DEF Names
  <2> QED
    BY <2>1, <2>3 DEF Names, SpanAt
<1>3. CASE Calls(n, m) /\ spans' = spans
  <2>1. Names(c) /\ SpanAt(c).open
    <3>1. CASE pc[n] = "children"
      <4>1. c = <<n, Len(spans[n])>> /\ InSpan(n)
        BY <1>3, <3>1 DEF Calls, CallContext, OwnSpan, InSpan
      <4> QED
        BY <4>1, SpanSeq DEF OpenSpans, Names, SpanAt
    <3>2. CASE pc[n] # "children"
      BY <1>3, <3>2 DEF Calls, CallContext, OpenContexts
    <3> QED
      BY <3>1, <3>2
  <2> QED
    BY <1>3, <2>1 DEF Names, SpanAt
<1> QED
  BY <1>1, <1>2, <1>3

LEMMA OwnParentsStep ==
  ASSUME Typed, Linked, OwnParents, NEW n \in Node, Step(n)
  PROVE  OwnParents'
<1> SUFFICES ASSUME NEW m \in Node, InSpan(m)'
             PROVE  spans'[m][Len(spans'[m])].parent = ctx'[m]
  BY DEF OwnParents, Current
<1>1. CASE m = n /\ BeginAttempt(n)
  BY <1>1, BeginEffect DEF IsOpened, BeginAttempt
<1>2. CASE m # n \/ ~BeginAttempt(n)
  <2>1. ~Finishes(n) \/ m # n
    BY FramesMove
  <2>2. InSpan(m)
    BY <1>2, <2>1, FramesMove
  <2>3. spans'[m] = spans[m]
    BY <1>2, <2>1, <2>2, OthersKeepSpans DEF Skip, InSpan
  <2>4. ctx'[m] = ctx[m]
    BY <2>2, FrameOrigin DEF InSpan, Calls
  <2> QED
    BY <2>2, <2>3, <2>4 DEF OwnParents, Current
<1> QED
  BY <1>1, <1>2

LEMMA NestedStep == Typed /\ Linked /\ RootFree /\ Nested /\ [Next]_vars => Nested'
<1> SUFFICES ASSUME Typed, Linked, RootFree, Nested, [Next]_vars PROVE Nested'
  OBVIOUS
<1> USE DEF Nested
<1>1. ASSUME NEW n \in Node, Step(n) PROVE Nested'
  <2>1. OpenSpans' /\ OwnParents'
    BY <1>1, OpenSpansStep, OwnParentsStep
  <2>2. OpenContexts'
    BY <1>1, ContextKept DEF OpenContexts, Names, SpanAt
  <2> QED
    BY <2>1, <2>2
<1>2. CASE Cancel \/ UNCHANGED vars
  BY <1>2 DEF Cancel, frame, vars, OpenSpans, OpenContexts, OwnParents, InSpan, Current, Names,
     SpanAt
<1> QED
  BY <1>1, <1>2 DEF Next, Finished

LEMMA NestedAlways == Spec => [](Typed /\ Linked /\ RootFree /\ Nested)
<1>1. Init => Nested
  BY DEF Init, Nested, OpenSpans, OpenContexts, OwnParents, InSpan
<1> QED
  BY <1>1, NestedStep, TypedAlways, LinkedAlways, PTL DEF Spec

\* No span is left open and no goroutine running when Execute returns, and a caller
\* never ends its span while a call made under it is running: for every plan,
\* interleaving, failure and cancellation.
THEOREM SpansNestCorrect == Spec => []SpansNest
<1>1. Typed /\ Linked /\ RootFree /\ Nested => SpansNest
  <2> SUFFICES ASSUME Typed, Linked, RootFree, Nested PROVE SpansNest
    OBVIOUS
  <2>1. NothingOutlivesJourney
    BY AllReturned DEF Nested, OpenSpans, NothingOutlivesJourney, Done, InSpan
  <2>2. OpenSpansNest
    <3> SUFFICES ASSUME NEW n \in Node, NEW i \in DOMAIN spans[n], spans[n][i].open,
                        spans[n][i].parent # NoSpan
                 PROVE  SpanAt(spans[n][i].parent).open
      BY DEF OpenSpansNest
    <3>1. InSpan(n) /\ spans[n][i] = Current(n)
      BY DEF Nested, OpenSpans, Current
    <3>2. spans[n][i].parent = ctx[n] /\ pc[n] # "idle"
      BY <3>1 DEF Nested, OwnParents, InSpan
    <3> QED
      BY <3>2 DEF Nested, OpenContexts
  <2> QED
    BY <2>1, <2>2 DEF SpansNest
<1> QED
  BY <1>1, NestedAlways, PTL

-----------------------------------------------------------------------------
(***************************************************************************)
(* What a step does to the frames.                                         *)
(***************************************************************************)
LEMMA OtherFrames ==
  ASSUME Typed, Linked, NEW n \in Node, Step(n), NEW m \in Node, m # n
  PROVE  /\ elapsed'[m] = elapsed[m] /\ idx'[m] = idx[m] /\ die'[m] = die[m] /\ out'[m] = out[m]
         /\ spans'[m] = spans[m]
         /\ pc[m] # "idle" =>
              /\ start'[m] = start[m] /\ ctx'[m] = ctx[m] /\ up'[m] = up[m]
              /\ attempt'[m] = attempt[m] /\ total'[m] = total[m]
              /\ pc'[m] = pc[m] \/ (pc[m] = "returned" /\ pc'[m] = "idle")
         /\ pc[m] = "idle" => pc'[m] = "idle" \/ Calls(n, m)
<1> USE DEF Typed, TypeOK
<1>1. spans'[m] = spans[m]
  BY OthersKeepSpans
<1>2. pc[m] = "idle" => pc'[m] = "idle" \/ Calls(n, m)
  BY FrameOrigin
<1>3. CASE StartSequence(n) \/ EndSequence(n) \/ Skip(n) \/ BeginAttempt(n) \/ AbortAttempt(n)
           \/ StartChildren(n) \/ FinishAttempt(n)
  BY <1>1, <1>2, <1>3 DEF StartSequence, EndSequence, Skip, BeginAttempt, AbortAttempt,
     StartChildren, FinishAttempt
<1>4. CASE AttemptSucceeded(n) \/ Retry(n) \/ GiveUp(n) \/ Exhaust(n) \/ StartCascade(n) \/ Return(n)
  BY <1>1, <1>2, <1>4 DEF AttemptSucceeded, Retry, GiveUp, Exhaust, StartCascade, Return
<1>5. CASE Call(n)
  <2>1. Callee(n) \in Node /\ pc[Callee(n)] = "idle"
    BY <1>5, CalleeType DEF Call
  <2> QED
    BY <1>1, <1>2, <1>5, <2>1 DEF Call
<1>6. CASE StartGroup(n)
  <2>1. \A k \in KidSet(n) : pc[k] = "idle"
    BY <1>6, NotServing DEF StartGroup, Calling, NoCallees, Callees
  <2> QED
    BY <1>1, <1>2, <1>6, <2>1 DEF StartGroup
<1>7. CASE JoinGroup(n)
  BY <1>1, <1>2, <1>7 DEF JoinGroup, BranchesDone
<1>8. CASE StepReturned(n) \/ ChildReturned(n) \/ FallbackReturned(n) \/ SkippedReturned(n)
  <2>1. pc[Callee(n)] = "returned" /\ pc'[Callee(n)] = "idle"
        /\ \A k \in Node : k # n /\ k # Callee(n) => pc'[k] = pc[k]
    BY <1>8, ConsumeEffect DEF Consume
  <2>2. UNCHANGED <<start, ctx, attempt, total, die, spans>>
    BY <1>8, ConsumeEffect DEF Consume
  <2>3. elapsed'[m] = elapsed[m] /\ idx'[m] = idx[m] /\ out'[m] = out[m] /\ up'[m] = up[m]
    BY <1>8 DEF StepReturned, ChildReturned, FallbackReturned, SkippedReturned
  <2> QED
    BY <1>1, <1>2, <2>1, <2>2, <2>3
<1> QED
  BY <1>3, <1>4, <1>5, <1>6, <1>7, <1>8 DEF Step

LEMMA OwnFrame ==
  ASSUME Typed, Linked, NEW n \in Node, Step(n)
  PROVE  /\ pc[n] # "idle" /\ pc[n] # "returned" /\ pc'[n] # "idle"
         /\ start'[n] = start[n] /\ ctx'[n] = ctx[n]
         /\ ~StepReturned(n) => up'[n] = up[n]
         /\ ~Retry(n) => attempt'[n] = attempt[n] /\ total'[n] = total[n]
<1> USE DEF Typed, TypeOK
<1>1. CASE StartSequence(n) \/ EndSequence(n) \/ Skip(n) \/ BeginAttempt(n) \/ AbortAttempt(n)
           \/ StartChildren(n) \/ FinishAttempt(n)
  BY <1>1 DEF StartSequence, EndSequence, Skip, BeginAttempt, AbortAttempt, StartChildren,
     FinishAttempt
<1>2. CASE AttemptSucceeded(n) \/ Retry(n) \/ GiveUp(n) \/ Exhaust(n) \/ StartCascade(n) \/ Return(n)
  BY <1>2 DEF AttemptSucceeded, Retry, GiveUp, Exhaust, StartCascade, Return
<1>3. CASE Call(n)
  <2>1. Callee(n) \in Node /\ Callee(n) # n
    BY <1>3, CalleeType, Tree DEF Call, Callees
  <2> QED
    BY <1>3, <2>1 DEF Call, Calling
<1>4. CASE StartGroup(n) \/ JoinGroup(n)
  <2>1. n \notin KidSet(n)
    BY Tree DEF Callees
  <2> QED
    BY <1>4, <2>1 DEF StartGroup, JoinGroup
<1>5. CASE StepReturned(n) \/ ChildReturned(n) \/ FallbackReturned(n) \/ SkippedReturned(n)
  <2>1. UNCHANGED <<start, ctx, attempt, total>> /\ (~StepReturned(n) => up'[n] = up[n])
    BY <1>5 DEF StepReturned, ChildReturned, FallbackReturned, SkippedReturned, Consume
  <2>2. pc[n] \in Calling /\ pc'[n] # "idle"
    BY <1>5, ConsumeEffect DEF Calling
  <2> QED
    BY <2>1, <2>2 DEF Calling
<1> QED
  BY <1>1, <1>2, <1>3, <1>4, <1>5 DEF Step

\* A step of a frame that has a running callee is the one that takes its outcome.
LEMMA CalleeStays ==
  ASSUME Typed, Linked, NEW n \in Node, Step(n), NEW c \in Callees(n), pc[c] # "idle",
         ~JoinGroup(n)
  PROVE  /\ StepReturned(n) \/ ChildReturned(n) \/ FallbackReturned(n) \/ SkippedReturned(n)
         /\ c = Callee(n) /\ pc[c] = "returned" /\ pc'[c] = "idle"
<1>1. ~Local(n)
  BY LocalEffect DEF NoCallees
<1>2. ~Call(n) /\ (pc[n] \in Calling => c = Callee(n))
  BY DEF Linked, Serves, Call, Calling
<1>3. ~StartGroup(n)
  BY NotServing DEF StartGroup, NoCallees, Calling
<1>4. StepReturned(n) \/ ChildReturned(n) \/ FallbackReturned(n) \/ SkippedReturned(n)
  BY <1>1, <1>2, <1>3 DEF Step, Local
<1> QED
  BY <1>2, <1>4, ConsumeEffect DEF Consume

\* Each kind of node has stations of its own.
Trying == {"begun", "children", "attempted", "retry"}
Tried == {"settled", "recovering", "cascading"}

KindsFit ==
  \A n \in Node :
    /\ pc[n] = "sequence" => Kind[n] = "seq"
    /\ pc[n] = "joining" => Kind[n] = "par"
    /\ pc[n] \in Trying \cup Tried => Kind[n] = "op"

LEMMA KindsFitStep ==
  ASSUME Typed, Linked, KindsFit, NEW n \in Node, Step(n)
  PROVE  KindsFit'
<1> USE DEF KindsFit, Trying, Tried
<1>1. ASSUME NEW m \in Node, m # n
      PROVE  pc'[m] = pc[m] \/ pc'[m] \in {"idle", "entered"}
  BY <1>1, OtherFrames DEF Calls
<1>2. \/ pc'[n] = pc[n]
      \/ pc'[n] = "returned"
      \/ pc'[n] = "joining" /\ Kind[n] = "par"
      \/ pc'[n] = "sequence" /\ Kind[n] = "seq"
      \/ pc'[n] \in {"begun", "children", "attempted", "retry", "settled", "recovering", "cascading"}
         /\ Kind[n] = "op"
  <2> USE DEF Typed, TypeOK
  <2>1. CASE Local(n)
    BY <2>1 DEF Local, StartSequence, EndSequence, Skip, BeginAttempt, AbortAttempt, StartChildren,
       FinishAttempt, AttemptSucceeded, Retry, GiveUp, Exhaust, StartCascade, Return
  <2>2. CASE Call(n)
    <3>1. Callee(n) # n
      BY <2>2, CalleeType, Tree DEF Call, Callees
    <3> QED
      BY <2>2, <3>1 DEF Call
  <2>3. CASE StartGroup(n) \/ JoinGroup(n)
    BY <2>3 DEF StartGroup, JoinGroup
  <2>4. CASE StepReturned(n) \/ ChildReturned(n) \/ FallbackReturned(n) \/ SkippedReturned(n)
    <3>1. pc'[n] = pc[n] \/ (pc[n] = "recovering" /\ pc'[n] \in {"recovering", "settled"})
      BY <2>4, ConsumeEffect
    <3> QED
      BY <3>1
  <2> QED
    BY <2>1, <2>2, <2>3, <2>4 DEF Step, Local
<1> QED
  BY <1>1, <1>2

-----------------------------------------------------------------------------
(***************************************************************************)
(* What a caller gives its callees: the times and the outcome above them   *)
(* stay those of the call while the callee runs.                           *)
(***************************************************************************)
GivenStart(p) == IF pc[p] = "joining" THEN start[p] ELSE CallStart(p)
GivenUp(p) == IF pc[p] = "joining" THEN up[p] ELSE CallParent(p)

Given ==
  \A p \in Node : \A c \in Callees(p) :
    pc[c] # "idle" => start[c] = GivenStart(p) /\ up[c] = GivenUp(p)

LEMMA GivenStep ==
  ASSUME Typed, Linked, KindsFit, Given, NEW n \in Node, Step(n)
  PROVE  Given'
<1> SUFFICES ASSUME NEW p \in Node, NEW c \in Callees(p), pc'[c] # "idle"
             PROVE  start'[c] = GivenStart(p)' /\ up'[c] = GivenUp(p)'
  BY DEF Given
<1>1. c \in Node /\ c # p
  BY Tree
<1>2. CASE Calls(n, c) /\ UNCHANGED <<elapsed, idx, die, out, spans, canceled>>
  <2>1. p = n /\ c # n
    BY <1>1, <1>2, Tree DEF Calls
  <2>2. start'[n] = start[n] /\ up'[n] = up[n] /\ total'[n] = total[n]
    <3>1. ~StepReturned(n) /\ ~Retry(n)
      BY <1>2 DEF Calls, Call, StartGroup, StepReturned, Consume, Retry, Calling
    <3> QED
      BY <3>1, OwnFrame
  <2>3. CASE Call(n)
    <3>1. pc'[n] = pc[n] /\ pc[n] \in Calling
      <4>1. Callee(n) # n /\ pc[n] \in Calling
        BY <2>3, CalleeType, Tree DEF Call, Callees
      <4> QED
        BY <2>3, <4>1 DEF Call, Typed, TypeOK
    <3> QED
      BY <1>2, <2>1, <2>2, <3>1 DEF Calls, GivenStart, GivenUp, CallStart, CallParent,
         AttemptStart, Calling
  <2>4. CASE StartGroup(n)
    <3>1. pc'[n] = "joining" /\ pc[n] = "entered"
      BY <2>4 DEF StartGroup
    <3> QED
      BY <1>2, <2>1, <2>2, <3>1 DEF Calls, GivenStart, GivenUp
  <2> QED
    BY <1>2, <2>3, <2>4 DEF Calls
<1>3. CASE pc[c] # "idle"
  <2>1. Serves(p, c) /\ start[c] = GivenStart(p) /\ up[c] = GivenUp(p)
    BY <1>3 DEF Given, Linked
  <2>2. start'[c] = start[c] /\ up'[c] = up[c]
    <3>1. CASE c # n
      BY <1>1, <1>3, <3>1, OtherFrames
    <3>2. CASE c = n
      <4>1. c # Root
        BY Tree
      <4>2. ~StepReturned(n)
        BY <3>2, <4>1, PlanIsTree DEF StepReturned, KindsFit
      <4> QED
        BY <3>2, <4>2, OwnFrame
    <3> QED
      BY <3>1, <3>2
  <2>3. p # n
    <3>1. p = n => JoinGroup(n)
      BY <1>3, CalleeStays
    <3>2. p = n /\ JoinGroup(n) => pc'[c] = "idle"
      BY <1>1, <2>1 DEF JoinGroup, Serves, Calling
    <3> QED
      BY <3>1, <3>2
  <2>4. pc'[p] = pc[p] /\ start'[p] = start[p] /\ up'[p] = up[p] /\ total'[p] = total[p]
        /\ elapsed'[p] = elapsed[p] /\ out'[p] = out[p]
    <3>1. pc[p] # "idle" /\ pc[p] # "returned"
      BY <2>1 DEF Serves, Calling
    <3> QED
      BY <2>3, <3>1, OtherFrames
  <2> QED
    BY <2>1, <2>2, <2>4 DEF GivenStart, GivenUp, CallStart, CallParent, AttemptStart
<1> QED
  BY <1>1, <1>2, <1>3, FrameOrigin

-----------------------------------------------------------------------------
(***************************************************************************)
(* The attempts of a node, as its own frame knows them: its last span is   *)
(* the one of the attempt it makes or made last, begun at AttemptStart and *)
(* ended with the outcome.                                                 *)
(***************************************************************************)
Fresh(n) == pc[n] = "entered" => attempt[n] = 0 /\ total[n] = 0

LastIsWork(n) ==
  pc[n] \in Trying \cup Tried => Len(spans[n]) > 0 /\ Current(n).kind = "work" /\ up[n].ok

JustBegun(n) ==
  InSpan(n) => /\ Current(n).start = AttemptStart(n) /\ Current(n).end = AttemptStart(n)
               /\ Current(n).attempt = attempt[n]

JustEnded(n) ==
  pc[n] = "attempted" =>
    /\ Current(n).attempt = attempt[n]
    /\ Current(n).ok = out[n].ok /\ Current(n).err = out[n].err
    /\ Current(n).end = AttemptStart(n) + out[n].latency
    /\ out[n].recovery = "none" /\ ~out[n].cascaded /\ (out[n].ok => out[n].err = "none")

Waits(n) ==
  pc[n] = "retry" =>
    /\ attempt[n] > 0 /\ Current(n).attempt = attempt[n] - 1
    /\ ~Current(n).ok /\ Current(n).err # "context_canceled"
    /\ AttemptStart(n) = Current(n).end + RetryDelay(n, attempt[n])

Attempts ==
  \A n \in Node : Fresh(n) /\ LastIsWork(n) /\ JustBegun(n) /\ JustEnded(n) /\ Waits(n)

LEMMA AttemptsOfOthers ==
  ASSUME Typed, Linked, Attempts, NEW n \in Node, Step(n), NEW m \in Node, m # n
  PROVE  Fresh(m)' /\ LastIsWork(m)' /\ JustBegun(m)' /\ JustEnded(m)' /\ Waits(m)'
<1>1. /\ spans'[m] = spans[m] /\ out'[m] = out[m]
      /\ pc[m] # "idle" =>
           /\ start'[m] = start[m] /\ up'[m] = up[m]
           /\ attempt'[m] = attempt[m] /\ total'[m] = total[m]
           /\ pc'[m] = pc[m] \/ pc'[m] = "idle"
      /\ pc[m] = "idle" =>
           pc'[m] = "idle" \/ (pc'[m] = "entered" /\ attempt'[m] = 0 /\ total'[m] = 0)
  BY OtherFrames DEF Calls
<1>2. Fresh(m) /\ LastIsWork(m) /\ JustBegun(m) /\ JustEnded(m) /\ Waits(m)
  BY DEF Attempts
<1> QED
  BY <1>1, <1>2 DEF Fresh, LastIsWork, JustBegun, JustEnded, Waits, Trying, Tried, InSpan,
     Current, AttemptStart

LEMMA BeginAttemptAttempts ==
  ASSUME Typed, Linked, Attempts, NEW n \in Node, BeginAttempt(n)
  PROVE  Fresh(n)' /\ LastIsWork(n)' /\ JustBegun(n)' /\ JustEnded(n)' /\ Waits(n)'
<1>1. pc'[n] = "begun" /\ UNCHANGED <<start, ctx, up, attempt, total, out>>
  BY DEF BeginAttempt, Typed, TypeOK
<1>2. IsOpened(n, Current(n)') /\ Len(spans'[n]) > 0
  <2>1. Len(spans'[n]) = Len(spans[n]) + 1 \/ Len(spans'[n]) = Len(spans[n]) + 2
    BY BeginEffect
  <2>2. Len(spans[n]) \in Nat
    BY SpanSeq
  <2>3. IsOpened(n, spans'[n][Len(spans'[n])])
    BY BeginEffect
  <2> QED
    BY <2>1, <2>2, <2>3 DEF Current
<1>3. up[n].ok
  BY DEF BeginAttempt, Attempts, LastIsWork, Trying
<1> QED
  BY <1>1, <1>2, <1>3 DEF Fresh, LastIsWork, JustBegun, JustEnded, Waits, Trying, Tried, InSpan,
     IsOpened, AttemptStart

LEMMA FinishesAttempts ==
  ASSUME Typed, Linked, Attempts, NEW n \in Node, Finishes(n)
  PROVE  Fresh(n)' /\ LastIsWork(n)' /\ JustBegun(n)' /\ JustEnded(n)' /\ Waits(n)'
<1>1. pc'[n] = "attempted" /\ InSpan(n) /\ UNCHANGED <<start, up, attempt, total>>
  BY FinishesEffect DEF Finishes, AbortAttempt, FinishAttempt
<1>2. Current(n)' = Ended(n, Current(n), out'[n]) /\ Len(spans'[n]) = Len(spans[n])
  BY FinishesEffect DEF Current
<1>3. /\ Current(n)'.kind = Current(n).kind /\ Current(n)'.attempt = Current(n).attempt
      /\ Current(n)'.ok = out'[n].ok /\ Current(n)'.err = out'[n].err
      /\ Current(n)'.end = AttemptStart(n) + out'[n].latency
  BY <1>1, <1>2, SpanSeq DEF Ended, Span
<1>4. LastIsWork(n) /\ JustBegun(n)
  BY DEF Attempts
<1>5. out'[n].recovery = "none" /\ ~out'[n].cascaded /\ (out'[n].ok => out'[n].err = "none")
  <2>1. out' = [out EXCEPT ![n] = Early(n)] \/ out' = [out EXCEPT ![n] = AttemptOutcome(n)]
    BY DEF Finishes, AbortAttempt, FinishAttempt
  <2>2. out'[n] = Early(n) \/ out'[n] = AttemptOutcome(n)
    BY <2>1 DEF Typed, TypeOK
  <2> QED
    BY <2>2 DEF Early, EarlyOutcome, AttemptOutcome, Failed, Succeeded
<1> QED
  BY <1>1, <1>2, <1>3, <1>4, <1>5 DEF Fresh, LastIsWork, JustBegun, JustEnded, Waits, Trying, Tried,
     InSpan, AttemptStart

LEMMA RetryAttempts ==
  ASSUME Typed, Linked, Attempts, NEW n \in Node, Retry(n)
  PROVE  Fresh(n)' /\ LastIsWork(n)' /\ JustBegun(n)' /\ JustEnded(n)' /\ Waits(n)'
<1>1. /\ pc[n] = "attempted" /\ pc'[n] = "retry" /\ ~out[n].ok /\ out[n].err # "context_canceled"
      /\ attempt[n] < Retries[n]
      /\ attempt'[n] = attempt[n] + 1
      /\ total'[n] = total[n] + out[n].latency + RetryDelay(n, attempt[n] + 1)
      /\ UNCHANGED <<start, up, spans>>
  <2>1. /\ pc[n] = "attempted" /\ ~out[n].ok /\ ~LastAttempt(n)
        /\ UNCHANGED <<start, up, spans>>
    BY DEF Retry
  <2>2. pc'[n] = "retry" /\ attempt'[n] = attempt[n] + 1
    BY DEF Retry, Typed, TypeOK
  <2>3. total'[n] = total[n] + out[n].latency + RetryDelay(n, attempt[n] + 1)
    BY DEF Retry, Typed, TypeOK
  <2>4. attempt[n] \in Nat /\ Retries[n] \in Nat
    BY FieldTypes, PlanNumbers
  <2> QED
    BY <2>1, <2>2, <2>3, <2>4 DEF LastAttempt
<1>2. LastIsWork(n) /\ JustEnded(n)
  BY DEF Attempts
<1>3. /\ start[n] \in Nat /\ total[n] \in Nat /\ attempt[n] \in Nat /\ out[n].latency \in Nat
      /\ RetryDelay(n, attempt[n] + 1) \in Nat
  <2>1. start[n] \in Nat /\ total[n] \in Nat /\ attempt[n] \in Nat /\ out[n].latency \in Nat
    BY FieldTypes, OutcomeFields
  <2>2. attempt[n] + 1 \in 1..Retries[n]
    BY <1>1, <2>1, PlanNumbers
  <2> QED
    BY <2>1, <2>2, DelaysDoNotWrap
<1>4. Current(n)' = Current(n)
  BY <1>1 DEF Current
<1>5. Waits(n)'
  <2>1. AttemptStart(n)' = start[n] + (total[n] + out[n].latency + RetryDelay(n, attempt[n] + 1))
    BY <1>1 DEF AttemptStart
  <2>2. Current(n).end = start[n] + total[n] + out[n].latency /\ Current(n).attempt = attempt[n]
    BY <1>1, <1>2 DEF JustEnded, AttemptStart
  <2> QED
    BY <1>1, <1>2, <1>3, <1>4, <2>1, <2>2 DEF Waits, JustEnded
<1> QED
  BY <1>1, <1>2, <1>4, <1>5 DEF Fresh, LastIsWork, JustBegun, JustEnded, Trying, Tried, InSpan

LEMMA AttemptsStep ==
  ASSUME Typed, Linked, KindsFit, Attempts, NEW n \in Node, Step(n)
  PROVE  Attempts'
<1> SUFFICES Fresh(n)' /\ LastIsWork(n)' /\ JustBegun(n)' /\ JustEnded(n)' /\ Waits(n)'
  BY AttemptsOfOthers DEF Attempts
<1>1. ASSUME ~BeginAttempt(n), ~Finishes(n), ~Retry(n)
      PROVE  Fresh(n)' /\ LastIsWork(n)' /\ JustBegun(n)' /\ JustEnded(n)' /\ Waits(n)'
  <2>1. \/ pc'[n] \in {"joining", "returned", "sequence"}
        \/ pc'[n] = pc[n] /\ pc[n] \in Calling
        \/ pc'[n] = "children" /\ pc[n] = "begun"
        \/ pc'[n] \in Tried /\ pc[n] \in Trying \cup Tried
    <3> USE DEF Typed, TypeOK, Trying, Tried, Calling
    <3>1. CASE Local(n)
      BY <1>1, <3>1 DEF Local, Finishes, StartSequence, EndSequence, Skip, StartChildren,
         AttemptSucceeded, GiveUp, Exhaust, StartCascade, Return
    <3>2. CASE Call(n)
      <4>1. Callee(n) # n
        BY <3>2, CalleeType, Tree DEF Call, Callees
      <4> QED
        BY <3>2, <4>1 DEF Call
    <3>3. CASE StartGroup(n) \/ JoinGroup(n)
      BY <3>3 DEF StartGroup, JoinGroup
    <3>4. CASE StepReturned(n) \/ ChildReturned(n) \/ FallbackReturned(n) \/ SkippedReturned(n)
      <4>1. \/ pc'[n] = pc[n] /\ pc[n] \in Calling
            \/ pc[n] = "recovering" /\ pc'[n] \in {"recovering", "settled"}
        BY <3>4, ConsumeEffect
      <4> QED
        BY <4>1
    <3> QED
      BY <1>1, <3>1, <3>2, <3>3, <3>4 DEF Step, Local
  <2>2. pc'[n] \in {"joining", "returned", "sequence"}
        \/ (/\ spans' = spans /\ start'[n] = start[n] /\ up'[n] = up[n]
            /\ attempt'[n] = attempt[n] /\ total'[n] = total[n])
    <3>1. Skip(n) => pc'[n] = "returned"
      BY DEF Skip, Typed, TypeOK
    <3>2. StepReturned(n) => pc'[n] = "sequence"
      BY ConsumeEffect DEF StepReturned
    <3> QED
      BY <1>1, <3>1, <3>2, OwnFrame, OthersKeepSpans
  <2>3. LastIsWork(n) /\ JustBegun(n)
    BY DEF Attempts
  <2> QED
    BY <2>1, <2>2, <2>3 DEF Fresh, LastIsWork, JustBegun, JustEnded, Waits, Trying, Tried, Calling,
       InSpan, Current, AttemptStart
<1> QED
  BY <1>1, BeginAttemptAttempts, FinishesAttempts, RetryAttempts

-----------------------------------------------------------------------------
(***************************************************************************)
(* Starts: a frame does not start before the span it runs under, and the   *)
(* start and the parent of a span never change.                            *)
(***************************************************************************)
ParentsKnown ==
  \A n \in Node : \A i \in DOMAIN spans[n] :
    spans[n][i].parent # NoSpan => Names(spans[n][i].parent)

ContextsStarted ==
  \A n \in Node : pc[n] # "idle" /\ ctx[n] # NoSpan => start[n] >= SpanAt(ctx[n]).start

\* What a call gets from a frame n: a start that is no earlier than that of the
\* span it will run under.
LEMMA CallsLater ==
  ASSUME Typed, Linked, Attempts, ContextsStarted, NEW n \in Node, NEW m \in Node, Calls(n, m),
         ctx'[m] # NoSpan, OpenContexts
  PROVE  start'[m] >= SpanAt(ctx'[m]).start
<1>1. /\ start[n] \in Nat /\ total[n] \in Nat /\ elapsed[n] \in Nat /\ out[n].latency \in Nat
  BY FieldTypes, OutcomeFields
<1>2. CASE pc[n] = "children"
  <2>1. ctx'[m] = OwnSpan(n) /\ start'[m] = start[n] + total[n] + elapsed[n]
    BY <1>2 DEF Calls, CallContext, CallStart, AttemptStart
  <2>2. Current(n).start = start[n] + total[n]
    BY <1>2 DEF Attempts, JustBegun, InSpan, AttemptStart
  <2>3. SpanAt(OwnSpan(n)) = Current(n)
    BY DEF SpanAt, OwnSpan, Current
  <2> QED
    BY <1>1, <2>1, <2>2, <2>3
<1>3. CASE pc[n] # "children"
  <2>1. ctx'[m] = ctx[n] /\ pc[n] # "idle"
    BY <1>3 DEF Calls, CallContext
  <2>2. start[n] >= SpanAt(ctx[n]).start
    BY <2>1 DEF ContextsStarted
  <2>3. start'[m] \in {start[n], start[n] + out[n].latency, start[n] + elapsed[n]}
    BY <1>3 DEF Calls, CallStart
  <2>4. SpanAt(ctx[n]) \in Span
    BY <2>1, SpanSeq DEF OpenContexts, Names, SpanAt
  <2>5. SpanAt(ctx[n]).start \in Nat
    BY <2>4, SpanFields
  <2> HIDE DEF SpanAt
  <2> QED
    BY <1>1, <2>1, <2>2, <2>3, <2>5
<1> QED
  BY <1>2, <1>3

LEMMA ContextsStartedStep ==
  ASSUME Typed, Linked, RootFree, Nested, Attempts, ContextsStarted, NEW n \in Node, Step(n)
  PROVE  ContextsStarted'
<1> SUFFICES ASSUME NEW m \in Node, pc'[m] # "idle", ctx'[m] # NoSpan
             PROVE  start'[m] >= SpanAt(ctx[m])'.start
  BY DEF ContextsStarted
<1>1. SpanAt(ctx[m])' = SpanAt(ctx'[m])
  BY ContextKept DEF Nested, SpanAt
<1>2. CASE Calls(n, m)
  BY <1>1, <1>2, CallsLater DEF Nested
<1>3. CASE pc[m] # "idle" /\ ctx'[m] = ctx[m] /\ start'[m] = start[m]
  BY <1>1, <1>3 DEF ContextsStarted
<1> QED
  BY <1>2, <1>3, FrameOrigin

\* A span of a frame n that a step begins or ends.
LEMMA NewSpanStarts ==
  ASSUME Typed, Linked, Nested, Attempts, ContextsStarted, NEW n \in Node, Step(n),
         NEW i \in DOMAIN spans'[n],
         ~(i \in DOMAIN spans[n] /\ spans'[n][i] = spans[n][i])
  PROVE  LET s == spans'[n][i]
         IN /\ s.parent = ctx[n] /\ s.start >= start[n] /\ s.end >= s.start /\ s.start \in Nat
<1>1. /\ start[n] \in Nat /\ total[n] \in Nat /\ AttemptStart(n) = start[n] + total[n]
      /\ PublishLatency \in Nat
  BY FieldTypes, PlanNumbers DEF AttemptStart
<1>2. CASE Finishes(n) /\ i = Len(spans[n]) /\ spans'[n][i] = Ended(n, Current(n), out'[n])
  <2>1. InSpan(n) /\ out'[n].latency \in Nat
    BY <1>2, FinishesEffect, OutcomeFields
  <2>2. /\ Current(n).start = AttemptStart(n) /\ Current(n).parent = ctx[n]
    BY <2>1 DEF Attempts, JustBegun, Nested, OwnParents
  <2>3. /\ spans'[n][i].start = Current(n).start /\ spans'[n][i].parent = Current(n).parent
        /\ spans'[n][i].end = AttemptStart(n) + out'[n].latency
    BY <1>2, <2>1, SpanSeq DEF Ended, Span
  <2> QED
    BY <1>1, <2>1, <2>2, <2>3
<1>3. CASE IsSkip(n, spans'[n][i])
  BY <1>1, <1>3 DEF IsSkip
<1>4. CASE IsPublish(n, spans'[n][i])
  BY <1>1, <1>4 DEF IsPublish
<1>5. CASE IsOpened(n, spans'[n][i])
  BY <1>1, <1>5 DEF IsOpened
<1> QED
  BY <1>2, <1>3, <1>4, <1>5, SpanOrigin

Monotone == ParentsKnown /\ ContextsStarted /\ TimeMonotone

LEMMA MonotoneStep ==
  ASSUME Typed, Linked, RootFree, Nested, Attempts, Monotone, NEW n \in Node, Step(n)
  PROVE  Monotone'
<1> USE DEF Monotone
<1>1. ContextsStarted'
  BY ContextsStartedStep
<1>2. ASSUME NEW m \in Node, NEW i \in DOMAIN spans'[m]
      PROVE  LET s == spans'[m][i]
             IN /\ s.end >= s.start
                /\ s.parent # NoSpan => /\ Names(s.parent) /\ s.start >= SpanAt(s.parent).start
  <2> DEFINE s == spans'[m][i]
  <2>1. CASE i \in DOMAIN spans[m] /\ s = spans[m][i]
    BY <2>1 DEF ParentsKnown, TimeMonotone
  <2>2. CASE ~(i \in DOMAIN spans[m] /\ s = spans[m][i])
    <3>1. m = n
      BY <2>2, OthersKeepSpans
    <3>2. s.parent = ctx[n] /\ s.start >= start[n] /\ s.end >= s.start /\ s.start \in Nat
      BY <2>2, <3>1, NewSpanStarts
    <3>3. ASSUME ctx[n] # NoSpan
          PROVE  Names(ctx[n]) /\ start[n] >= SpanAt(ctx[n]).start /\ SpanAt(ctx[n]).start \in Nat
      <4>1. pc[n] # "idle"
        BY OwnFrame
      <4>2. Names(ctx[n]) /\ start[n] >= SpanAt(ctx[n]).start
        BY <3>3, <4>1 DEF Nested, OpenContexts, ContextsStarted
      <4>3. SpanAt(ctx[n]) \in Span
        BY <4>2, SpanSeq DEF Names, SpanAt
      <4> QED
        BY <4>2, <4>3, SpanFields
    <3>4. start[n] \in Nat
      BY FieldTypes
    <3>5. s.parent # NoSpan => Names(s.parent) /\ s.start >= SpanAt(s.parent).start
      <4> HIDE DEF s
      <4> QED
        BY <3>2, <3>3, <3>4
    <3> QED
      BY <3>2, <3>5
  <2> QED
    BY <2>1, <2>2
<1>3. ASSUME NEW c, Names(c)
      PROVE  c[2] \in DOMAIN spans'[c[1]] /\ spans'[c[1]][c[2]].start = SpanAt(c).start
  BY <1>3, SpanKept DEF Names, SpanAt
<1>4. ParentsKnown'
  <2> SUFFICES ASSUME NEW m \in Node, NEW i \in DOMAIN spans'[m], spans'[m][i].parent # NoSpan
               PROVE  /\ spans'[m][i].parent[1] \in Node
                      /\ spans'[m][i].parent[2] \in DOMAIN spans'[spans'[m][i].parent[1]]
    BY DEF ParentsKnown, Names
  <2>1. Names(spans'[m][i].parent)
    BY <1>2
  <2> QED
    BY <1>3, <2>1 DEF Names
<1>5. TimeMonotone'
  <2> SUFFICES ASSUME NEW m \in Node, NEW i \in DOMAIN spans'[m]
               PROVE  LET s == spans'[m][i]
                      IN /\ s.end >= s.start
                         /\ s.parent # NoSpan => s.start >= spans'[s.parent[1]][s.parent[2]].start
    BY DEF TimeMonotone, SpanAt
  <2> DEFINE s == spans'[m][i]
  <2>1. s.end >= s.start
    BY <1>2
  <2>2. ASSUME s.parent # NoSpan
        PROVE  s.start >= spans'[s.parent[1]][s.parent[2]].start
    <3>1. Names(s.parent) /\ s.start >= SpanAt(s.parent).start
      BY <1>2, <2>2
    <3>2. spans'[s.parent[1]][s.parent[2]].start = SpanAt(s.parent).start
      BY <1>3, <3>1
    <3> QED
      BY <3>1, <3>2
  <2> QED
    BY <2>1, <2>2
<1> QED
  BY <1>1, <1>4, <1>5

-----------------------------------------------------------------------------
(***************************************************************************)
(* Retries: the work span j of n is the attempt before that of span i.     *)
(***************************************************************************)
Precedes(n, j, i) ==
  LET this == spans[n][i]  before == spans[n][j]
  IN /\ j < i
     /\ \A k \in Works(n) : k <= j \/ k >= i
     /\ before.attempt = this.attempt - 1
     /\ ~before.ok /\ ~before.open /\ before.err # "context_canceled"
     /\ this.start = before.end + RetryDelay(n, this.attempt)

LEMMA RetryPrecedes ==
  ASSUME Typed, Linked, Nested, Attempts, NEW n \in Node, BeginAttempt(n), Step(n),
         attempt[n] > 0, NEW j, j = Len(spans[n]), NEW i, i = Len(spans'[n])
  PROVE  j \in Works(n)' /\ Precedes(n, j, i)'
<1>1. pc[n] = "retry" /\ ~InSpan(n)
  <2>1. pc[n] = "entered" => ~(attempt[n] > 0)
    BY FieldTypes DEF Attempts, Fresh
  <2> QED
    BY <2>1 DEF BeginAttempt, InSpan
<1>2. LastIsWork(n) /\ Waits(n)
  BY DEF Attempts
<1>3. j \in DOMAIN spans[n] /\ spans[n][j].kind = "work" /\ ~spans[n][j].open
  <2>1. j \in DOMAIN spans[n]
    BY <1>1, <1>2, SpanSeq DEF LastIsWork, Trying, InSpan
  <2> QED
    BY <1>1, <1>2, <2>1 DEF LastIsWork, Trying, Current, Nested, OpenSpans
<1>4. j \in DOMAIN spans'[n] /\ spans'[n][j] = spans[n][j]
  BY <1>1, <1>3, SpanKept, FramesMove
<1>5. IsOpened(n, spans'[n][i])
  BY BeginEffect
<1>6. j \in Nat /\ j < i /\ \A k \in DOMAIN spans[n] : k <= j
  <2>1. i = j + 1 \/ i = j + 2
    BY BeginEffect
  <2> QED
    BY <2>1, SpanSeq
<1>7. ASSUME NEW k \in DOMAIN spans'[n], spans'[n][k].kind = "work"
      PROVE  k <= j \/ k >= i
  <2>1. k \in DOMAIN spans[n] \/ k = i
    BY <1>1, <1>7, SpanOrigin, FramesMove DEF IsPublish, IsSkip
  <2> QED
    BY <1>6, <2>1
<1>8. /\ spans[n][j].attempt = attempt[n] - 1 /\ ~spans[n][j].ok
      /\ spans[n][j].err # "context_canceled"
      /\ AttemptStart(n) = spans[n][j].end + RetryDelay(n, attempt[n])
  BY <1>1, <1>2 DEF Waits, Current
<1>9. j \in Works(n)'
  BY <1>3, <1>4 DEF Works
<1>10. Precedes(n, j, i)'
  <2>1. \A k \in Works(n)' : k <= j \/ k >= i
    BY <1>7 DEF Works
  <2>2. spans'[n][i].attempt = attempt[n] /\ spans'[n][i].start = AttemptStart(n)
    BY <1>5 DEF IsOpened
  <2> QED
    BY <1>3, <1>4, <1>6, <1>8, <2>1, <2>2 DEF Precedes
<1> QED
  BY <1>9, <1>10

LEMMA RetriesSeparatedStep ==
  ASSUME Typed, Linked, Nested, Attempts, RetriesSeparated, NEW n \in Node, Step(n)
  PROVE  RetriesSeparated'
<1> SUFFICES ASSUME NEW m \in Node, NEW i \in Works(m)', spans'[m][i].attempt > 0
             PROVE  \E j \in Works(m)' : Precedes(m, j, i)'
  BY DEF RetriesSeparated, Precedes
<1>1. i \in DOMAIN spans'[m] /\ spans'[m][i].kind = "work"
  BY DEF Works
<1>2. CASE i \in DOMAIN spans[m]
  <2>1. i \in Works(m) /\ spans[m][i].attempt > 0
    BY <1>1, <1>2, SpanKept DEF Works
  <2>2. PICK j \in Works(m) : Precedes(m, j, i)
    BY <2>1 DEF RetriesSeparated, Precedes
  <2>3. j \in DOMAIN spans[m] /\ ~spans[m][j].open
    BY <2>2 DEF Works, Precedes
  <2>4. j \in DOMAIN spans'[m] /\ spans'[m][j] = spans[m][j]
    <3>1. ~(m = n /\ j = Len(spans[n]) /\ Finishes(n))
      BY <2>3, FramesMove DEF Nested, OpenSpans
    <3> QED
      BY <2>3, <3>1, SpanKept
  <2>5. ASSUME NEW k \in Works(m)' PROVE k <= j \/ k >= i
    <3>1. k \in DOMAIN spans'[m] /\ spans'[m][k].kind = "work"
      BY DEF Works
    <3>2. CASE k \in DOMAIN spans[m]
      BY <2>2, <3>1, <3>2, SpanKept DEF Works, Precedes
    <3>3. CASE k \notin DOMAIN spans[m]
      <4>1. k \in Nat \ {0} /\ DOMAIN spans[m] = 1..Len(spans[m]) /\ Len(spans[m]) \in Nat
        <5>1. Typed'
          BY TypedStep DEF Next
        <5>2. spans'[m] \in Seq(Span)
          BY <5>1 DEF Typed, TypeOK
        <5>3. DOMAIN spans'[m] = 1..Len(spans'[m]) /\ Len(spans'[m]) \in Nat
          BY <5>2, LenProperties
        <5> QED
          BY <3>1, <5>3, SpanSeq
      <4> QED
        BY <1>2, <3>3, <4>1
    <3> QED
      BY <3>2, <3>3
  <2>6. spans'[m][i].start = spans[m][i].start /\ spans'[m][i].attempt = spans[m][i].attempt
    BY <1>2, SpanKept
  <2>7. j \in Works(m)'
    BY <2>2, <2>4 DEF Works
  <2>8. Precedes(m, j, i)'
    BY <2>2, <2>4, <2>5, <2>6 DEF Precedes
  <2> QED
    BY <2>7, <2>8
<1>3. CASE i \notin DOMAIN spans[m]
  <2>1. m = n /\ BeginAttempt(n) /\ i = Len(spans'[n]) /\ IsOpened(n, spans'[n][i])
    <3>1. ~Finishes(n) \/ m # n
      BY <1>1, <1>3, SpanOrigin, FinishesEffect, SpanSeq DEF IsSkip, IsPublish
    <3> QED
      BY <1>1, <1>3, <3>1, SpanOrigin DEF IsSkip, IsPublish
  <2>2. attempt[n] > 0
    BY <2>1 DEF IsOpened
  <2>3. PICK j : j = Len(spans[n])
    OBVIOUS
  <2>4. j \in Works(n)' /\ Precedes(n, j, i)'
    BY <2>1, <2>2, <2>3, RetryPrecedes
  <2> QED
    BY <2>1, <2>4
<1> QED
  BY <1>2, <1>3

-----------------------------------------------------------------------------
(***************************************************************************)
(* Below a failure nothing is executed and no time passes: the operations  *)
(* are skipped, and a group of skipped branches has the first one's error. *)
(***************************************************************************)
IsSkipped(o, cause) == o.latency = 0 /\ ~o.ok /\ o.cascaded /\ o.err = cause.err

Doomed ==
  \A n \in Node : pc[n] # "idle" /\ Kind[n] # "seq" /\ ~up[n].ok =>
    /\ pc[n] \in {"entered", "joining", "returned"}
    /\ pc[n] = "returned" => IsSkipped(out[n], up[n])

Cascades == \A n \in Node : pc[n] = "cascading" => ~out[n].ok /\ elapsed[n] = out[n].latency

LEMMA NotSequence == \A p \in Node : \A c \in Callees(p) : c \in Node /\ Kind[c] # "seq"
  BY Tree, PlanIsTree

LEMMA SkippedGroup ==
  ASSUME Typed, Linked, Given, Doomed, NEW n \in Node, JoinGroup(n), Kind[n] = "par", ~up[n].ok
  PROVE  IsSkipped(out'[n], up[n])
<1> DEFINE os == BranchOutcomes(n)
<1>1. PICK longest \in Latencies(os) : out' = [out EXCEPT ![n] = Aggregate(os, longest)]
  BY DEF JoinGroup
<1>2. \A k \in KidSet(n) : IsSkipped(out[k], up[n])
  <2> SUFFICES ASSUME NEW k \in KidSet(n) PROVE IsSkipped(out[k], up[n])
    OBVIOUS
  <2>1. k \in Callees(n) /\ k \in Node /\ Kind[k] # "seq"
    BY NotSequence DEF Callees
  <2>2. pc[n] = "joining" /\ pc[k] = "returned"
    BY DEF JoinGroup, BranchesDone
  <2>3. up[k] = up[n]
    BY <2>1, <2>2 DEF Given, GivenUp
  <2> QED
    BY <2>1, <2>2, <2>3 DEF Doomed
<1>3. \A i \in DOMAIN Kids[n] : os[i] = out[Kids[n][i]] /\ IsSkipped(os[i], up[n])
  BY <1>2 DEF BranchOutcomes, KidSet
<1>4. DOMAIN os = DOMAIN Kids[n] /\ DOMAIN Kids[n] = 1..Len(Kids[n]) /\ Len(Kids[n]) \in Nat \ {0}
  <2>1. Kids[n] \in Seq(Node) /\ Kids[n] # <<>>
    BY PlanShape, PlanIsTree
  <2> QED
    BY <2>1, LenProperties, EmptySeq DEF BranchOutcomes
<1> HIDE DEF os
<1>5. longest = 0
  BY <1>1, <1>3, <1>4 DEF Latencies, IsSkipped
<1>6. Failing(os) = DOMAIN Kids[n] /\ 1 \in Failing(os)
  BY <1>3, <1>4 DEF Failing, IsSkipped
<1>7. IsSkipped(FirstFailure(os), up[n])
  <2>1. \E i \in Failing(os) : \A j \in Failing(os) : i <= j
    BY <1>4, <1>6
  <2>2. (CHOOSE i \in Failing(os) : \A j \in Failing(os) : i <= j) \in Failing(os)
    BY <2>1
  <2> QED
    BY <1>3, <1>6, <2>2 DEF FirstFailure
<1>8. IsSkipped(Aggregate(os, longest), up[n])
  BY <1>5, <1>6, <1>7 DEF Aggregate, Failed, IsSkipped
<1>9. out'[n] = Aggregate(os, longest)
  BY <1>1 DEF Typed, TypeOK
<1> QED
  BY <1>8, <1>9

LEMMA DoomedStep ==
  ASSUME Typed, Linked, KindsFit, Given, Doomed, NEW n \in Node, Step(n)
  PROVE  Doomed'
<1> SUFFICES ASSUME NEW m \in Node, pc'[m] # "idle", Kind[m] # "seq", ~up'[m].ok
             PROVE  /\ pc'[m] \in {"entered", "joining", "returned"}
                    /\ pc'[m] = "returned" => IsSkipped(out'[m], up'[m])
  BY DEF Doomed
<1>1. CASE m # n
  <2>1. CASE pc[m] = "idle"
    BY <1>1, <2>1, OtherFrames DEF Calls
  <2>2. CASE pc[m] # "idle"
    <3>1. pc'[m] = pc[m] /\ up'[m] = up[m] /\ out'[m] = out[m]
      BY <1>1, <2>2, OtherFrames
    <3> QED
      BY <2>2, <3>1 DEF Doomed
  <2> QED
    BY <2>1, <2>2
<1>2. CASE m = n
  <2>1. up'[n] = up[n]
    BY <1>2, OwnFrame DEF StepReturned, KindsFit
  <2>2. pc[n] \in {"entered", "joining"}
    BY <1>2, <2>1, OwnFrame DEF Doomed
  <2>3. ~StartSequence(n) /\ ~BeginAttempt(n)
    BY <1>2, <2>1, <2>2 DEF StartSequence, BeginAttempt
  <2>4. StartGroup(n) \/ JoinGroup(n) \/ Skip(n)
    BY <2>2, <2>3 DEF Step, Call, Calling, StepReturned, EndSequence, AbortAttempt, StartChildren,
       ChildReturned, FinishAttempt, AttemptSucceeded, Retry, GiveUp, FallbackReturned, Exhaust,
       StartCascade, SkippedReturned, Return
  <2>5. CASE StartGroup(n)
    BY <1>2, <2>5 DEF StartGroup
  <2>6. CASE JoinGroup(n)
    <3>1. Kind[n] = "par" /\ pc'[n] = "returned"
      BY <2>6 DEF JoinGroup, KindsFit
    <3> QED
      BY <1>2, <2>1, <2>6, <3>1, SkippedGroup
  <2>7. CASE Skip(n)
    <3>1. pc'[n] = "returned" /\ out'[n] = Skipped(up[n])
      BY <2>7 DEF Skip, Typed, TypeOK
    <3> QED
      BY <1>2, <2>1, <3>1 DEF Skipped, Failed, IsSkipped
  <2> QED
    BY <2>4, <2>5, <2>6, <2>7
<1> QED
  BY <1>1, <1>2

\* The kids of a cascading frame that have returned were skipped for its failure.
LEMMA SkippedKid ==
  ASSUME Given, Doomed, Cascades, NEW n \in Node, pc[n] = "cascading",
         NEW k \in Callees(n), pc[k] = "returned"
  PROVE  IsSkipped(out[k], out[n])
<1>1. k \in Node /\ Kind[k] # "seq"
  BY NotSequence
<1>2. up[k] = out[n] /\ ~out[n].ok
  BY <1>1 DEF Given, GivenUp, CallParent, Cascades
<1> QED
  BY <1>1, <1>2 DEF Doomed

LEMMA CascadesStep ==
  ASSUME Typed, Linked, Given, Doomed, Cascades, NEW n \in Node, Step(n)
  PROVE  Cascades'
<1> SUFFICES ASSUME NEW m \in Node, pc'[m] = "cascading"
             PROVE  ~out'[m].ok /\ elapsed'[m] = out'[m].latency
  BY DEF Cascades
<1>1. CASE m # n
  BY <1>1, OtherFrames DEF Cascades, Calls
<1>2. CASE m = n /\ StartCascade(n)
  BY <1>2 DEF StartCascade, ShouldCascade, Typed, TypeOK
<1>3. CASE m = n /\ SkippedReturned(n)
  <2>1. pc[n] = "cascading" /\ Callee(n) \in Callees(n) /\ pc[Callee(n)] = "returned"
    BY <1>3, ConsumeEffect DEF SkippedReturned, Consume
  <2>2. out[Callee(n)].latency = 0
    BY <2>1, SkippedKid DEF IsSkipped
  <2>3. elapsed'[n] = elapsed[n] + out[Callee(n)].latency /\ out'[n] = out[n]
    BY <1>3 DEF SkippedReturned, Typed, TypeOK
  <2> QED
    BY <1>3, <2>1, <2>2, <2>3, FieldTypes DEF Cascades
<1>4. CASE m = n /\ ~StartCascade(n) /\ ~SkippedReturned(n)
  <2>1. Call(n) /\ pc[n] = "cascading"
    <3> USE DEF Typed, TypeOK
    <3>1. CASE Local(n)
      BY <1>4, <3>1 DEF Local, StartSequence, EndSequence, Skip, BeginAttempt, AbortAttempt,
         StartChildren, FinishAttempt, AttemptSucceeded, Retry, GiveUp, Exhaust, Return
    <3>2. CASE Call(n)
      <4>1. Callee(n) # n
        BY <3>2, CalleeType, Tree DEF Call, Callees
      <4> QED
        BY <1>4, <3>2, <4>1 DEF Call
    <3>3. CASE StartGroup(n) \/ JoinGroup(n)
      BY <1>4, <3>3 DEF StartGroup, JoinGroup
    <3>4. CASE StepReturned(n) \/ ChildReturned(n) \/ FallbackReturned(n)
      <4>1. pc[n] # "cascading"
        BY <3>4 DEF StepReturned, ChildReturned, FallbackReturned
      <4> QED
        BY <1>4, <3>4, <4>1, ConsumeEffect
    <3> QED
      BY <1>4, <3>1, <3>2, <3>3, <3>4 DEF Step, Local
  <2> QED
    BY <1>4, <2>1 DEF Call, Cascades
<1> QED
  BY <1>1, <1>2, <1>3, <1>4

-----------------------------------------------------------------------------
(***************************************************************************)
(* Containment.  Reach(n) is the time up to which the spans that the call  *)
(* of n has made under its context may go; it only grows while n runs, and *)
(* is handed to the caller's own sum when n returns.  A timeout that cuts  *)
(* the sum of several attempts would make it shrink, which is why such     *)
(* nodes are left out.                                                     *)
(***************************************************************************)
Quick ==
  \A n \in Node : Timeout[n] > 0 /\ Uncut(n) =>
    /\ pc[n] \in {"begun", "children", "attempted"} => total[n] = 0
    /\ pc[n] # "retry"
    /\ pc[n] = "children" => elapsed[n] <= Timeout[n]
    /\ pc[n] = "attempted" => out[n].latency <= Timeout[n]

LEMMA QuickStep ==
  ASSUME Typed, Linked, Attempts, Quick, NEW n \in Node, Step(n)
  PROVE  Quick'
<1> SUFFICES ASSUME NEW m \in Node, Timeout[m] > 0, Uncut(m)
             PROVE  /\ pc'[m] \in {"begun", "children", "attempted"} => total'[m] = 0
                    /\ pc'[m] # "retry"
                    /\ pc'[m] = "children" => elapsed'[m] <= Timeout[m]
                    /\ pc'[m] = "attempted" => out'[m].latency <= Timeout[m]
  BY DEF Quick, Uncut
<1>1. CASE m # n
  BY <1>1, OtherFrames DEF Quick, Calls
<1>2. CASE m = n
  <2> USE DEF Typed, TypeOK
  <2>1. Timeout[n] \in Nat \ {0} /\ Retries[n] = 0 /\ Kids[n] = <<>>
    BY <1>2, PlanNumbers DEF Uncut
  <2>2. /\ pc[n] \in {"begun", "children", "attempted"} => total[n] = 0
        /\ pc[n] # "retry"
        /\ pc[n] = "children" => elapsed[n] <= Timeout[n]
        /\ pc[n] = "attempted" => out[n].latency <= Timeout[n]
    BY <1>2 DEF Quick
  <2>3. CASE BeginAttempt(n)
    <3>1. pc[n] = "entered" /\ pc'[n] = "begun" /\ total'[n] = total[n]
      BY <2>2, <2>3 DEF BeginAttempt
    <3> QED
      BY <1>2, <3>1 DEF Attempts, Fresh
  <2>4. CASE StartChildren(n)
    <3>1. pc[n] = "begun" /\ pc'[n] = "children" /\ total'[n] = total[n]
          /\ elapsed'[n] = die[n].latency
      BY <2>4 DEF StartChildren
    <3>2. die[n].latency \in Nat
      BY FieldTypes DEF Die
    <3>3. ~TooSlow(n, die[n])
      BY <2>4 DEF StartChildren, Early, EarlyOutcome, Failed
    <3> QED
      BY <1>2, <2>1, <2>2, <3>1, <3>2, <3>3 DEF TooSlow
  <2>5. CASE ChildReturned(n)
    <3>1. idx[n] <= 0 /\ idx[n] \in Nat \ {0}
      BY <2>1, <2>5, FieldTypes, EmptySeq DEF ChildReturned, Consume, Loop
    <3> QED
      BY <3>1
  <2>6. CASE AbortAttempt(n)
    <3>1. pc[n] = "begun" /\ pc'[n] = "attempted" /\ total'[n] = total[n] /\ out'[n] = Early(n)
      BY <2>6 DEF AbortAttempt
    <3>2. die[n].latency \in Nat
      BY FieldTypes DEF Die
    <3>3. ~Early(n).ok
      BY <2>6 DEF AbortAttempt
    <3>4. Early(n).latency <= Timeout[n]
      BY <2>1, <3>2, <3>3 DEF Early, EarlyOutcome, TooSlow, Failed, Succeeded
    <3> QED
      BY <1>2, <2>2, <3>1, <3>4
  <2>7. CASE FinishAttempt(n)
    <3>1. pc[n] = "children" /\ pc'[n] = "attempted" /\ total'[n] = total[n]
          /\ out'[n] = AttemptOutcome(n)
      BY <2>7 DEF FinishAttempt
    <3> QED
      BY <1>2, <2>2, <3>1 DEF AttemptOutcome, Failed, Succeeded
  <2>8. ~Retry(n)
    <3>1. attempt[n] \in Nat
      BY FieldTypes
    <3> QED
      BY <2>1, <3>1 DEF Retry, LastAttempt
  <2>9. CASE Call(n)
    <3>1. Callee(n) # n
      BY <2>9, CalleeType, Tree DEF Call, Callees
    <3> QED
      BY <1>2, <2>2, <2>9, <3>1, OwnFrame DEF Call, Calling, Retry
  <2>10. ASSUME ~BeginAttempt(n), ~StartChildren(n), ~ChildReturned(n), ~Finishes(n), ~Retry(n),
                ~Call(n)
         PROVE  pc'[n] \notin {"begun", "children", "attempted", "retry"}
    <3>1. CASE Local(n)
      BY <2>10, <3>1 DEF Local, Finishes, StartSequence, EndSequence, Skip, AttemptSucceeded,
         GiveUp, Exhaust, StartCascade, Return
    <3>2. CASE StartGroup(n) \/ JoinGroup(n)
      BY <3>2 DEF StartGroup, JoinGroup
    <3>3. CASE StepReturned(n) \/ FallbackReturned(n) \/ SkippedReturned(n)
      <4>1. pc[n] \in {"sequence", "recovering", "cascading"}
        BY <3>3 DEF StepReturned, FallbackReturned, SkippedReturned
      <4>2. pc'[n] = pc[n] \/ pc'[n] \in {"recovering", "settled"}
        BY <3>3, ConsumeEffect
      <4> QED
        BY <4>1, <4>2
    <3> QED
      BY <2>10, <3>1, <3>2, <3>3 DEF Step, Local
  <2> QED
    BY <1>2, <2>3, <2>4, <2>5, <2>6, <2>7, <2>8, <2>9, <2>10 DEF Finishes
<1> QED
  BY <1>1, <1>2

Reach(n) ==
  start[n] + (IF pc[n] \in {"settled", "recovering", "cascading", "returned"} THEN out[n].latency
              ELSE IF pc[n] = "sequence" THEN elapsed[n]
              ELSE IF pc[n] = "joining" \/ ~Uncut(n) THEN 0
              ELSE IF pc[n] = "attempted" THEN total[n] + out[n].latency
              ELSE total[n])

\* A call made under the span c may end at e.
Within(c, e) ==
  IF SpanAt(c).open
  THEN /\ pc[c[1]] = "children"
       /\ \/ e <= AttemptStart(c[1]) + elapsed[c[1]]
          \/ \E m \in Node : pc[m] # "idle" /\ ctx[m] = c /\ e <= Reach(m)
  ELSE e <= SpanAt(c).end

AllWithin ==
  \A n \in Node : Uncut(n) => \A i \in DOMAIN spans[n] :
    spans[n][i].kind # "publish" /\ spans[n][i].parent # NoSpan
      => Within(spans[n][i].parent, spans[n][i].end)

LEMMA ReachNat ==
  ASSUME Typed, NEW n \in Node
  PROVE  Reach(n) \in Nat /\ Reach(n) >= start[n]
<1>1. start[n] \in Nat /\ total[n] \in Nat /\ elapsed[n] \in Nat /\ out[n].latency \in Nat
  BY FieldTypes, OutcomeFields
<1> QED
  BY <1>1 DEF Reach

LEMMA FallbackLatency ==
  ASSUME Typed, NEW n \in Node, FallbackReturned(n)
  PROVE  out'[n].latency = out[n].latency + out[Callee(n)].latency
<1> DEFINE waited == [out[n] EXCEPT !.latency = @ + out[Callee(n)].latency]
<1>1. out'[n] = Recovered(waited, "fallback") \/ out'[n] = waited
  <2>1. \/ out' = [out EXCEPT ![n] = Recovered(waited, "fallback")]
        \/ out' = [out EXCEPT ![n] = waited]
    BY DEF FallbackReturned
  <2> QED
    BY <2>1 DEF Typed, TypeOK
<1>2. out[Callee(n)].latency \in Nat /\ out[n] \in Outcome /\ out[n].latency \in Nat
  BY CalleeType, FieldTypes, OutcomeFields DEF FallbackReturned, Consume
<1>3. waited.latency = out[n].latency + out[Callee(n)].latency /\ waited \in Outcome
  <2>1. out[n].latency + out[Callee(n)].latency \in Nat
    BY <1>2
  <2>2. waited \in Outcome
    BY <1>2, <2>1, OutcomeFields
  <2> QED
    BY <1>2, <2>2 DEF Outcome
<1> HIDE DEF waited
<1> QED
  BY <1>1, <1>3 DEF Recovered, Outcome

LEMMA ReachGrows ==
  ASSUME Typed, Linked, KindsFit, Attempts, Quick, NEW n \in Node, Step(n)
  PROVE  Reach(n) <= Reach(n)'
<1> USE DEF Typed, TypeOK
<1>1. /\ start[n] \in Nat /\ total[n] \in Nat /\ elapsed[n] \in Nat /\ out[n].latency \in Nat
      /\ Timeout[n] \in Nat /\ start'[n] = start[n]
  BY FieldTypes, OutcomeFields, OwnFrame, PlanNumbers
<1>2. /\ elapsed'[n] \in Nat /\ out'[n].latency \in Nat
  <2>1. Typed'
    BY TypedStep DEF Next
  <2> QED
    BY <2>1, OutcomeFields
<1>3. pc[n] = "entered" => total[n] = 0
  BY DEF Attempts, Fresh
<1>4. ASSUME pc'[n] \in {"settled", "recovering", "cascading", "returned"}, pc[n] \in {"entered", "joining"}
      PROVE  Reach(n) <= Reach(n)'
  BY <1>1, <1>2, <1>3, <1>4 DEF Reach
<1>5. CASE StartSequence(n) \/ StartGroup(n) \/ JoinGroup(n) \/ Skip(n)
  <2>1. CASE StartSequence(n)
    <3>1. pc[n] = "entered" /\ pc'[n] = "sequence"
      BY <2>1 DEF StartSequence
    <3> QED
      BY <1>1, <1>2, <1>3, <3>1 DEF Reach
  <2>2. CASE StartGroup(n)
    <3>1. pc[n] = "entered" /\ pc'[n] = "joining"
      BY <2>2 DEF StartGroup
    <3> QED
      BY <1>1, <1>3, <3>1 DEF Reach
  <2>3. CASE JoinGroup(n) \/ Skip(n)
    <3>1. pc[n] \in {"entered", "joining"} /\ pc'[n] = "returned"
      BY <2>3 DEF JoinGroup, Skip
    <3> QED
      BY <1>4, <3>1
  <2> QED
    BY <1>5, <2>1, <2>2, <2>3
<1>6. CASE StepReturned(n) \/ EndSequence(n)
  <2>1. CASE StepReturned(n)
    <3>1. /\ pc[n] = "sequence" /\ pc'[n] = "sequence"
      BY <2>1, ConsumeEffect DEF StepReturned
    <3>2. elapsed'[n] = elapsed[n] + out[Callee(n)].latency
      BY <2>1 DEF StepReturned
    <3>3. out[Callee(n)].latency \in Nat
      BY <2>1, CalleeType, FieldTypes, OutcomeFields DEF StepReturned, Consume
    <3> QED
      BY <1>1, <3>1, <3>2, <3>3 DEF Reach
  <2>2. CASE EndSequence(n)
    <3>1. pc[n] = "sequence" /\ pc'[n] = "returned" /\ out'[n].latency = elapsed[n]
      BY <2>2, FieldTypes DEF EndSequence, Outcome
    <3> QED
      BY <1>1, <3>1 DEF Reach
  <2> QED
    BY <1>6, <2>1, <2>2
<1>7. CASE BeginAttempt(n) \/ StartChildren(n) \/ ChildReturned(n) \/ Finishes(n)
  <2>1. total'[n] = total[n]
    BY <1>7, OwnFrame DEF BeginAttempt, StartChildren, ChildReturned, Consume, Finishes,
       AbortAttempt, FinishAttempt
  <2>2. pc[n] \in {"entered", "begun", "children", "retry"}
    BY <1>7 DEF BeginAttempt, StartChildren, ChildReturned, Finishes, AbortAttempt, FinishAttempt
  <2>3. pc'[n] \in {"begun", "children", "attempted"}
    <3>1. ChildReturned(n) => pc'[n] = "children"
      BY ConsumeEffect DEF ChildReturned
    <3> QED
      BY <1>7, <3>1 DEF BeginAttempt, StartChildren, Finishes, AbortAttempt, FinishAttempt
  <2>4. Reach(n) = start[n] + (IF Uncut(n) THEN total[n] ELSE 0)
    BY <2>2 DEF Reach
  <2>5. \/ Reach(n)' = start[n] + (IF Uncut(n) THEN total[n] ELSE 0)
        \/ Reach(n)' = start[n] + (IF Uncut(n) THEN total[n] + out'[n].latency ELSE 0)
    BY <1>1, <2>1, <2>3 DEF Reach, Uncut
  <2> QED
    BY <1>1, <1>2, <2>4, <2>5
<1>8. CASE AttemptSucceeded(n)
  <2>1. pc[n] = "attempted" /\ pc'[n] = "returned" /\ out'[n].latency = out[n].latency + total[n]
    BY <1>8, FieldTypes DEF AttemptSucceeded, Outcome
  <2> QED
    BY <1>1, <2>1 DEF Reach
<1>9. CASE Retry(n)
  <2>1. pc[n] = "attempted" /\ pc'[n] = "retry" /\ ~LastAttempt(n)
        /\ total'[n] = total[n] + out[n].latency + RetryDelay(n, attempt[n] + 1)
    BY <1>9 DEF Retry
  <2>2. RetryDelay(n, attempt[n] + 1) \in Nat
    <3>1. attempt[n] \in Nat /\ attempt[n] < Retries[n] /\ Retries[n] \in Nat
      BY <2>1, FieldTypes, PlanNumbers DEF LastAttempt
    <3>2. attempt[n] + 1 \in 1..Retries[n]
      BY <3>1
    <3> QED
      BY <3>2, DelaysDoNotWrap
  <2> HIDE DEF RetryDelay
  <2> QED
    BY <1>1, <2>1, <2>2 DEF Reach
<1>10. CASE GiveUp(n)
  <2>1. /\ pc[n] = "attempted" /\ pc'[n] \in {"settled", "recovering"}
        /\ out'[n] = Settled(n, out[n], total[n] + out[n].latency)
    BY <1>10 DEF GiveUp
  <2>2. out'[n].latency = IF Timeout[n] > 0 /\ total[n] + out[n].latency > Timeout[n]
                          THEN Timeout[n] ELSE total[n] + out[n].latency
    BY <2>1, FieldTypes DEF Settled, Outcome
  <2>3. Uncut(n) => out'[n].latency = total[n] + out[n].latency
    BY <1>1, <2>1, <2>2 DEF Quick, Uncut
  <2> QED
    BY <1>1, <1>2, <2>1, <2>3 DEF Reach
<1>11. CASE FallbackReturned(n) \/ Exhaust(n)
  <2>1. CASE FallbackReturned(n)
    <3>1. pc[n] = "recovering" /\ pc'[n] \in {"recovering", "settled"}
      BY <2>1, ConsumeEffect DEF FallbackReturned
    <3>2. out'[n].latency = out[n].latency + out[Callee(n)].latency
      BY <2>1, FallbackLatency
    <3>3. out[Callee(n)].latency \in Nat
      BY <2>1, CalleeType, FieldTypes, OutcomeFields DEF FallbackReturned, Consume
    <3>4. Reach(n) = start[n] + out[n].latency /\ Reach(n)' = start[n] + out'[n].latency
      BY <1>1, <3>1 DEF Reach
    <3> QED
      BY <1>1, <3>2, <3>3, <3>4
  <2>2. CASE Exhaust(n)
    <3>1. pc[n] = "recovering" /\ pc'[n] = "settled" /\ out'[n] = Exhausted(n, out[n])
      BY <2>2 DEF Exhaust
    <3>2. out'[n].latency = out[n].latency
      BY <3>1, FieldTypes DEF Exhausted, Recovered, Outcome
    <3> QED
      BY <1>1, <3>1, <3>2 DEF Reach
  <2> QED
    BY <1>11, <2>1, <2>2
<1>12. CASE StartCascade(n) \/ SkippedReturned(n) \/ Return(n)
  <2>1. pc[n] \in {"settled", "cascading"} /\ out'[n] = out[n]
    BY <1>12 DEF StartCascade, SkippedReturned, Return
  <2>2. pc'[n] \in {"cascading", "returned"}
    <3>1. SkippedReturned(n) => pc'[n] = "cascading"
      BY ConsumeEffect DEF SkippedReturned
    <3> QED
      BY <1>12, <3>1 DEF StartCascade, Return
  <2> QED
    BY <1>1, <2>1, <2>2 DEF Reach
<1>13. CASE Call(n)
  <2>1. Callee(n) # n
    BY <1>13, CalleeType, Tree DEF Call, Callees
  <2>2. pc'[n] = pc[n] /\ total'[n] = total[n] /\ elapsed'[n] = elapsed[n] /\ out'[n] = out[n]
    BY <1>13, <2>1 DEF Call
  <2> QED
    BY <1>1, <2>2 DEF Reach
<1> QED
  BY <1>5, <1>6, <1>7, <1>8, <1>9, <1>10, <1>11, <1>12, <1>13 DEF Step, Finishes

\* A frame that stops running is one whose outcome its caller takes.
TakesOutcome(n) ==
  StepReturned(n) \/ ChildReturned(n) \/ FallbackReturned(n) \/ SkippedReturned(n)

LEMMA TakenBy ==
  ASSUME Typed, Linked, NEW n \in Node, Step(n), NEW m \in Node, pc[m] # "idle", pc'[m] = "idle"
  PROVE  /\ m \in Callees(n) /\ pc[m] = "returned" /\ ctx[m] = CallContext(n) /\ m # n
         /\ (TakesOutcome(n) /\ m = Callee(n)) \/ (JoinGroup(n) /\ m \in KidSet(n))
<1>1. m # n
  BY OwnFrame
<1>2. pc[m] = "returned"
  BY <1>1, OtherFrames
<1>3. CASE JoinGroup(n)
  <2>1. m \in KidSet(n)
    BY <1>1, <1>3 DEF JoinGroup, Typed, TypeOK
  <2>2. m \in Callees(n)
    BY <2>1 DEF Callees
  <2> QED
    BY <1>1, <1>2, <1>3, <2>1, <2>2 DEF Linked
<1>4. CASE TakesOutcome(n)
  <2>1. m = Callee(n) /\ Callee(n) \in Callees(n)
    BY <1>1, <1>4, ConsumeEffect DEF TakesOutcome
  <2> QED
    BY <1>1, <1>2, <1>4, <2>1 DEF Linked
<1>5. ASSUME ~JoinGroup(n), ~TakesOutcome(n) PROVE FALSE
  <2>1. CASE Local(n)
    BY <1>1, <2>1, LocalEffect DEF Typed, TypeOK
  <2>2. CASE Call(n) \/ StartGroup(n)
    BY <2>2 DEF Call, StartGroup, Typed, TypeOK
  <2> QED
    BY <1>5, <2>1, <2>2 DEF Step, Local, TakesOutcome
<1> QED
  BY <1>3, <1>4, <1>5

LEMMA LongestBranch ==
  ASSUME Typed, Linked, NEW n \in Node, JoinGroup(n), NEW k \in KidSet(n)
  PROVE  out[k].latency <= out'[n].latency
<1> DEFINE os == BranchOutcomes(n)
<1>1. PICK longest \in Latencies(os) :
        IsLongest(longest, os) /\ out' = [out EXCEPT ![n] = Aggregate(os, longest)]
  BY DEF JoinGroup
<1>2. out'[n].latency = longest
  BY <1>1 DEF Aggregate, Succeeded, Failed, Typed, TypeOK
<1>3. out[k].latency \in Latencies(os)
  BY DEF KidSet, Latencies, BranchOutcomes
<1> QED
  BY <1>1, <1>2, <1>3 DEF IsLongest

\* What the call of m reached, its caller has when it takes the outcome.
LEMMA ReachHanded ==
  ASSUME Typed, Linked, KindsFit, Given, Doomed, Cascades, NEW n \in Node, Step(n),
         NEW m \in Node, pc[m] # "idle", pc'[m] = "idle"
  PROVE  /\ pc[n] = "children" => Reach(m) <= AttemptStart(n) + elapsed'[n]
         /\ pc[n] # "children" => Reach(m) <= Reach(n)'
<1>1. /\ m \in Callees(n) /\ pc[m] = "returned" /\ m # n
      /\ (TakesOutcome(n) /\ m = Callee(n)) \/ (JoinGroup(n) /\ m \in KidSet(n))
  BY TakenBy
<1>2. /\ start[n] \in Nat /\ total[n] \in Nat /\ elapsed[n] \in Nat /\ out[n].latency \in Nat
      /\ out[m].latency \in Nat /\ start'[n] = start[n]
  BY FieldTypes, OutcomeFields, OwnFrame
<1>3. Reach(m) = start[m] + out[m].latency /\ start[m] = GivenStart(n)
  BY <1>1 DEF Reach, Given
<1>4. CASE JoinGroup(n) /\ m \in KidSet(n)
  <2>1. pc[n] = "joining" /\ pc'[n] = "returned"
    BY <1>4 DEF JoinGroup, Typed, TypeOK
  <2>2. out[m].latency <= out'[n].latency /\ out'[n].latency \in Nat
    <3>1. Typed'
      BY TypedStep DEF Next
    <3> QED
      BY <1>4, <3>1, LongestBranch, OutcomeFields DEF Typed, TypeOK
  <2>3. Reach(n)' = start[n] + out'[n].latency
    BY <1>2, <2>1 DEF Reach
  <2> QED
    BY <1>2, <1>3, <2>1, <2>2, <2>3 DEF GivenStart
<1>5. CASE ChildReturned(n)
  <2>1. pc[n] = "children" /\ elapsed'[n] = elapsed[n] + out[m].latency
    BY <1>1, <1>5 DEF ChildReturned, JoinGroup, Typed, TypeOK
  <2>2. start[m] = AttemptStart(n) + elapsed[n]
    BY <1>3, <2>1 DEF GivenStart, CallStart
  <2> QED
    BY <1>2, <1>3, <2>1, <2>2 DEF AttemptStart
<1>6. CASE StepReturned(n)
  <2>1. pc[n] = "sequence" /\ pc'[n] = "sequence" /\ m = Callee(n)
    BY <1>1, <1>6, ConsumeEffect DEF StepReturned, JoinGroup
  <2>2. elapsed'[n] = elapsed[n] + out[m].latency
    BY <1>6, <2>1 DEF StepReturned, Typed, TypeOK
  <2>3. start[m] = start[n] + elapsed[n]
    BY <1>3, <2>1 DEF GivenStart, CallStart
  <2>4. Reach(n)' = start[n] + elapsed'[n]
    BY <1>2, <2>1 DEF Reach
  <2> QED
    BY <1>2, <1>3, <2>1, <2>2, <2>3, <2>4
<1>7. CASE FallbackReturned(n)
  <2>1. pc[n] = "recovering" /\ pc'[n] \in {"recovering", "settled"} /\ m = Callee(n)
    BY <1>1, <1>7, ConsumeEffect DEF FallbackReturned, JoinGroup
  <2>2. out'[n].latency = out[n].latency + out[m].latency
    BY <1>7, <2>1, FallbackLatency
  <2>3. start[m] = start[n] + out[n].latency
    BY <1>3, <2>1 DEF GivenStart, CallStart
  <2>4. Reach(n)' = start[n] + out'[n].latency
    BY <1>2, <2>1 DEF Reach
  <2> QED
    BY <1>2, <1>3, <2>1, <2>2, <2>3, <2>4
<1>8. CASE SkippedReturned(n)
  <2>1. pc[n] = "cascading" /\ pc'[n] = "cascading" /\ m = Callee(n) /\ out'[n] = out[n]
    BY <1>1, <1>8, ConsumeEffect DEF SkippedReturned, JoinGroup
  <2>2. out[m].latency = 0
    BY <1>1, <2>1, SkippedKid DEF IsSkipped
  <2>3. start[m] = start[n] + out[n].latency
    BY <1>3, <2>1 DEF GivenStart, CallStart, Cascades
  <2>4. Reach(n)' = start[n] + out[n].latency
    BY <1>2, <2>1 DEF Reach
  <2> QED
    BY <1>2, <1>3, <2>1, <2>2, <2>3, <2>4
<1> QED
  BY <1>1, <1>4, <1>5, <1>6, <1>7, <1>8 DEF TakesOutcome

\* Between two children, the sum of a frame only grows.
LEMMA ChildrenStep ==
  ASSUME Typed, Linked, NEW n \in Node, Step(n), pc[n] = "children", ~FinishAttempt(n)
  PROVE  pc'[n] = "children" /\ elapsed'[n] \in Nat /\ elapsed'[n] >= elapsed[n]
         /\ AttemptStart(n)' = AttemptStart(n)
<1> USE DEF Typed, TypeOK
<1>1. Call(n) \/ ChildReturned(n)
  BY DEF Step, StartGroup, JoinGroup, StartSequence, StepReturned, EndSequence, Skip, BeginAttempt,
     AbortAttempt, StartChildren, AttemptSucceeded, Retry, GiveUp, FallbackReturned, Exhaust,
     StartCascade, SkippedReturned, Return
<1>2. AttemptStart(n)' = AttemptStart(n)
  BY OwnFrame DEF Retry, AttemptStart
<1>3. CASE Call(n)
  <2>1. Callee(n) # n
    BY <1>3, CalleeType, Tree DEF Call, Callees
  <2> QED
    BY <1>2, <1>3, <2>1 DEF Call
<1>4. CASE ChildReturned(n)
  <2>1. pc'[n] = "children"
    BY <1>4, ConsumeEffect DEF ChildReturned
  <2>2. elapsed'[n] = elapsed[n] + out[Callee(n)].latency
    BY <1>4 DEF ChildReturned
  <2>3. out[Callee(n)].latency \in Nat /\ elapsed[n] \in Nat
    BY <1>4, CalleeType, FieldTypes, OutcomeFields DEF ChildReturned, Consume
  <2> QED
    BY <1>2, <2>1, <2>2, <2>3
<1> QED
  BY <1>1, <1>3, <1>4

\* A frame that keeps running keeps what it has reached.
LEMMA ReachKept ==
  ASSUME Typed, Linked, KindsFit, Attempts, Quick, NEW n \in Node, Step(n),
         NEW m \in Node, pc[m] # "idle", pc'[m] # "idle"
  PROVE  ctx'[m] = ctx[m] /\ Reach(m) <= Reach(m)' /\ Reach(m)' \in Int /\ Reach(m) \in Nat
<1>1. ctx'[m] = ctx[m]
  BY FrameOrigin DEF Calls
<1>2. CASE m = n
  <2>1. Typed'
    BY TypedStep DEF Next
  <2>2. /\ start'[n] \in Nat /\ total'[n] \in Nat /\ elapsed'[n] \in Nat /\ out'[n].latency \in Nat
    BY <2>1, OutcomeFields DEF Typed, TypeOK
  <2>3. Reach(n)' \in Int
    BY <2>2 DEF Reach
  <2> QED
    BY <1>1, <1>2, <2>3, ReachGrows, ReachNat
<1>3. CASE m # n
  <2>1. Reach(m)' = Reach(m)
    BY <1>3, OtherFrames DEF Reach, Uncut
  <2> QED
    BY <1>1, <2>1, ReachNat
<1> QED
  BY <1>2, <1>3

\* What was reached under a span is not lost: it is below the sum of the frame that
\* owns the span, or of a frame that still runs under it, or below the span's end.
LEMMA WithinStep ==
  ASSUME Typed, Linked, RootFree, KindsFit, Given, Doomed, Cascades, Nested, Attempts, Quick,
         NEW n \in Node, Step(n), NEW c, c # NoSpan, Names(c), NEW e \in Nat, Within(c, e)
  PROVE  Within(c, e)'
<1> DEFINE p == c[1]
<1>1. p \in Node /\ c[2] \in DOMAIN spans[p]
  BY DEF Names
<1>2. CASE ~SpanAt(c).open
  <2>1. ~(p = n /\ c[2] = Len(spans[n]) /\ Finishes(n))
    BY <1>1, <1>2, FramesMove DEF Nested, OpenSpans, SpanAt
  <2>2. spans'[p][c[2]] = spans[p][c[2]]
    BY <1>1, <2>1, SpanKept
  <2> QED
    BY <1>2, <2>2 DEF Within, SpanAt
<1>3. CASE SpanAt(c).open /\ p = n /\ Finishes(n)
  <2>1. c[2] = Len(spans[n]) /\ pc[n] = "children"
    BY <1>1, <1>3 DEF Within, SpanAt, Nested, OpenSpans
  <2>2. NoCallees(n)
    BY <1>3, FramesMove
  <2>3. e <= AttemptStart(n) + elapsed[n]
    BY <1>3, <2>2, UnderSpan DEF Within
  <2>4. spans'[n][Len(spans[n])] = Ended(n, Current(n), out'[n]) /\ Current(n) \in Span
    BY <1>3, FinishesEffect, SpanSeq
  <2>5. out'[n].latency = elapsed[n]
    <3>1. out'[n] = AttemptOutcome(n)
      BY <1>3, <2>1 DEF Finishes, AbortAttempt, FinishAttempt, Typed, TypeOK
    <3> QED
      BY <3>1 DEF AttemptOutcome, Failed, Succeeded
  <2>6. ~spans'[n][Len(spans[n])].open
        /\ spans'[n][Len(spans[n])].end = AttemptStart(n) + elapsed[n]
    BY <2>4, <2>5 DEF Ended, Span
  <2> QED
    BY <1>3, <2>1, <2>3, <2>6 DEF Within, SpanAt
<1>4. CASE SpanAt(c).open /\ ~(p = n /\ Finishes(n))
  <2>1. spans'[p][c[2]] = spans[p][c[2]] /\ pc[p] = "children"
    BY <1>1, <1>4, SpanKept DEF Within
  <2>2. /\ pc'[p] = "children" /\ AttemptStart(p)' = AttemptStart(p)
        /\ elapsed'[p] \in Nat /\ elapsed'[p] >= elapsed[p]
    <3>1. CASE p = n
      BY <1>4, <2>1, <3>1, ChildrenStep DEF Finishes
    <3>2. CASE p # n
      <4>1. /\ pc'[p] = "children" /\ elapsed'[p] = elapsed[p]
            /\ start'[p] = start[p] /\ total'[p] = total[p]
        BY <1>1, <2>1, <3>2, OtherFrames
      <4> QED
        BY <1>1, <4>1, FieldTypes DEF AttemptStart
    <3> QED
      BY <3>1, <3>2
  <2>3. AttemptStart(p) \in Nat /\ elapsed[p] \in Nat
    BY <1>1, FieldTypes, CallTypes
  <2>4. SUFFICES \/ e <= AttemptStart(p) + elapsed'[p]
                 \/ \E m \in Node : pc'[m] # "idle" /\ ctx'[m] = c /\ e <= Reach(m)'
    BY <1>4, <2>1, <2>2 DEF Within, SpanAt
  <2>5. CASE e <= AttemptStart(p) + elapsed[p]
    <3>1. e <= AttemptStart(p) + elapsed'[p]
      <4> HIDE DEF p
      <4> QED
        BY <2>2, <2>3, <2>5
    <3> QED
      BY <3>1
  <2>6. ASSUME NEW m \in Node, pc[m] # "idle", ctx[m] = c, e <= Reach(m), pc'[m] # "idle"
        PROVE  \E w \in Node : pc'[w] # "idle" /\ ctx'[w] = c /\ e <= Reach(w)'
    <3>1. ctx'[m] = c /\ Reach(m) <= Reach(m)' /\ Reach(m)' \in Int /\ Reach(m) \in Nat
      BY <2>6, ReachKept
    <3>2. e <= Reach(m)'
      BY <2>6, <3>1
    <3> QED
      BY <2>6, <3>1, <3>2
  <2>7. ASSUME NEW m \in Node, pc[m] # "idle", ctx[m] = c, e <= Reach(m), pc'[m] = "idle"
        PROVE  \/ e <= AttemptStart(p) + elapsed'[p]
               \/ \E w \in Node : pc'[w] # "idle" /\ ctx'[w] = c /\ e <= Reach(w)'
    <3>1. c = CallContext(n) /\ Reach(m) \in Nat
      BY <2>7, TakenBy, ReachNat
    <3>2. CASE pc[n] = "children"
      <4>1. p = n
        BY <3>1, <3>2 DEF CallContext, OwnSpan
      <4>2. Reach(m) <= AttemptStart(p) + elapsed'[p]
        BY <2>7, <3>2, <4>1, ReachHanded
      <4>3. e <= AttemptStart(p) + elapsed'[p]
        <5> HIDE DEF p
        <5> QED
          BY <2>2, <2>3, <2>7, <3>1, <4>2
      <4> QED
        BY <4>3
    <3>3. CASE pc[n] # "children"
      <4>1. pc[n] # "idle" /\ pc'[n] # "idle"
        BY OwnFrame
      <4>2. ctx'[n] = c /\ Reach(n)' \in Int
        BY <3>1, <3>3, <4>1, ReachKept DEF CallContext
      <4>3. Reach(m) <= Reach(n)'
        BY <2>7, <3>3, ReachHanded
      <4>4. e <= Reach(n)'
        BY <2>7, <3>1, <4>2, <4>3
      <4> QED
        BY <4>1, <4>2, <4>4
    <3> QED
      BY <3>2, <3>3
  <2> QED
    BY <1>4, <2>5, <2>6, <2>7 DEF Within
<1> QED
  BY <1>2, <1>3, <1>4

\* A span that a step begins or ends is within what its own frame has reached.
LEMMA NewWithin ==
  ASSUME Typed, Linked, RootFree, Nested, Attempts, ContextsStarted, NEW n \in Node, Step(n),
         Uncut(n), NEW i \in DOMAIN spans'[n],
         ~(i \in DOMAIN spans[n] /\ spans'[n][i] = spans[n][i]),
         spans'[n][i].kind # "publish", ctx[n] # NoSpan,
         NEW c, c = ctx[n], NEW e, e = spans'[n][i].end
  PROVE  Within(c, e)'
<1>1. c = ctx[n]
  OBVIOUS
<1>2. e = spans'[n][i].end
  OBVIOUS
<1>3. pc[n] # "idle" /\ pc'[n] # "idle" /\ ctx'[n] = c
  BY <1>1, OwnFrame
<1>4. Names(c) /\ SpanAt(c).open /\ SpanAt(c)' = SpanAt(c)
  BY <1>1, <1>3, ContextKept DEF Nested, SpanAt
<1>5. Skip(n) \/ BeginAttempt(n) \/ Finishes(n)
  BY OthersKeepSpans
<1>6. NoCallees(n)
  BY <1>5, LocalEffect DEF Local, Finishes
<1>7. c[1] \in Node /\ c[1] # n
  BY <1>1, <1>3, <1>4, <1>6, UnderSpan DEF Names
<1>8. pc[c[1]] = "children"
  <2>1. InSpan(c[1])
    BY <1>4 DEF Nested, OpenSpans, Names, SpanAt
  <2>2. pc[c[1]] = "begun" => NoCallees(c[1])
    BY <1>7, NotServing DEF Calling
  <2>3. pc[c[1]] # "begun"
    BY <1>1, <1>3, <1>7, <2>2, UnderSpan
  <2> QED
    BY <2>1, <2>3 DEF InSpan
<1>9. pc'[c[1]] = "children"
  BY <1>7, <1>8, OtherFrames
<1>10. e <= Reach(n)'
  <2>1. /\ start[n] \in Nat /\ total[n] \in Nat /\ start'[n] = start[n] /\ total'[n] = total[n]
    <3>1. ~Retry(n)
      BY <1>5 DEF Retry, Skip, BeginAttempt, Finishes, AbortAttempt, FinishAttempt
    <3> QED
      BY <3>1, FieldTypes, OwnFrame
  <2>2. out'[n].latency \in Nat
    <3>1. Typed'
      BY TypedStep DEF Next
    <3> QED
      BY <3>1, OutcomeFields DEF Typed, TypeOK
  <2>3. CASE Skip(n)
    <3>1. pc'[n] = "returned" /\ ~BeginAttempt(n) /\ ~Finishes(n)
      BY <2>3 DEF Skip, BeginAttempt, Finishes, AbortAttempt, FinishAttempt, Typed, TypeOK
    <3>2. e = start[n]
      BY <1>2, <2>3, <3>1, SpanOrigin DEF IsSkip
    <3> QED
      BY <2>1, <2>2, <3>1, <3>2 DEF Reach
  <2>4. CASE BeginAttempt(n)
    <3>1. pc'[n] = "begun" /\ ~Skip(n) /\ ~Finishes(n)
      BY <2>4, FramesMove DEF Skip, BeginAttempt, Typed, TypeOK
    <3>2. e = AttemptStart(n)
      BY <1>2, <2>4, <3>1, SpanOrigin DEF IsPublish, IsOpened
    <3>3. Reach(n)' = start[n] + total[n]
      BY <2>1, <3>1 DEF Reach, Uncut
    <3> QED
      BY <2>1, <3>2, <3>3 DEF AttemptStart
  <2>5. CASE Finishes(n)
    <3>1. pc'[n] = "attempted" /\ ~BeginAttempt(n) /\ ~Skip(n) /\ InSpan(n)
      BY <2>5, FinishesEffect, FramesMove DEF Skip, InSpan
    <3>2. spans'[n][i] = Ended(n, Current(n), out'[n]) /\ Current(n) \in Span
      BY <2>5, <3>1, SpanOrigin, SpanSeq
    <3>3. e = AttemptStart(n) + out'[n].latency
      BY <1>2, <3>2 DEF Ended, Span
    <3>4. Reach(n)' = start[n] + (total[n] + out'[n].latency)
      BY <2>1, <3>1 DEF Reach, Uncut
    <3> QED
      BY <2>1, <2>2, <3>3, <3>4 DEF AttemptStart
  <2> QED
    BY <1>5, <2>3, <2>4, <2>5
<1> QED
  BY <1>3, <1>4, <1>9, <1>10 DEF Within

LEMMA AllWithinStep ==
  ASSUME Typed, Linked, RootFree, KindsFit, Given, Doomed, Cascades, Nested, Attempts, Quick,
         Monotone, AllWithin, NEW n \in Node, Step(n)
  PROVE  AllWithin'
<1> SUFFICES ASSUME NEW m \in Node, Uncut(m), NEW i \in DOMAIN spans'[m],
                    spans'[m][i].kind # "publish",
                    NEW c, c = spans'[m][i].parent, c # NoSpan, NEW e, e = spans'[m][i].end
             PROVE  Within(c, e)'
  BY DEF AllWithin, Within, SpanAt, Uncut
<1>1. CASE i \in DOMAIN spans[m] /\ spans'[m][i] = spans[m][i]
  <2>1. Names(c) /\ Within(c, e)
    BY <1>1 DEF Monotone, ParentsKnown, AllWithin
  <2>2. e \in Nat
    BY <1>1, SpanSeq, SpanFields
  <2> QED
    BY <2>1, <2>2, WithinStep
<1>2. CASE ~(i \in DOMAIN spans[m] /\ spans'[m][i] = spans[m][i])
  <2>1. m = n
    BY <1>2, OthersKeepSpans
  <2>2. c = ctx[n]
    BY <1>2, <2>1, NewSpanStarts DEF Monotone
  <2> QED
    BY <1>2, <2>1, <2>2, NewWithin DEF Monotone
<1> QED
  BY <1>1, <1>2

\* The spans as the frames account for them.
Accounted ==
  /\ Typed /\ Linked /\ RootFree /\ Nested
  /\ KindsFit /\ Given /\ Attempts /\ Doomed /\ Cascades /\ Quick
  /\ Monotone /\ RetriesSeparated /\ AllWithin

LEMMA AccountedInit == Init => Accounted
<1> SUFFICES ASSUME Init PROVE Accounted
  OBVIOUS
<1>1. Typed /\ Linked /\ RootFree
  BY InitTyped, InitLinked
<1>2. \A n \in Node : spans[n] = <<>> /\ pc[n] = (IF n = Root THEN "entered" ELSE "idle")
                      /\ attempt[n] = 0 /\ total[n] = 0 /\ up[n] = NoParent /\ ctx[n] = NoSpan
  BY DEF Init
<1>3. Nested
  BY <1>2 DEF Nested, OpenSpans, OpenContexts, OwnParents, InSpan
<1>4. KindsFit /\ Quick
  BY <1>2 DEF KindsFit, Quick, Trying, Tried
<1>5. Given
  BY <1>2, Tree DEF Given
<1>6. Attempts
  BY <1>2 DEF Attempts, Fresh, LastIsWork, JustBegun, JustEnded, Waits, Trying, Tried, InSpan
<1>7. Doomed /\ Cascades
  BY <1>2 DEF Doomed, Cascades, NoParent, Succeeded
<1>8. Monotone /\ RetriesSeparated /\ AllWithin
  BY <1>2 DEF Monotone, ParentsKnown, ContextsStarted, TimeMonotone, RetriesSeparated, Works,
     AllWithin
<1> QED
  BY <1>1, <1>3, <1>4, <1>5, <1>6, <1>7, <1>8 DEF Accounted

LEMMA AccountedStep == Accounted /\ [Next]_vars => Accounted'
<1> SUFFICES ASSUME Accounted, [Next]_vars PROVE Accounted'
  OBVIOUS
<1>1. Typed' /\ Linked' /\ RootFree' /\ Nested'
  BY TypedStep, LinkedStep, RootFreeStep, NestedStep DEF Accounted
<1>2. ASSUME NEW n \in Node, Step(n) PROVE Accounted'
  <2> USE DEF Accounted
  <2>1. KindsFit' /\ Given' /\ Attempts'
    BY <1>2, KindsFitStep, GivenStep, AttemptsStep
  <2>2. Doomed' /\ Cascades' /\ Quick'
    BY <1>2, DoomedStep, CascadesStep, QuickStep
  <2>3. Monotone' /\ RetriesSeparated' /\ AllWithin'
    BY <1>2, MonotoneStep, RetriesSeparatedStep, AllWithinStep
  <2> QED
    BY <1>1, <2>1, <2>2, <2>3
<1>3. CASE UNCHANGED <<frame, spans>>
  <2> USE DEF frame
  <2>1. KindsFit' /\ Given' /\ Doomed' /\ Cascades' /\ Quick'
    BY <1>3 DEF Accounted, KindsFit, Given, GivenStart, GivenUp, CallStart, CallParent, AttemptStart,
       Doomed, Cascades, Quick
  <2>2. Attempts'
    BY <1>3 DEF Accounted, Attempts, Fresh, LastIsWork, JustBegun, JustEnded, Waits, InSpan, Current,
       AttemptStart
  <2>3. Monotone' /\ RetriesSeparated'
    BY <1>3 DEF Accounted, Monotone, ParentsKnown, ContextsStarted, TimeMonotone, Names, SpanAt,
       RetriesSeparated, Works
  <2>4. AllWithin'
    BY <1>3 DEF Accounted, AllWithin, Within, SpanAt, Reach, AttemptStart
  <2> QED
    BY <1>1, <2>1, <2>2, <2>3, <2>4 DEF Accounted
<1> QED
  BY <1>2, <1>3 DEF Next, Cancel, Finished, vars, frame

LEMMA AccountedAlways == Spec => []Accounted
  BY AccountedInit, AccountedStep, PTL DEF Spec

\* The times of the spans add up for every plan: no span ends before it starts or
\* starts before its parent, a finished span covers the calls made under it, and a
\* retry starts a full delay after the failed attempt before it.
THEOREM TimesAddUpCorrect == Spec => []TimesAddUp
<1>1. Accounted => TimesAddUp
  <2> SUFFICES ASSUME Accounted PROVE SpansContained
    BY DEF Accounted, Monotone, TimesAddUp
  <2> QED
    BY DEF Accounted, AllWithin, Within, SpansContained
<1> QED
  BY <1>1, AccountedAlways, PTL

-----------------------------------------------------------------------------
(***************************************************************************)
(* Outcomes.  What a frame reports after its last attempt: the failure of  *)
(* that attempt (or a timeout), until a fallback or the policy recovers it. *)
(***************************************************************************)
Cause(n) ==
  IF Timeout[n] > 0 /\ Current(n).end - start[n] > Timeout[n] THEN "timeout"
  ELSE Current(n).err

FailedBefore(n, k) == \A i \in 1..k : ~out[Fallbacks[n][i]].ok

Recovers(n) ==
  \/ /\ out[n].recovery = "fallback"
     /\ idx[n] - 1 \in DOMAIN Fallbacks[n]
     /\ out[Fallbacks[n][idx[n] - 1]].ok
     /\ FailedBefore(n, idx[n] - 2)
  \/ /\ out[n].recovery \in {"default", "silent"}
     /\ OnFailure[n] \in {"return_default", "succeed_silently"}
     /\ \A f \in FallbackSet(n) : ~out[f].ok

WhileTried(n) ==
  pc[n] \in Tried =>
    /\ ~Current(n).ok /\ ~out[n].cascaded
    /\ out[n].ok => pc[n] = "settled" /\ out[n].err = "none" /\ Recovers(n)
    /\ ~out[n].ok => out[n].err = Cause(n)

WhileRecovering(n) ==
  pc[n] = "recovering" =>
    /\ ~out[n].ok
    /\ idx[n] - 1 \in 0..Len(Fallbacks[n])
    /\ FailedBefore(n, idx[n] - 1)

WhenReturned(n) ==
  pc[n] = "returned" /\ Kind[n] = "op" /\ out[n].ok =>
    /\ Len(spans[n]) > 0 /\ Current(n).kind = "work"
    /\ out[n].err = "none" /\ ~out[n].cascaded
    /\ \/ out[n].recovery = "none" /\ Current(n).ok /\ start[n] + out[n].latency = Current(n).end
       \/ ~Current(n).ok /\ Recovers(n)

Told == \A n \in Node : WhileTried(n) /\ WhileRecovering(n) /\ WhenReturned(n)

\* Steps of a journey: those not reached have no span, a failure is kept as the
\* outcome above the later steps, and those skip.
NotReached(n) ==
  \A j \in DOMAIN Kids[n] : idx[n] <= j /\ pc[Kids[n][j]] = "idle" => spans[Kids[n][j]] = <<>>

FailureKept(n) == \A i \in DOMAIN Kids[n] : i < idx[n] /\ ~out[Kids[n][i]].ok => ~up[n].ok

OnlySkips(n) ==
  \A i, j \in DOMAIN Kids[n] :
    i < j /\ i < idx[n] /\ ~out[Kids[n][i]].ok => Works(Kids[n][j]) = {}

StepsTold ==
  \A n \in Node : Kind[n] = "seq" =>
    /\ pc[n] = "entered" => idx[n] = 1
    /\ NotReached(n) /\ FailureKept(n) /\ OnlySkips(n)

\* The outcomes of the fallbacks tried stay: those frames do not run any more.
LEMMA FallbacksKept ==
  ASSUME Typed, Linked, NEW n \in Node, Step(n), NEW m \in Node,
         pc[m] \in {"settled", "returned", "recovering"}, NEW i \in DOMAIN Fallbacks[m],
         pc[m] = "recovering" => i < idx[m]
  PROVE  out'[Fallbacks[m][i]] = out[Fallbacks[m][i]]
<1> DEFINE f == Fallbacks[m][i]
<1>1. f \in Callees(m) /\ f \in Node
  BY Tree DEF Callees, FallbackSet
<1>2. CASE f # n
  BY <1>1, <1>2, OtherFrames
<1>3. CASE f = n
  <2>1. Serves(m, f)
    BY <1>1, <1>3, OwnFrame DEF Linked
  <2>2. pc[m] = "recovering" /\ idx[m] <= Len(Fallbacks[m]) /\ f = Fallbacks[m][idx[m]]
    BY <2>1 DEF Serves, Loop, Callee, Calling
  <2>3. Fallbacks[m] \in Seq(Node) /\ idx[m] \in Nat \ {0}
    BY FieldTypes, PlanShape
  <2>4. idx[m] \in DOMAIN Fallbacks[m] /\ i \in Nat
    BY <2>2, <2>3, LenProperties
  <2>5. i = idx[m]
    BY <2>2, <2>4, PlanIsTree
  <2> QED
    BY <2>2, <2>4, <2>5
<1> QED
  BY <1>2, <1>3

LEMMA FallbackDomain ==
  ASSUME NEW n \in Node
  PROVE  Len(Fallbacks[n]) \in Nat /\ DOMAIN Fallbacks[n] = 1..Len(Fallbacks[n])
<1>1. Fallbacks[n] \in Seq(Node)
  BY PlanShape
<1> QED
  BY <1>1, LenProperties


LEMMA RecoversKept ==
  ASSUME Typed, Linked, NEW n \in Node, Step(n), NEW m \in Node,
         pc[m] \in {"settled", "returned"}, out'[m] = out[m], idx'[m] = idx[m], Recovers(m)
  PROVE  Recovers(m)'
<1>1. idx[m] \in Nat
  BY FieldTypes
<1>2. ASSUME idx[m] - 1 \in DOMAIN Fallbacks[m], out[Fallbacks[m][idx[m] - 1]].ok,
             FailedBefore(m, idx[m] - 2)
      PROVE  out'[Fallbacks[m][idx[m] - 1]].ok /\ FailedBefore(m, idx[m] - 2)'
  <2>1. out'[Fallbacks[m][idx[m] - 1]] = out[Fallbacks[m][idx[m] - 1]]
    BY <1>2, FallbacksKept
  <2>2. ASSUME NEW i \in 1..(idx[m] - 2) PROVE ~out'[Fallbacks[m][i]].ok
    <3>1. i \in DOMAIN Fallbacks[m]
      BY <1>1, <1>2, FallbackDomain
    <3> QED
      BY <1>2, <3>1, FallbacksKept DEF FailedBefore
  <2> QED
    BY <1>2, <2>1, <2>2 DEF FailedBefore
<1>3. ASSUME \A f \in FallbackSet(m) : ~out[f].ok
      PROVE  \A f \in FallbackSet(m) : ~out'[f].ok
  <2> SUFFICES ASSUME NEW i \in DOMAIN Fallbacks[m] PROVE ~out'[Fallbacks[m][i]].ok
    BY DEF FallbackSet
  <2> QED
    BY <1>3, FallbacksKept DEF FallbackSet
<1> QED
  BY <1>2, <1>3 DEF Recovers

LEMMA ToldOfOthers ==
  ASSUME Typed, Linked, Told, NEW n \in Node, Step(n), NEW m \in Node, m # n
  PROVE  WhileTried(m)' /\ WhileRecovering(m)' /\ WhenReturned(m)'
<1>1. /\ spans'[m] = spans[m] /\ out'[m] = out[m] /\ idx'[m] = idx[m]
      /\ pc'[m] \in {"idle", "entered"} \/ (pc'[m] = pc[m] /\ start'[m] = start[m])
  BY OtherFrames DEF Calls
<1>2. CASE pc'[m] \in {"idle", "entered"}
  BY <1>2 DEF WhileTried, WhileRecovering, WhenReturned, Tried
<1>3. CASE pc'[m] = pc[m] /\ start'[m] = start[m]
  <2>1. WhileTried(m) /\ WhileRecovering(m) /\ WhenReturned(m)
    BY DEF Told
  <2>2. Current(m)' = Current(m) /\ (Cause(m)' = Cause(m))
    BY <1>1, <1>3 DEF Current, Cause
  <2>3. pc[m] \in {"settled", "returned"} /\ Recovers(m) => Recovers(m)'
    BY <1>1, RecoversKept
  <2>4. WhileRecovering(m)'
    <3>1. pc[m] = "recovering" => FailedBefore(m, idx[m] - 1)'
      <4> SUFFICES ASSUME pc[m] = "recovering", NEW i \in 1..(idx[m] - 1)
                   PROVE  ~out'[Fallbacks[m][i]].ok
        BY <1>1 DEF FailedBefore
      <4>1. i \in DOMAIN Fallbacks[m] /\ i < idx[m] /\ FailedBefore(m, idx[m] - 1)
        BY <2>1, FallbackDomain, FieldTypes DEF WhileRecovering
      <4> QED
        BY <4>1, FallbacksKept DEF FailedBefore
    <3> QED
      BY <1>1, <1>3, <2>1, <3>1 DEF WhileRecovering, FailedBefore
  <2> QED
    BY <1>1, <1>3, <2>1, <2>2, <2>3, <2>4 DEF WhileTried, WhenReturned
<1> QED
  BY <1>1, <1>2, <1>3

\* The frame gives up: its outcome is the failure of the attempt that just ended.
LEMMA GiveUpTold ==
  ASSUME Typed, Linked, Attempts, NEW n \in Node, Step(n), GiveUp(n)
  PROVE  WhileTried(n)' /\ WhileRecovering(n)' /\ WhenReturned(n)'
<1> DEFINE spent == total[n] + out[n].latency
<1>1. /\ pc[n] = "attempted" /\ ~out[n].ok /\ pc'[n] \in {"settled", "recovering"}
      /\ out'[n] = Settled(n, out[n], spent) /\ idx'[n] = 1 /\ start'[n] = start[n]
      /\ spans' = spans
  BY DEF GiveUp, Typed, TypeOK
<1>2. /\ out[n] \in Outcome /\ out[n].latency \in Nat /\ total[n] \in Nat /\ start[n] \in Nat
      /\ Timeout[n] \in Nat
  BY FieldTypes, OutcomeFields, PlanNumbers
<1>3. /\ Current(n).ok = out[n].ok /\ Current(n).err = out[n].err /\ ~out[n].cascaded
      /\ Current(n).end = start[n] + total[n] + out[n].latency
  BY <1>1 DEF Attempts, JustEnded, AttemptStart
<1>4. Current(n)' = Current(n)
  BY <1>1 DEF Current
<1>5. Current(n).end - start[n] = spent
  BY <1>2, <1>3
<1>6. ~out'[n].ok /\ ~out'[n].cascaded
      /\ out'[n].err = (IF Timeout[n] > 0 /\ spent > Timeout[n] THEN "timeout" ELSE out[n].err)
  <2> HIDE DEF spent
  <2> QED
    BY <1>1, <1>2, <1>3 DEF Settled, Outcome
<1>7. out'[n].err = Cause(n)'
  <2> HIDE DEF spent
  <2> QED
    BY <1>1, <1>3, <1>4, <1>5, <1>6 DEF Cause
<1>8. WhileRecovering(n)'
  <2>1. idx'[n] - 1 \in 0..Len(Fallbacks[n]) /\ FailedBefore(n, idx[n] - 1)'
    BY <1>1, FallbackDomain DEF FailedBefore
  <2> QED
    BY <1>6, <2>1 DEF WhileRecovering
<1> QED
  BY <1>1, <1>3, <1>4, <1>6, <1>7, <1>8 DEF WhileTried, WhenReturned

LEMMA AttemptSucceededTold ==
  ASSUME Typed, Linked, Attempts, NEW n \in Node, Step(n), AttemptSucceeded(n)
  PROVE  WhileTried(n)' /\ WhileRecovering(n)' /\ WhenReturned(n)'
<1>1. /\ pc[n] = "attempted" /\ out[n].ok /\ pc'[n] = "returned"
      /\ out'[n] = [out[n] EXCEPT !.latency = out[n].latency + total[n]]
      /\ start'[n] = start[n] /\ spans' = spans
  BY DEF AttemptSucceeded, Typed, TypeOK
<1>2. /\ out[n] \in Outcome /\ out[n].latency \in Nat /\ total[n] \in Nat /\ start[n] \in Nat
  BY FieldTypes, OutcomeFields
<1>3. /\ Current(n).ok /\ out[n].recovery = "none" /\ ~out[n].cascaded /\ out[n].err = "none"
      /\ Current(n).end = start[n] + total[n] + out[n].latency
      /\ Len(spans[n]) > 0 /\ Current(n).kind = "work"
  BY <1>1 DEF Attempts, JustEnded, LastIsWork, Trying, AttemptStart
<1>4. Current(n)' = Current(n)
  BY <1>1 DEF Current
<1>5. /\ out'[n].latency = out[n].latency + total[n] /\ out'[n].recovery = "none"
      /\ ~out'[n].cascaded /\ out'[n].err = "none"
  BY <1>1, <1>2, <1>3 DEF Outcome
<1>6. start'[n] + out'[n].latency = Current(n)'.end
  BY <1>1, <1>2, <1>3, <1>4, <1>5
<1> QED
  BY <1>1, <1>3, <1>4, <1>5, <1>6 DEF WhileTried, WhileRecovering, WhenReturned, Tried

LEMMA FallbackReturnedTold ==
  ASSUME Typed, Linked, Told, NEW n \in Node, Step(n), FallbackReturned(n)
  PROVE  WhileTried(n)' /\ WhileRecovering(n)' /\ WhenReturned(n)'
<1> DEFINE f == Callee(n)
           waited == [out[n] EXCEPT !.latency = @ + out[f].latency]
<1>1. /\ pc[n] = "recovering" /\ idx[n] <= Len(Fallbacks[n]) /\ f = Fallbacks[n][idx[n]]
      /\ idx'[n] = idx[n] + 1 /\ start'[n] = start[n] /\ spans' = spans /\ f \in Node /\ f # n
  <2>1. pc[n] = "recovering" /\ Consume(n) /\ f \in Callees(n)
    BY ConsumeEffect DEF FallbackReturned
  <2> QED
    BY <2>1, Tree DEF FallbackReturned, Consume, Loop, Callee, Typed, TypeOK
<1>2. \/ out[f].ok /\ out'[n] = Recovered(waited, "fallback") /\ pc'[n] = "settled"
      \/ ~out[f].ok /\ out'[n] = waited /\ pc'[n] = "recovering"
  BY <1>1 DEF FallbackReturned, Typed, TypeOK
<1>3. out'[f] = out[f]
  BY <1>1, OtherFrames
<1>4. /\ out[n] \in Outcome /\ idx[n] \in Nat \ {0} /\ Len(Fallbacks[n]) \in Nat
      /\ idx[n] \in DOMAIN Fallbacks[n] /\ idx'[n] - 1 = idx[n]
  BY <1>1, FieldTypes, FallbackDomain
<1>5. /\ ~out[n].ok /\ ~out[n].cascaded /\ ~Current(n).ok /\ out[n].err = Cause(n)
      /\ FailedBefore(n, idx[n] - 1)
  BY <1>1 DEF Told, WhileTried, WhileRecovering, Tried
<1>6. ASSUME NEW i \in 1..(idx[n] - 1) PROVE ~out'[Fallbacks[n][i]].ok
  <2>1. i \in DOMAIN Fallbacks[n] /\ i < idx[n]
    BY <1>1, <1>4, FallbackDomain
  <2> QED
    BY <1>1, <1>5, <2>1, FallbacksKept DEF FailedBefore
<1>7. Current(n)' = Current(n)
  BY <1>1 DEF Current
<1>8. waited.ok = out[n].ok /\ waited.cascaded = out[n].cascaded /\ waited.err = out[n].err
      /\ Recovered(waited, "fallback").ok /\ Recovered(waited, "fallback").err = "none"
      /\ Recovered(waited, "fallback").recovery = "fallback"
      /\ Recovered(waited, "fallback").cascaded = out[n].cascaded
  BY <1>4 DEF Outcome, Recovered
<1> HIDE DEF f, waited
<1>9. CASE out[f].ok /\ out'[n] = Recovered(waited, "fallback") /\ pc'[n] = "settled"
  <2>1. Recovers(n)'
    <3>1. FailedBefore(n, idx[n] - 2)'
      BY <1>1, <1>4, <1>6 DEF FailedBefore
    <3>2. out'[Fallbacks[n][idx'[n] - 1]].ok /\ idx'[n] - 1 \in DOMAIN Fallbacks[n]
      BY <1>1, <1>3, <1>4, <1>9
    <3> QED
      BY <1>8, <1>9, <3>1, <3>2 DEF Recovers
  <2> QED
    BY <1>5, <1>7, <1>8, <1>9, <2>1 DEF WhileTried, WhileRecovering, WhenReturned
<1>10. CASE ~out[f].ok /\ out'[n] = waited /\ pc'[n] = "recovering"
  <2>1. FailedBefore(n, idx[n] - 1)'
    <3> SUFFICES ASSUME NEW i \in 1..(idx'[n] - 1) PROVE ~out'[Fallbacks[n][i]].ok
      BY DEF FailedBefore
    <3>1. i \in 1..(idx[n] - 1) \/ i = idx[n]
      BY <1>4
    <3> QED
      BY <1>1, <1>3, <1>6, <1>10, <3>1
  <2>2. idx'[n] - 1 \in 0..Len(Fallbacks[n])
    BY <1>1, <1>4
  <2>3. Cause(n)' = Cause(n)
    BY <1>1, <1>7 DEF Cause
  <2> QED
    BY <1>5, <1>7, <1>8, <1>10, <2>1, <2>2, <2>3 DEF WhileTried, WhileRecovering, WhenReturned
<1> QED
  BY <1>2, <1>9, <1>10

LEMMA ExhaustTold ==
  ASSUME Typed, Linked, Told, NEW n \in Node, Step(n), Exhaust(n)
  PROVE  WhileTried(n)' /\ WhileRecovering(n)' /\ WhenReturned(n)'
<1>1. /\ pc[n] = "recovering" /\ idx[n] > Len(Fallbacks[n]) /\ pc'[n] = "settled"
      /\ out'[n] = Exhausted(n, out[n]) /\ start'[n] = start[n] /\ spans' = spans
  BY DEF Exhaust, Typed, TypeOK
<1>2. /\ ~out[n].ok /\ ~out[n].cascaded /\ ~Current(n).ok /\ out[n].err = Cause(n)
      /\ FailedBefore(n, idx[n] - 1)
  BY <1>1 DEF Told, WhileTried, WhileRecovering, Tried
<1>3. \A g \in FallbackSet(n) : ~out'[g].ok
  <2> SUFFICES ASSUME NEW i \in DOMAIN Fallbacks[n] PROVE ~out'[Fallbacks[n][i]].ok
    BY DEF FallbackSet
  <2>1. i \in 1..(idx[n] - 1) /\ i < idx[n]
    BY <1>1, FallbackDomain, FieldTypes
  <2> QED
    BY <1>1, <1>2, <2>1, FallbacksKept DEF FailedBefore
<1>4. Current(n)' = Current(n) /\ Cause(n)' = Cause(n)
  BY <1>1 DEF Current, Cause
<1>5. out[n] \in Outcome
  BY FieldTypes
<1>6. CASE OnFailure[n] \in {"return_default", "succeed_silently"}
  <2>1. /\ out'[n].ok /\ out'[n].err = "none" /\ ~out'[n].cascaded
        /\ out'[n].recovery \in {"default", "silent"}
    BY <1>1, <1>2, <1>5, <1>6 DEF Exhausted, Recovered, Outcome
  <2> QED
    BY <1>1, <1>2, <1>3, <1>4, <1>6, <2>1 DEF WhileTried, WhileRecovering, WhenReturned, Recovers
<1>7. CASE OnFailure[n] \notin {"return_default", "succeed_silently"}
  <2>1. ~out'[n].ok /\ out'[n].err = out[n].err /\ ~out'[n].cascaded
    <3>1. out'[n] = [out[n] EXCEPT !.ok = FALSE, !.recovery = "exhausted"]
      BY <1>1, <1>7 DEF Exhausted
    <3> QED
      BY <1>2, <1>5, <3>1 DEF Outcome
  <2> QED
    BY <1>1, <1>2, <1>4, <2>1 DEF WhileTried, WhileRecovering, WhenReturned
<1> QED
  BY <1>6, <1>7

\* The steps that leave the outcome as it is: skipping the children, calling the
\* next fallback or child, and returning.
LEMMA SettledTold ==
  ASSUME Typed, Linked, KindsFit, Attempts, Cascades, Told, NEW n \in Node, Step(n), pc[n] \in Tried,
         StartCascade(n) \/ SkippedReturned(n) \/ Return(n) \/ Call(n)
  PROVE  WhileTried(n)' /\ WhileRecovering(n)' /\ WhenReturned(n)'
<1>1. out'[n] = out[n] /\ spans' = spans /\ start'[n] = start[n]
  <2>1. out' = out /\ spans' = spans
    BY DEF StartCascade, SkippedReturned, Consume, Return, Call
  <2> QED
    BY <2>1, OwnFrame
<1>2. Current(n)' = Current(n) /\ Cause(n)' = Cause(n)
  BY <1>1 DEF Current, Cause
<1>3. /\ ~Current(n).ok /\ ~out[n].cascaded
      /\ out[n].ok => pc[n] = "settled" /\ out[n].err = "none" /\ Recovers(n)
      /\ ~out[n].ok => out[n].err = Cause(n)
      /\ pc[n] = "cascading" => ~out[n].ok
      /\ Len(spans[n]) > 0 /\ Current(n).kind = "work"
  BY DEF Told, WhileTried, Cascades, Attempts, LastIsWork
<1>4. CASE StartCascade(n) \/ SkippedReturned(n)
  <2>1. ~out[n].ok /\ pc'[n] = "cascading"
    <3>1. SkippedReturned(n) => pc[n] = "cascading" /\ pc'[n] = "cascading"
      BY ConsumeEffect DEF SkippedReturned
    <3> QED
      BY <1>3, <1>4, <3>1 DEF StartCascade, ShouldCascade, Typed, TypeOK
  <2> QED
    BY <1>1, <1>2, <1>3, <2>1 DEF WhileTried, WhileRecovering, WhenReturned
<1>5. CASE Return(n)
  <2>1. pc'[n] = "returned" /\ idx'[n] = idx[n]
    BY <1>5 DEF Return, Typed, TypeOK
  <2>2. out[n].ok => Recovers(n)'
    BY <1>1, <1>3, <2>1, RecoversKept
  <2> QED
    BY <1>1, <1>2, <1>3, <2>1, <2>2 DEF WhileTried, WhileRecovering, WhenReturned, Tried
<1>6. CASE Call(n)
  <2>1. pc'[n] = pc[n] /\ idx'[n] = idx[n] /\ out' = out /\ pc[n] \in {"recovering", "cascading"}
    <3>1. Callee(n) # n
      BY <1>6, CalleeType, Tree DEF Call, Callees
    <3> QED
      BY <1>6, <3>1 DEF Call, Calling, Tried, Typed, TypeOK
  <2>2. ~out[n].ok
    BY <1>3, <2>1
  <2>3. WhileRecovering(n) => WhileRecovering(n)'
    BY <2>1 DEF WhileRecovering, FailedBefore
  <2> QED
    BY <1>1, <1>2, <1>3, <2>1, <2>2, <2>3 DEF Told, WhileTried, WhenReturned
<1> QED
  BY <1>4, <1>5, <1>6

LEMMA ToldStep ==
  ASSUME Typed, Linked, KindsFit, Attempts, Cascades, Told, NEW n \in Node, Step(n)
  PROVE  Told'
<1> SUFFICES WhileTried(n)' /\ WhileRecovering(n)' /\ WhenReturned(n)'
  BY ToldOfOthers DEF Told
<1>1. ASSUME ~GiveUp(n), ~AttemptSucceeded(n), ~FallbackReturned(n), ~Exhaust(n),
             ~StartCascade(n), ~SkippedReturned(n), ~Return(n), ~(Call(n) /\ pc[n] \in Tried)
      PROVE  \/ pc'[n] \notin Tried \cup {"returned"}
             \/ pc'[n] = "returned" /\ (Kind[n] # "op" \/ ~out'[n].ok)
  <2> USE DEF Typed, TypeOK, Tried
  <2>1. CASE StartSequence(n) \/ BeginAttempt(n) \/ Finishes(n) \/ StartChildren(n) \/ Retry(n)
             \/ StartGroup(n)
    BY <2>1 DEF StartSequence, BeginAttempt, Finishes, AbortAttempt, FinishAttempt, StartChildren,
       Retry, StartGroup
  <2>2. CASE EndSequence(n) \/ JoinGroup(n)
    BY <2>2 DEF EndSequence, JoinGroup, KindsFit
  <2>3. CASE Skip(n)
    <3>1. pc'[n] = "returned" /\ out'[n] = Skipped(up[n])
      BY <2>3 DEF Skip
    <3> QED
      BY <3>1 DEF Skipped, Failed
  <2>4. CASE StepReturned(n) \/ ChildReturned(n)
    <3>1. pc[n] \in {"sequence", "children"} /\ pc'[n] = pc[n]
      BY <2>4, ConsumeEffect DEF StepReturned, ChildReturned
    <3> QED
      BY <3>1
  <2>5. CASE Call(n)
    <3>1. Callee(n) # n
      BY <2>5, CalleeType, Tree DEF Call, Callees
    <3> QED
      BY <1>1, <2>5, <3>1 DEF Call, Calling
  <2> QED
    BY <1>1, <2>1, <2>2, <2>3, <2>4, <2>5 DEF Step, Finishes
<1>2. CASE StartCascade(n) \/ SkippedReturned(n) \/ Return(n)
  <2>1. pc[n] \in Tried
    BY <1>2 DEF StartCascade, SkippedReturned, Return, Tried
  <2> QED
    BY <1>2, <2>1, SettledTold
<1>3. CASE Call(n) /\ pc[n] \in Tried
  BY <1>3, SettledTold
<1> QED
  BY <1>1, <1>2, <1>3, GiveUpTold, AttemptSucceededTold, FallbackReturnedTold, ExhaustTold
     DEF WhileTried, WhileRecovering, WhenReturned, Tried

-----------------------------------------------------------------------------
(***************************************************************************)
(* The steps of a journey.                                                 *)
(***************************************************************************)
LEMMA KidsOf ==
  ASSUME NEW n \in Node
  PROVE  /\ DOMAIN Kids[n] = 1..Len(Kids[n]) /\ Len(Kids[n]) \in Nat
         /\ \A j \in DOMAIN Kids[n] : Kids[n][j] \in Callees(n) /\ Kids[n][j] \in Node
                                      /\ Kids[n][j] # n /\ Kids[n][j] # Root
<1>1. Kids[n] \in Seq(Node)
  BY PlanShape
<1> QED
  BY <1>1, LenProperties, Tree DEF Callees, KidSet

\* The only step that runs is the one the sequence stands at.
LEMMA StepRunning ==
  ASSUME Typed, Linked, KindsFit, NEW n \in Node, Kind[n] = "seq",
         NEW j \in DOMAIN Kids[n], pc[Kids[n][j]] # "idle"
  PROVE  /\ pc[n] = "sequence" /\ j = idx[n] /\ Callee(n) = Kids[n][j]
         /\ idx[n] <= Len(Kids[n])
<1>1. Serves(n, Kids[n][j])
  BY KidsOf DEF Linked
<1>2. pc[n] = "sequence"
  BY <1>1 DEF Serves, KindsFit, Calling, Trying, Tried
<1>3. idx[n] <= Len(Kids[n]) /\ Kids[n][j] = Kids[n][idx[n]] /\ Callee(n) = Kids[n][j]
  BY <1>1, <1>2 DEF Serves, Callee, Loop
<1>4. idx[n] \in DOMAIN Kids[n]
  BY <1>3, KidsOf, FieldTypes
<1> QED
  BY <1>2, <1>3, <1>4, PlanIsTree

\* An operation below a failure only ever makes a skipped span.
LEMMA StaysSkipped ==
  ASSUME Typed, Linked, Doomed, NEW n \in Node, Step(n), Kind[n] # "seq", ~up[n].ok,
         Works(n) = {}
  PROVE  Works(n)' = {}
<1>1. pc[n] \in {"entered", "joining"}
  BY OwnFrame DEF Doomed
<1>2. ~BeginAttempt(n) /\ ~Finishes(n)
  BY <1>1 DEF BeginAttempt, Finishes, AbortAttempt, FinishAttempt
<1> SUFFICES ASSUME NEW i \in DOMAIN spans'[n], spans'[n][i].kind = "work" PROVE FALSE
  BY DEF Works
<1> QED
  BY <1>2, SpanOrigin DEF Works, IsSkip

\* What a step of any other frame than that of the sequence changes for it.
LEMMA StepsOfOthers ==
  ASSUME Typed, Linked, RootFree, KindsFit, Given, Doomed, StepsTold, NEW m \in Node, Step(m),
         NEW n \in Node, Kind[n] = "seq", m # n
  PROVE  /\ pc'[n] = "entered" => idx'[n] = 1
         /\ NotReached(n)' /\ FailureKept(n)' /\ OnlySkips(n)'
<1>1. n = Root
  BY PlanIsTree
<1>2. /\ idx'[n] = idx[n] /\ up'[n] = up[n]
      /\ pc'[n] = "entered" => idx[n] = 1
  <2>1. pc[n] # "idle"
    BY <1>1 DEF RootFree
  <2> QED
    BY <2>1, OtherFrames DEF StepsTold
<1>3. NotReached(n) /\ FailureKept(n) /\ OnlySkips(n)
  BY DEF StepsTold
<1>4. ASSUME NEW j \in DOMAIN Kids[n], Kids[n][j] # m
      PROVE  /\ spans'[Kids[n][j]] = spans[Kids[n][j]] /\ out'[Kids[n][j]] = out[Kids[n][j]]
             /\ pc'[Kids[n][j]] = "idle" => pc[Kids[n][j]] = "idle"
  <2>1. Kids[n][j] \in Node /\ Kids[n][j] \in Callees(n)
    BY KidsOf
  <2>2. Kids[n][j] \notin Callees(m)
    BY <2>1, Tree
  <2> QED
    BY <1>4, <2>1, <2>2, OtherFrames, TakenBy
<1>5. ASSUME NEW j \in DOMAIN Kids[n], Kids[n][j] = m
      PROVE  pc[n] = "sequence" /\ j = idx[n] /\ up[m] = up[n] /\ pc'[m] # "idle" /\ Kind[m] # "seq"
  <2>1. pc[m] # "idle" /\ pc'[m] # "idle" /\ m \in Callees(n) /\ Kind[m] # "seq"
    BY <1>5, OwnFrame, KidsOf, NotSequence
  <2>2. pc[n] = "sequence" /\ j = idx[n]
    BY <1>5, <2>1, StepRunning
  <2> QED
    BY <2>1, <2>2 DEF Given, GivenUp, CallParent
<1>6. NotReached(n)'
  <2> SUFFICES ASSUME NEW j \in DOMAIN Kids[n], idx'[n] <= j, pc'[Kids[n][j]] = "idle"
               PROVE  spans'[Kids[n][j]] = <<>>
    BY DEF NotReached
  <2> QED
    BY <1>2, <1>3, <1>4, <1>5 DEF NotReached
<1>7. FailureKept(n)'
  <2> SUFFICES ASSUME NEW i \in DOMAIN Kids[n], i < idx'[n], ~out'[Kids[n][i]].ok
               PROVE  ~up'[n].ok
    BY DEF FailureKept
  <2>1. Kids[n][i] # m
    BY <1>2, <1>5, KidsOf, FieldTypes
  <2> QED
    BY <1>2, <1>3, <1>4, <2>1 DEF FailureKept
<1>8. OnlySkips(n)'
  <2> SUFFICES ASSUME NEW i \in DOMAIN Kids[n], NEW j \in DOMAIN Kids[n],
                      i < j, i < idx'[n], ~out'[Kids[n][i]].ok,
                      NEW k, k = Kids[n][j]
               PROVE  Works(k)' = {}
    BY DEF OnlySkips, Works
  <2>1. Kids[n][i] # m
    BY <1>2, <1>5, KidsOf, FieldTypes
  <2>2. i < idx[n] /\ ~out[Kids[n][i]].ok
    BY <1>2, <1>4, <2>1
  <2>3. Works(k) = {} /\ ~up[n].ok
    BY <1>3, <2>2 DEF OnlySkips, FailureKept
  <2>4. CASE k # m
    BY <1>4, <2>3, <2>4 DEF Works
  <2>5. CASE k = m
    BY <1>5, <2>3, <2>5, StaysSkipped
  <2> QED
    BY <2>4, <2>5
<1> QED
  BY <1>2, <1>6, <1>7, <1>8

LEMMA StepReturnedSteps ==
  ASSUME Typed, Linked, KindsFit, StepsTold, NEW n \in Node, Step(n), Kind[n] = "seq",
         StepReturned(n)
  PROVE  /\ pc'[n] = "entered" => idx'[n] = 1
         /\ NotReached(n)' /\ FailureKept(n)' /\ OnlySkips(n)'
<1> DEFINE k == idx[n]
<1>1. /\ pc[n] = "sequence" /\ pc'[n] = "sequence" /\ spans' = spans
      /\ pc[Callee(n)] = "returned" /\ k <= Len(Kids[n]) /\ Callee(n) = Kids[n][k]
  BY ConsumeEffect DEF StepReturned, Consume, Loop, Callee
<1>2. /\ idx'[n] = k + 1
      /\ up'[n] = (IF out[Callee(n)].ok THEN up[n] ELSE out[Callee(n)])
  BY DEF StepReturned, Typed, TypeOK
<1>3. k \in DOMAIN Kids[n] /\ k \in Nat
  BY <1>1, KidsOf, FieldTypes
<1>4. \A j \in DOMAIN Kids[n] : out'[Kids[n][j]] = out[Kids[n][j]]
  BY KidsOf, OtherFrames
<1>5. NotReached(n) /\ FailureKept(n) /\ OnlySkips(n)
  BY DEF StepsTold
<1>6. ASSUME NEW j \in DOMAIN Kids[n], j # k PROVE pc[Kids[n][j]] = "idle"
  BY <1>6, StepRunning
<1>7. ASSUME NEW j \in DOMAIN Kids[n], j > k PROVE spans[Kids[n][j]] = <<>>
  BY <1>3, <1>5, <1>6, <1>7, KidsOf DEF NotReached
<1>8. NotReached(n)'
  <2> SUFFICES ASSUME NEW j \in DOMAIN Kids[n], idx'[n] <= j PROVE spans'[Kids[n][j]] = <<>>
    BY DEF NotReached
  <2>1. j > k
    BY <1>2, <1>3, KidsOf
  <2> QED
    BY <1>1, <1>7, <2>1
<1>9. FailureKept(n)'
  <2> SUFFICES ASSUME NEW i \in DOMAIN Kids[n], i < idx'[n], ~out'[Kids[n][i]].ok
               PROVE  ~up'[n].ok
    BY DEF FailureKept
  <2>1. i < k \/ i = k
    BY <1>2, <1>3, KidsOf
  <2> QED
    BY <1>1, <1>2, <1>4, <1>5, <2>1 DEF FailureKept
<1>10. OnlySkips(n)'
  <2> SUFFICES ASSUME NEW i \in DOMAIN Kids[n], NEW j \in DOMAIN Kids[n],
                      i < j, i < idx'[n], ~out'[Kids[n][i]].ok
               PROVE  Works(Kids[n][j]) = {}
    BY <1>1 DEF OnlySkips, Works
  <2>1. i < k \/ (i = k /\ j > k)
    BY <1>2, <1>3, KidsOf
  <2>2. CASE i < k
    BY <1>4, <1>5, <2>2 DEF OnlySkips
  <2>3. CASE j > k
    BY <1>7, <2>3 DEF Works
  <2> QED
    BY <2>1, <2>2, <2>3
<1> QED
  BY <1>1, <1>8, <1>9, <1>10

LEMMA StepsToldStep ==
  ASSUME Typed, Linked, RootFree, KindsFit, Given, Doomed, StepsTold, NEW m \in Node, Step(m)
  PROVE  StepsTold'
<1> SUFFICES ASSUME NEW n \in Node, Kind[n] = "seq"
             PROVE  /\ pc'[n] = "entered" => idx'[n] = 1
                    /\ NotReached(n)' /\ FailureKept(n)' /\ OnlySkips(n)'
  BY DEF StepsTold
<1>1. CASE m # n
  BY <1>1, StepsOfOthers
<1>2. CASE m = n /\ StepReturned(n)
  BY <1>2, StepReturnedSteps
<1>3. CASE m = n /\ ~StepReturned(n)
  <2>1. StartSequence(n) \/ Call(n) \/ EndSequence(n)
    BY <1>3 DEF Step, KindsFit, Trying, Tried, StartGroup, JoinGroup, Skip, BeginAttempt,
       AbortAttempt, StartChildren, ChildReturned, FinishAttempt, AttemptSucceeded, Retry, GiveUp,
       FallbackReturned, Exhaust, StartCascade, SkippedReturned, Return
  <2>2. NotReached(n) /\ FailureKept(n) /\ OnlySkips(n) /\ (pc[n] = "entered" => idx[n] = 1)
    BY DEF StepsTold
  <2>3. pc'[n] # "entered" /\ idx'[n] = idx[n] /\ up'[n] = up[n] /\ spans' = spans
    <3> USE DEF Typed, TypeOK
    <3>1. CASE StartSequence(n)
      BY <2>2, <3>1 DEF StartSequence
    <3>2. CASE Call(n)
      <4>1. Callee(n) # n
        BY <3>2, CalleeType, Tree DEF Call, Callees
      <4> QED
        BY <3>2, <4>1 DEF Call, Calling
    <3>3. CASE EndSequence(n)
      BY <3>3 DEF EndSequence
    <3> QED
      BY <2>1, <3>1, <3>2, <3>3
  <2>4. \A j \in DOMAIN Kids[n] : /\ out'[Kids[n][j]] = out[Kids[n][j]]
                                  /\ pc'[Kids[n][j]] = "idle" => pc[Kids[n][j]] = "idle"
    <3> SUFFICES ASSUME NEW j \in DOMAIN Kids[n]
                 PROVE  /\ out'[Kids[n][j]] = out[Kids[n][j]]
                        /\ pc'[Kids[n][j]] = "idle" => pc[Kids[n][j]] = "idle"
      OBVIOUS
    <3>1. Kids[n][j] \in Node /\ Kids[n][j] # n
      BY KidsOf
    <3>2. ~TakesOutcome(n) /\ ~JoinGroup(n)
      BY <1>3, <2>1 DEF TakesOutcome, JoinGroup, ChildReturned, FallbackReturned, SkippedReturned,
         StartSequence, Call, EndSequence, KindsFit, Trying, Tried
    <3> QED
      BY <1>3, <3>1, <3>2, OtherFrames, TakenBy
  <2> QED
    BY <2>2, <2>3, <2>4 DEF NotReached, FailureKept, OnlySkips, Works
<1> QED
  BY <1>1, <1>2, <1>3

-----------------------------------------------------------------------------
LEMMA LastWorkIsCurrent ==
  ASSUME Typed, NEW n \in Node, Len(spans[n]) > 0, Current(n).kind = "work"
  PROVE  LastWork(n) = Current(n)
<1>1. DOMAIN spans[n] = 1..Len(spans[n]) /\ Len(spans[n]) \in Nat
  BY SpanSeq
<1>2. Len(spans[n]) \in Works(n) /\ \A i \in Works(n) : i \in 1..Len(spans[n])
  BY <1>1 DEF Works, Current
<1> DEFINE last == CHOOSE i \in Works(n) : \A j \in Works(n) : j <= i
<1>3. last \in Works(n) /\ \A j \in Works(n) : j <= last
  BY <1>1, <1>2
<1>4. last = Len(spans[n])
  <2> HIDE DEF last
  <2> QED
    BY <1>1, <1>2, <1>3
<1> QED
  BY <1>4 DEF LastWork, Current

LEMMA ToldAlways == Spec => [](Accounted /\ Told /\ StepsTold)
<1>1. Init => Told /\ StepsTold
  <2> SUFFICES ASSUME Init PROVE Told /\ StepsTold
    OBVIOUS
  <2>1. \A n \in Node : /\ pc[n] = (IF n = Root THEN "entered" ELSE "idle") /\ idx[n] = 1
                        /\ spans[n] = <<>> /\ out[n] = NoParent
    BY DEF Init
  <2>2. Told
    BY <2>1 DEF Told, WhileTried, WhileRecovering, WhenReturned, Tried
  <2>3. \A n \in Node : \A i \in DOMAIN Kids[n] : Kids[n][i] \in Node /\ out[Kids[n][i]].ok
    BY <2>1, KidsOf DEF NoParent, Succeeded
  <2>4. StepsTold
    BY <2>1, <2>3 DEF StepsTold, NotReached, FailureKept, OnlySkips
  <2> QED
    BY <2>2, <2>4
<1>2. Accounted /\ Told /\ StepsTold /\ [Next]_vars => Told' /\ StepsTold'
  <2> SUFFICES ASSUME Accounted, Told, StepsTold, [Next]_vars PROVE Told' /\ StepsTold'
    OBVIOUS
  <2>1. ASSUME NEW n \in Node, Step(n) PROVE Told' /\ StepsTold'
    BY <2>1, ToldStep, StepsToldStep DEF Accounted
  <2>2. CASE UNCHANGED <<frame, spans>>
    BY <2>2 DEF frame, Told, WhileTried, WhileRecovering, WhenReturned, Current, Cause, Recovers,
       FailedBefore, StepsTold, NotReached, FailureKept, OnlySkips, Works
  <2> QED
    BY <2>1, <2>2 DEF Next, Cancel, Finished, vars, frame
<1> QED
  BY <1>1, <1>2, AccountedAlways, AccountedStep, PTL DEF Spec

\* Failures are explained for every plan: a success was one or was recovered, a skip
\* carries its caller's failure, and after a failed step nothing is executed.
THEOREM FailuresExplainedCorrect == Spec => []FailuresExplained
<1>1. Accounted /\ Told /\ StepsTold => FailuresExplained
  <2> SUFFICES ASSUME Accounted, Told, StepsTold PROVE FailuresExplained
    OBVIOUS
  <2>1. SuccessExplained
    <3> SUFFICES ASSUME NEW n \in Node, pc[n] = "returned", Kind[n] = "op", out[n].ok
                 PROVE  /\ out[n].err = "none" /\ ~out[n].cascaded
                        /\ CASE out[n].recovery = "none" ->
                                  LastWork(n).ok /\ start[n] + out[n].latency = LastWork(n).end
                             [] out[n].recovery = "fallback" ->
                                  /\ ~LastWork(n).ok
                                  /\ out[Fallbacks[n][idx[n] - 1]].ok
                                  /\ \A i \in 1..(idx[n] - 2) : ~out[Fallbacks[n][i]].ok
                             [] OTHER ->
                                  /\ ~LastWork(n).ok
                                  /\ OnFailure[n] \in {"return_default", "succeed_silently"}
                                  /\ \A f \in FallbackSet(n) : ~out[f].ok
      BY DEF SuccessExplained
    <3>1. WhenReturned(n)
      BY DEF Told
    <3>2. LastWork(n) = Current(n)
      BY <3>1, LastWorkIsCurrent DEF WhenReturned, Accounted
    <3>3. CASE out[n].recovery = "none" /\ Current(n).ok
               /\ start[n] + out[n].latency = Current(n).end
      BY <3>1, <3>2, <3>3 DEF WhenReturned
    <3>4. CASE ~Current(n).ok /\ Recovers(n)
      <4>1. CASE out[n].recovery = "fallback"
        BY <3>1, <3>2, <3>4, <4>1 DEF WhenReturned, Recovers, FailedBefore
      <4>2. CASE out[n].recovery \in {"default", "silent"}
        BY <3>1, <3>2, <3>4, <4>2 DEF WhenReturned, Recovers
      <4> QED
        BY <3>4, <4>1, <4>2 DEF Recovers
    <3> QED
      BY <3>1, <3>3, <3>4 DEF WhenReturned
  <2>2. SkipsInheritError
    <3> SUFFICES ASSUME NEW n \in Node, pc[n] = "cascading", NEW k \in KidSet(n),
                        pc[k] = "returned"
                 PROVE  /\ ~out[k].ok /\ out[k].cascaded /\ out[k].latency = 0
                        /\ out[k].err = out[n].err
                        /\ ~LastWork(n).ok
                        /\ IF Timeout[n] > 0 /\ LastWork(n).end - start[n] > Timeout[n]
                           THEN out[k].err = "timeout" ELSE out[k].err = LastWork(n).err
      BY DEF SkipsInheritError
    <3>1. IsSkipped(out[k], out[n])
      BY SkippedKid DEF Accounted, Callees
    <3>2. ~out[n].ok /\ ~Current(n).ok /\ out[n].err = Cause(n)
      BY DEF Accounted, Cascades, Told, WhileTried, Tried
    <3>3. LastWork(n) = Current(n)
      BY LastWorkIsCurrent DEF Accounted, Attempts, LastIsWork, Tried
    <3> QED
      BY <3>1, <3>2, <3>3 DEF IsSkipped, Cause
  <2>3. NoWorkAfterFailedStep
    BY DEF StepsTold, OnlySkips, NoWorkAfterFailedStep
  <2> QED
    BY <2>1, <2>2, <2>3 DEF FailuresExplained
<1> QED
  BY <1>1, ToldAlways, PTL

=============================================================================
