--------------------------- MODULE K6OutputProofs ---------------------------
(***************************************************************************)
(* Proofs about K6Output, for every number of producers and every size of  *)
(* the queue, the batch and the calls.                                     *)
(***************************************************************************)
EXTENDS K6Output, SequenceTheorems, TLAPS

(***************************************************************************)
(* A call inside tryPush has a sample to push; the count never goes below  *)
(* zero.                                                                   *)
(***************************************************************************)
Busy == \A p \in Producers : caller[p] # "idle" => left[p] > 0
Typed == TypeOK /\ Busy

LEMMA InitTyped == Init => Typed
<1>1. Init => /\ canceled \in BOOLEAN /\ open \in BOOLEAN
              /\ timedOut \in BOOLEAN /\ flushError \in BOOLEAN
              /\ overlapped \in BOOLEAN /\ orderly \in BOOLEAN
  BY Zenon DEF Init
<1> QED
  BY <1>1, OutputAssumption DEF Init, TypeOK, Busy, Typed

\* What a receive from the channel leaves.
LEMMA ReceiveTyped ==
  ASSUME queue \in Seq(Nat), queue # <<>>
  PROVE  /\ Head(queue) \in Nat
         /\ Tail(queue) \in Seq(Nat)
         /\ Len(queue) \in Nat
         /\ Len(Tail(queue)) = Len(queue) - 1
  BY HeadTailProperties, LenProperties

LEMMA NextSampleTyped ==
  ASSUME Typed, NEW p \in Producers, caller[p] # "idle", NextSample(p)
  PROVE  /\ left' \in [Producers -> Nat]
         /\ caller' \in [Producers -> {"idle", "push", "evict", "push_again"}]
         /\ Busy'
<1>1. left[p] \in Nat /\ left[p] > 0
  BY DEF Typed, TypeOK, Busy
<1> QED
  BY <1>1 DEF Typed, TypeOK, Busy, NextSample

LEMMA ProducerTyped ==
  ASSUME Typed, NEW p \in Producers, Producer(p)
  PROVE  Typed'
<1> USE OutputAssumption DEF Typed, TypeOK, flush, history
<1>1. CASE AddMetricSamples(p)
  <2>1. overlapped' \in BOOLEAN
    BY <1>1, Zenon DEF AddMetricSamples
  <2> QED
    BY <1>1, <2>1 DEF Busy, AddMetricSamples
<1>2. CASE Push(p)
  <2>1. queue' \in Seq(Nat) /\ Len(queue') <= QueueSize
    <3>1. queue' = Append(queue, pushed + 1) /\ Len(queue) < QueueSize
      BY <1>2 DEF Push, HasRoom
    <3>2. queue' \in Seq(Nat) /\ Len(queue') = Len(queue) + 1
      BY <3>1, AppendProperties
    <3> QED
      BY <3>1, <3>2, LenProperties
  <2>2. NextSample(p) /\ caller[p] # "idle"
    BY <1>2 DEF Push
  <2>3. pushed' \in Nat
    BY <1>2 DEF Push
  <2>4. UNCHANGED <<starting, stopping, canceled, drops, flush, exported, open,
                    offered, evicted, rejected, timedOut, flushError, overlapped, orderly>>
    BY <1>2 DEF Push
  <2> QED
    BY <2>1, <2>2, <2>3, <2>4, NextSampleTyped
<1>3. CASE FindFull(p)
  BY <1>3 DEF Busy, FindFull
<1>4. CASE EvictOldest(p)
  <2>1. /\ caller' \in [Producers -> {"idle", "push", "evict", "push_again"}]
        /\ Busy'
    BY <1>4 DEF Busy, EvictOldest
  <2>2. CASE queue = <<>>
    <3>1. UNCHANGED <<starting, stopping, canceled, queue, drops, left, flusher, batch,
                      recorded, exported, open, offered, pushed, evicted, rejected,
                      timedOut, flushError, overlapped, orderly>>
      BY <1>4, <2>2 DEF EvictOldest
    <3> HIDE <1>4
    <3> QED
      BY <2>1, <3>1
  <2>3. CASE queue # <<>>
    <3>1. queue' = Tail(queue) /\ drops' = drops + 1 /\ evicted' = evicted \cup {Head(queue)}
      BY <1>4, <2>3 DEF EvictOldest
    <3>2. queue' \in Seq(Nat) /\ Len(queue') <= QueueSize
      BY <2>3, <3>1, ReceiveTyped
    <3>3. evicted' \subseteq Nat
      BY <2>3, <3>1, ReceiveTyped
    <3>4. UNCHANGED <<starting, stopping, canceled, left, flusher, batch, recorded,
                      exported, open, offered, pushed, rejected, timedOut, flushError,
                      overlapped, orderly>>
      BY <1>4 DEF EvictOldest
    <3>5. drops' \in Nat
      BY <3>1
    <3> HIDE <1>4
    <3> QED
      BY <2>1, <3>2, <3>3, <3>4, <3>5
  <2> QED
    BY <2>2, <2>3
<1>5. CASE Reject(p)
  <2>1. NextSample(p) /\ caller[p] # "idle"
    BY <1>5 DEF Reject
  <2> QED
    BY <1>5, <2>1, NextSampleTyped DEF Reject
<1> QED
  BY <1>1, <1>2, <1>3, <1>4, <1>5 DEF Producer

LEMMA FlusherTyped ==
  ASSUME Typed, Flusher
  PROVE  Typed'
<1> USE OutputAssumption DEF Typed, TypeOK, Busy, producer, history
<1>1. CASE TakeSample
  <2> DEFINE taken == Append(batch, Head(queue))
  <2>1. /\ queue' \in Seq(Nat) /\ Len(queue') <= QueueSize
        /\ Head(queue) \in Nat
    BY <1>1, ReceiveTyped DEF TakeSample
  <2>2. taken \in Seq(Nat)
    BY <2>1, AppendProperties
  <2>3. /\ batch' \in Seq(Nat) /\ Len(batch') < BatchMax
        /\ recorded' \in Seq(Nat)
    <3> HIDE DEF taken
    <3>1. CASE Len(taken) >= BatchMax
      <4>1. recorded' = recorded \o taken /\ batch' = <<>>
        BY <1>1, <3>1 DEF TakeSample, Record, taken
      <4> QED
        BY <2>2, <4>1, ConcatProperties, EmptySeq
    <3>2. CASE ~(Len(taken) >= BatchMax)
      <4>1. recorded' = recorded /\ batch' = taken
        BY <1>1, <3>2 DEF TakeSample, taken
      <4> QED
        BY <2>2, <3>2, <4>1, LenProperties
    <3> QED
      BY <3>1, <3>2
  <2> QED
    BY <1>1, <2>1, <2>3 DEF TakeSample
<1>2. ASSUME Record(batch)
      PROVE  recorded' \in Seq(Nat) /\ batch' \in Seq(Nat) /\ Len(batch') < BatchMax
  BY <1>2, ConcatProperties, EmptySeq DEF Record
<1>3. CASE FlushOnTick
  BY <1>2, <1>3 DEF FlushOnTick
<1>4. CASE SeeDone
  BY <1>4 DEF SeeDone
<1>5. CASE FinishLoop
  BY <1>2, <1>5 DEF FinishLoop
<1> QED
  BY <1>1, <1>3, <1>4, <1>5 DEF Flusher

LEMMA LifecycleTyped ==
  ASSUME Typed, Starter \/ Collect \/ StopCancel \/ InStop
  PROVE  Typed'
<1> USE DEF Typed, TypeOK, Busy, producer, flush, history
<1>1. CASE Starter
  <2>1. CASE GetPipeline
    BY <2>1 DEF GetPipeline
  <2>2. CASE Launch
    BY <2>2 DEF Launch
  <2> QED
    BY <1>1, <2>1, <2>2 DEF Starter
<1>2. CASE Collect
  <2>1. Len(recorded) \in Nat
    BY LenProperties
  <2> QED
    BY <1>2, <2>1 DEF Collect
<1>3. CASE StopCancel
  <2>1. orderly' \in BOOLEAN
    BY <1>3, Zenon DEF StopCancel
  <2> QED
    BY <1>3, <2>1 DEF StopCancel
<1>4. CASE StopWait
  BY <1>4 DEF StopWait
<1>5. CASE StopForceFlush
  <2>1. flushError' \in BOOLEAN
    BY <1>5, Zenon DEF StopForceFlush
  <2> QED
    BY <1>5, <2>1, LenProperties DEF StopForceFlush
<1>6. CASE StopPipeline
  BY <1>6 DEF StopPipeline
<1> QED
  BY <1>1, <1>2, <1>3, <1>4, <1>5, <1>6 DEF InStop

LEMMA TypedAlways == Spec => []Typed
<1>1. Typed /\ [Next]_vars => Typed'
  <2> SUFFICES ASSUME Typed, [Next]_vars
               PROVE  Typed'
    OBVIOUS
  <2>1. CASE UNCHANGED vars
    BY <2>1 DEF vars, Typed, TypeOK, Busy
  <2> QED
    BY <2>1, ProducerTyped, FlusherTyped, LifecycleTyped DEF Next
<1> QED
  BY InitTyped, <1>1, PTL DEF Spec

\* The output's variables stay in their types: in particular the channel never
\* holds more than QueueSize samples and the batch never reaches its limit
\* unrecorded, however AddMetricSamples, flushLoop, Start and Stop interleave.
THEOREM TypeCorrect == Spec => []TypeOK
<1>1. Typed => TypeOK
  BY DEF Typed
<1> QED
  BY TypedAlways, <1>1, PTL

-----------------------------------------------------------------------------
(***************************************************************************)
(* No sample is lost without a count.                                      *)
(***************************************************************************)
LEMMA LengthsTyped ==
  ASSUME Typed
  PROVE  /\ Len(queue) \in Nat /\ Len(batch) \in Nat /\ Len(recorded) \in Nat
         /\ drops \in Nat /\ pushed \in Nat /\ rejected \in Nat
  BY LenProperties DEF Typed, TypeOK

\* A step that leaves the queue, the batch, the records and the counts alone.
Bystander == UNCHANGED <<queue, batch, recorded, drops, pushed, rejected>>

LEMMA ProducerAccounts ==
  ASSUME Typed, DropsAccounted, NEW p \in Producers, Producer(p)
  PROVE  DropsAccounted'
<1> USE LengthsTyped DEF DropsAccounted
<1>1. CASE AddMetricSamples(p) \/ FindFull(p)
  BY <1>1 DEF AddMetricSamples, FindFull, flush, history
<1>2. CASE Push(p)
  <2>1. Len(queue') = Len(queue) + 1
    BY <1>2, AppendProperties DEF Push, Typed, TypeOK
  <2>2. pushed' = pushed + 1 /\ UNCHANGED <<batch, recorded, drops, rejected>>
    BY <1>2 DEF Push, flush
  <2> QED
    BY <2>1, <2>2
<1>3. CASE EvictOldest(p)
  <2>1. UNCHANGED <<batch, recorded, pushed, rejected>>
    BY <1>3 DEF EvictOldest, flush
  <2>2. CASE queue = <<>>
    BY <1>3, <2>1, <2>2 DEF EvictOldest
  <2>3. CASE queue # <<>>
    <3>1. drops' = drops + 1
      BY <1>3, <2>3 DEF EvictOldest
    <3>2. queue' = Tail(queue)
      BY <1>3, <2>3 DEF EvictOldest
    <3>3. Len(queue') = Len(queue) - 1
      BY <2>3, <3>2, ReceiveTyped DEF Typed, TypeOK
    <3> QED
      BY <2>1, <3>1, <3>3
  <2> QED
    BY <2>2, <2>3
<1>4. CASE Reject(p)
  <2>1. drops' = drops + 1 /\ rejected' = rejected + 1
    BY <1>4 DEF Reject
  <2>2. UNCHANGED <<queue, batch, recorded, pushed>>
    BY <1>4 DEF Reject, flush
  <2> QED
    BY <2>1, <2>2
<1> QED
  BY <1>1, <1>2, <1>3, <1>4 DEF Producer

LEMMA RecordAccounts ==
  ASSUME Typed, NEW s \in Seq(Nat), Record(s)
  PROVE  Len(recorded') = Len(recorded) + Len(s) /\ Len(batch') = 0
  BY ConcatProperties, EmptySeq DEF Typed, TypeOK, Record

LEMMA FlusherAccounts ==
  ASSUME Typed, DropsAccounted, Flusher
  PROVE  DropsAccounted'
<1> USE LengthsTyped DEF DropsAccounted, history
<1>1. CASE TakeSample
  <2> DEFINE taken == Append(batch, Head(queue))
  <2>1. UNCHANGED <<drops, pushed, rejected>>
    BY <1>1 DEF TakeSample
  <2>2. queue # <<>> /\ queue' = Tail(queue)
    BY <1>1 DEF TakeSample
  <2>3. Len(queue') = Len(queue) - 1
    BY <2>2, ReceiveTyped DEF Typed, TypeOK
  <2>4. taken \in Seq(Nat) /\ Len(taken) = Len(batch) + 1
    BY <2>2, ReceiveTyped, AppendProperties DEF Typed, TypeOK
  <2>5. Record(taken) \/ (batch' = taken /\ recorded' = recorded)
    BY <1>1 DEF TakeSample
  <2> HIDE DEF taken
  <2>6. CASE Record(taken)
    <3>1. Len(recorded') = Len(recorded) + Len(taken) /\ Len(batch') = 0
      BY <2>4, <2>6, RecordAccounts
    <3> QED
      BY <2>1, <2>3, <2>4, <3>1
  <2>7. CASE batch' = taken /\ recorded' = recorded
    <3>1. Len(batch') = Len(batch) + 1 /\ Len(recorded') = Len(recorded)
      BY <2>4, <2>7
    <3> QED
      BY <2>1, <2>3, <3>1
  <2> QED
    BY <2>5, <2>6, <2>7
<1>2. CASE Record(batch) /\ UNCHANGED <<queue, drops, pushed, rejected>>
  <2>1. Len(recorded') = Len(recorded) + Len(batch) /\ Len(batch') = 0
    BY <1>2, RecordAccounts DEF Typed, TypeOK
  <2> QED
    BY <1>2, <2>1
<1>3. CASE SeeDone
  BY <1>3 DEF SeeDone
<1> QED
  BY <1>1, <1>2, <1>3 DEF Flusher, FlushOnTick, FinishLoop

\* queue_drops is exact: however many goroutines push, whatever is evicted,
\* rejected, batched or drained, every sample is recorded, waiting, or counted.
THEOREM DropsAccountedCorrect == Spec => []DropsAccounted
<1>1. Init => DropsAccounted
  BY EmptySeq DEF Init, DropsAccounted
<1>2. Typed /\ DropsAccounted /\ [Next]_vars => DropsAccounted'
  <2> SUFFICES ASSUME Typed, DropsAccounted, [Next]_vars
               PROVE  DropsAccounted'
    OBVIOUS
  <2>1. CASE Starter \/ Collect \/ StopCancel \/ InStop \/ UNCHANGED vars
    <3>1. Bystander
      BY <2>1 DEF Bystander, vars, Starter, GetPipeline, Launch, Collect, StopCancel,
         InStop, StopWait, StopForceFlush, StopPipeline, flush, history
    <3> QED
      BY <3>1 DEF Bystander, DropsAccounted
  <2> QED
    BY <2>1, ProducerAccounts, FlusherAccounts DEF Next
<1> QED
  BY TypedAlways, <1>1, <1>2, PTL DEF Spec

-----------------------------------------------------------------------------
(***************************************************************************)
(* While calls follow one another there is one producer at most, and one   *)
(* that has found the queue full and made room finds that room: only the   *)
(* flusher touches the queue meanwhile, and it takes away.                 *)
(***************************************************************************)
OneAtATime ==
  \A p, q \in Producers : caller[p] # "idle" /\ caller[q] # "idle" => p = q

RoomKept ==
  ~overlapped =>
    /\ rejected = 0
    /\ OneAtATime
    /\ \A p \in Producers : caller[p] = "push_again" => HasRoom

LEMMA ReceiveMakesRoom ==
  ASSUME Typed, queue # <<>>, queue' = Tail(queue)
  PROVE  HasRoom'
<1>1. /\ Len(queue) \in Nat /\ Len(queue') = Len(queue) - 1
      /\ Len(queue) <= QueueSize /\ QueueSize \in Nat
  BY ReceiveTyped, OutputAssumption DEF Typed, TypeOK
<1> QED
  BY <1>1 DEF HasRoom

LEMMA RoomKeptStep ==
  ASSUME Typed, RoomKept, [Next]_vars
  PROVE  RoomKept'
<1> SUFFICES ASSUME ~overlapped'
             PROVE  /\ rejected' = 0
                    /\ OneAtATime'
                    /\ \A p \in Producers : caller'[p] = "push_again" => HasRoom'
  BY DEF RoomKept
<1>1. ~overlapped
  BY DEF Next, vars, Starter, GetPipeline, Launch, Producer, AddMetricSamples, Push, FindFull,
     EvictOldest, Reject, Flusher, TakeSample, FlushOnTick, SeeDone, FinishLoop, Collect,
     StopCancel, InStop, StopWait, StopForceFlush, StopPipeline, history
<1>2. /\ rejected = 0
      /\ OneAtATime
      /\ \A p \in Producers : caller[p] = "push_again" => HasRoom
  BY <1>1 DEF RoomKept
<1>3. caller \in [Producers -> {"idle", "push", "evict", "push_again"}]
  BY DEF Typed, TypeOK
<1>4. CASE UNCHANGED <<queue, caller, rejected>>
  BY <1>2, <1>4 DEF HasRoom, OneAtATime
<1>5. ASSUME NEW p \in Producers, Producer(p)
      PROVE  /\ rejected' = 0
             /\ OneAtATime'
             /\ \A q \in Producers : caller'[q] = "push_again" => HasRoom'
  <2>1. \A q \in Producers : q # p => caller[q] = "idle" /\ caller'[q] = "idle"
    <3>1. CASE AddMetricSamples(p)
      BY <1>3, <3>1 DEF AddMetricSamples, Quiet
    <3>2. CASE Push(p) \/ FindFull(p) \/ EvictOldest(p) \/ Reject(p)
      <4>1. caller[p] # "idle"
        BY <3>2 DEF Push, FindFull, EvictOldest, Reject
      <4>2. \A q \in Producers : q # p => caller'[q] = caller[q]
        BY <1>3, <3>2 DEF Push, FindFull, EvictOldest, Reject, NextSample
      <4> QED
        BY <1>2, <4>1, <4>2 DEF OneAtATime
    <3> QED
      BY <1>5, <3>1, <3>2 DEF Producer
  <2>2. OneAtATime'
    BY <2>1 DEF OneAtATime
  <2>3. CASE AddMetricSamples(p) \/ FindFull(p) \/ Push(p)
    <3>1. rejected' = rejected /\ caller'[p] # "push_again"
      BY <1>3, <2>3 DEF AddMetricSamples, FindFull, Push, NextSample, flush, history
    <3> QED
      BY <1>2, <2>1, <2>2, <3>1
  <2>4. CASE EvictOldest(p)
    <3>1. rejected' = rejected
      BY <2>4 DEF EvictOldest
    <3>2. HasRoom'
      <4>1. CASE queue = <<>>
        <5>1. queue' = <<>>
          BY <2>4, <4>1 DEF EvictOldest
        <5> QED
          BY <5>1, OutputAssumption, EmptySeq DEF HasRoom
      <4>2. CASE queue # <<>>
        BY <2>4, <4>2, ReceiveMakesRoom DEF EvictOldest
      <4> QED
        BY <4>1, <4>2
    <3> QED
      BY <1>2, <2>2, <3>1, <3>2
  <2>5. ~Reject(p)
    BY <1>2 DEF Reject
  <2> QED
    BY <2>3, <2>4, <2>5, <1>5 DEF Producer
<1>6. CASE TakeSample
  <2>1. HasRoom' /\ rejected' = rejected /\ caller' = caller
    BY <1>6, ReceiveMakesRoom DEF TakeSample, producer, history
  <2> QED
    BY <1>2, <2>1 DEF OneAtATime
<1>7. CASE FlushOnTick \/ SeeDone \/ FinishLoop \/ Starter \/ Collect \/ StopCancel \/ InStop
  <2>1. UNCHANGED <<queue, caller, rejected>>
    BY <1>7 DEF FlushOnTick, SeeDone, FinishLoop, Starter, GetPipeline, Launch, Collect,
       StopCancel, InStop, StopWait, StopForceFlush, StopPipeline, producer, history
  <2> QED
    BY <2>1, <1>4
<1> QED
  BY <1>4, <1>5, <1>6, <1>7 DEF Next, Flusher, vars

\* While the calls of AddMetricSamples follow one another, as in k6, tryPush always
\* places the new sample; the branch that drops it needs two calls at once.
THEOREM LoneProducerCorrect == Spec => []LoneProducerNeverRejected
<1>1. Init => RoomKept
  BY DEF Init, RoomKept, OneAtATime
<1>2. RoomKept => LoneProducerNeverRejected
  BY DEF RoomKept, LoneProducerNeverRejected
<1> QED
  BY TypedAlways, RoomKeptStep, <1>1, <1>2, PTL DEF Spec

-----------------------------------------------------------------------------
(***************************************************************************)
(* An orderly Stop.  The calls of AddMetricSamples are over before it      *)
(* cancels the context, so what flushLoop finds empty stays empty, and     *)
(* what the final flush finds recorded stays all there is.                 *)
(***************************************************************************)
OrderlyStop ==
  /\ flusher \in {"drain", "done"} => canceled
  /\ canceled => stopping # "no"
  /\ stopping = "no" => orderly
  /\ stopping # "no" /\ orderly => starting = "running" /\ canceled /\ Quiet
  /\ flusher = "done" /\ orderly => queue = <<>> /\ batch = <<>>

FinalFlush ==
  orderly =>
    /\ stopping \in {"waited", "flushed", "stopped"} /\ ~timedOut => flusher = "done"
    /\ stopping \in {"flushed", "stopped"} /\ ~timedOut /\ ~flushError =>
         exported = Len(recorded)

LEMMA InitLifecycle == Init => OrderlyStop /\ FinalFlush
  BY DEF Init, OrderlyStop, FinalFlush

LEMMA ProducerLifecycle ==
  ASSUME Typed, OrderlyStop, FinalFlush, NEW p \in Producers, Producer(p)
  PROVE  OrderlyStop' /\ FinalFlush'
<1>1. UNCHANGED <<starting, flusher, canceled, stopping, orderly>>
  BY DEF Producer, AddMetricSamples, Push, FindFull, EvictOldest, Reject, flush, history
<1>2. stopping = "no" \/ ~orderly
  BY DEF Producer, AddMetricSamples, Push, FindFull, EvictOldest, Reject, OrderlyStop, Quiet
<1>3. stopping = "no" => flusher \notin {"drain", "done"}
  BY DEF OrderlyStop
<1> QED
  BY <1>1, <1>2, <1>3 DEF OrderlyStop, FinalFlush

LEMMA FlusherLifecycle ==
  ASSUME Typed, OrderlyStop, FinalFlush, Flusher
  PROVE  OrderlyStop' /\ FinalFlush'
<1>1. /\ flusher # "done"
      /\ UNCHANGED <<starting, stopping, canceled, caller, timedOut, orderly>>
  BY DEF Flusher, TakeSample, FlushOnTick, SeeDone, FinishLoop, producer, history
<1>2. FinalFlush'
  BY <1>1 DEF FinalFlush
<1>3. /\ flusher' \in {"drain", "done"} => canceled
      /\ flusher' = "done" => queue' = <<>> /\ batch' = <<>>
  BY <1>1 DEF Flusher, TakeSample, FlushOnTick, SeeDone, FinishLoop, Record, OrderlyStop
<1> QED
  BY <1>1, <1>2, <1>3 DEF OrderlyStop, Quiet

LEMMA StopLifecycle ==
  ASSUME Typed, OrderlyStop, FinalFlush, Starter \/ Collect \/ StopCancel \/ InStop
  PROVE  OrderlyStop' /\ FinalFlush'
<1>1. UNCHANGED <<queue, batch, recorded, caller>>
  BY DEF Starter, GetPipeline, Launch, Collect, StopCancel, InStop, StopWait,
     StopForceFlush, StopPipeline, producer, flush
<1>2. CASE Starter
  BY <1>1, <1>2 DEF Starter, GetPipeline, Launch, OrderlyStop, FinalFlush, flush, history
<1>3. CASE Collect
  BY <1>1, <1>3 DEF Collect, OrderlyStop, FinalFlush, Quiet, flush, history
<1>4. CASE StopCancel
  <2>1. /\ stopping = "no" /\ stopping' = "canceled"
        /\ UNCHANGED <<starting, flusher, batch, queue, caller>>
    BY <1>1, <1>4 DEF StopCancel, flush
  <2>3. orderly' => starting = "running" /\ canceled' /\ Quiet
    BY <1>4, Zenon DEF StopCancel
  <2>2. flusher \notin {"drain", "done"}
    BY <2>1 DEF OrderlyStop
  <2> QED
    BY <2>1, <2>2, <2>3 DEF OrderlyStop, FinalFlush, Quiet
<1>5. CASE StopWait
  BY <1>1, <1>5 DEF StopWait, OrderlyStop, FinalFlush, Quiet, flush
<1>6. CASE StopForceFlush
  BY <1>1, <1>6 DEF StopForceFlush, HasProvider, OrderlyStop, FinalFlush, Quiet, flush
<1>7. CASE StopPipeline
  BY <1>1, <1>7 DEF StopPipeline, OrderlyStop, FinalFlush, Quiet, flush, history
<1> QED
  BY <1>2, <1>3, <1>4, <1>5, <1>6, <1>7 DEF InStop

LEMMA LifecycleAlways == Spec => [](OrderlyStop /\ FinalFlush)
<1>1. Typed /\ OrderlyStop /\ FinalFlush /\ [Next]_vars => (OrderlyStop /\ FinalFlush)'
  <2> SUFFICES ASSUME Typed, OrderlyStop, FinalFlush, [Next]_vars
               PROVE  OrderlyStop' /\ FinalFlush'
    OBVIOUS
  <2>1. CASE UNCHANGED vars
    BY <2>1 DEF vars, OrderlyStop, FinalFlush, Quiet
  <2> QED
    BY <2>1, ProducerLifecycle, FlusherLifecycle, StopLifecycle DEF Next
<1> QED
  BY TypedAlways, InitLifecycle, <1>1, PTL DEF Spec

\* Called after the last AddMetricSamples, a Stop that does not give up on flushLoop
\* leaves nothing in the queue or the batch.
THEOREM StopDrainsCorrect == Spec => []StopDrains
<1>1. OrderlyStop /\ FinalFlush => StopDrains
  BY DEF OrderlyStop, FinalFlush, StopDrains
<1> QED
  BY LifecycleAlways, <1>1, PTL

\* ... and, unless its final flush failed, every sample pushed has left the process
\* or is counted in queue_drops.
THEOREM StopDeliversCorrect == Spec => []StopDelivers
<1>1. Typed /\ DropsAccounted /\ OrderlyStop /\ FinalFlush => StopDelivers
  <2> SUFFICES ASSUME Typed, DropsAccounted, OrderlyStop, FinalFlush,
                      orderly, stopping = "stopped", ~timedOut, ~flushError
               PROVE  pushed + rejected = exported + drops
    BY DEF StopDelivers
  <2>1. queue = <<>> /\ batch = <<>> /\ exported = Len(recorded)
    BY DEF OrderlyStop, FinalFlush
  <2> QED
    BY <2>1, LengthsTyped, EmptySeq DEF DropsAccounted
<1> QED
  BY TypedAlways, DropsAccountedCorrect, LifecycleAlways, <1>1, PTL

\* What k6 relies on when it stops the output: the queue is drained, and delivered.
THEOREM StopServesCorrect == Spec => []StopServes
<1>1. StopDrains /\ StopDelivers => StopServes
  BY DEF StopServes
<1> QED
  BY StopDrainsCorrect, StopDeliversCorrect, <1>1, PTL

-----------------------------------------------------------------------------
(***************************************************************************)
(* The order of the samples.  Only a push and an eviction change what is   *)
(* kept: the one puts a new largest number at its end, the other takes the *)
(* first number of the queue out of its middle.  What the flusher does     *)
(* moves the borders between its three parts.                              *)
(***************************************************************************)
Increasing(s) == \A i, j \in DOMAIN s : i < j => s[i] < s[j]
Elements(s) == {s[i] : i \in DOMAIN s}
EvictedWerePushed == evicted \subseteq 1..pushed
Ordered == SamplesInOrder /\ EvictedWerePushed

LEMMA AppendInOrder ==
  ASSUME NEW s \in Seq(Nat), Increasing(s), NEW x \in Nat, \A y \in Elements(s) : y < x
  PROVE  Increasing(Append(s, x)) /\ Elements(Append(s, x)) = Elements(s) \union {x}
<1> DEFINE t == Append(s, x)
<1>1. /\ Len(s) \in Nat /\ DOMAIN s = 1..Len(s) /\ DOMAIN t = 1..(Len(s) + 1)
      /\ t[Len(s) + 1] = x
      /\ \A i \in 1..Len(s) : t[i] = s[i] /\ s[i] \in Nat /\ s[i] \in Elements(s)
  BY AppendProperties, LenProperties DEF Elements
<1> HIDE DEF t
<1>2. Increasing(t)
  <2> SUFFICES ASSUME NEW i \in DOMAIN t, NEW j \in DOMAIN t, i < j PROVE t[i] < t[j]
    BY DEF Increasing
  <2>1. i \in 1..Len(s) /\ t[i] = s[i]
    BY <1>1
  <2>2. CASE j \in 1..Len(s)
    BY <1>1, <2>1, <2>2 DEF Increasing
  <2>3. CASE j = Len(s) + 1
    BY <1>1, <2>1, <2>3
  <2> QED
    BY <1>1, <2>2, <2>3
<1>3. Elements(t) = Elements(s) \union {x}
  <2>1. \A i \in 1..(Len(s) + 1) : i \in 1..Len(s) \/ i = Len(s) + 1
    BY <1>1
  <2>2. Len(s) + 1 \in DOMAIN t /\ DOMAIN s \subseteq DOMAIN t
    BY <1>1
  <2> QED
    BY <1>1, <2>1, <2>2 DEF Elements
<1> QED
  BY <1>2, <1>3 DEF t

\* An increasing sequence loses its element at k + 1.
LEMMA RemoveInOrder ==
  ASSUME NEW s \in Seq(Nat), Increasing(s), NEW k \in Nat, k < Len(s),
         NEW t, DOMAIN t = 1..(Len(s) - 1),
         \A i \in 1..(Len(s) - 1) : t[i] = IF i <= k THEN s[i] ELSE s[i + 1]
  PROVE  Increasing(t) /\ Elements(t) = Elements(s) \ {s[k + 1]}
<1> DEFINE at(i) == IF i <= k THEN i ELSE i + 1
<1>1. /\ Len(s) \in Nat /\ DOMAIN s = 1..Len(s)
      /\ \A i \in 1..Len(s) : s[i] \in Nat
  BY LenProperties
<1>2. \A i \in DOMAIN t : at(i) \in DOMAIN s /\ t[i] = s[at(i)] /\ at(i) # k + 1
  BY <1>1
<1>3. \A i \in DOMAIN s : i # k + 1 => \E j \in DOMAIN t : i = at(j)
  <2> SUFFICES ASSUME NEW i \in DOMAIN s, i # k + 1 PROVE \E j \in DOMAIN t : i = at(j)
    OBVIOUS
  <2>1. CASE i <= k
    BY <1>1, <2>1
  <2>2. CASE i > k
    <3>1. i - 1 \in DOMAIN t /\ ~(i - 1 <= k) /\ (i - 1) + 1 = i
      BY <1>1, <2>2
    <3> QED
      BY <3>1
  <2> QED
    BY <1>1, <2>1, <2>2
<1>4. \A i, j \in DOMAIN t : i < j => at(i) < at(j)
  BY <1>1
<1>5. \A i, j \in DOMAIN s : s[i] = s[j] => i = j
  BY <1>1 DEF Increasing
<1>6. k + 1 \in DOMAIN s
  BY <1>1
<1> HIDE DEF at
<1>7. Increasing(t)
  BY <1>2, <1>4 DEF Increasing
<1>8. Elements(t) \subseteq Elements(s) \ {s[k + 1]}
  BY <1>2, <1>5, <1>6 DEF Elements
<1>9. Elements(s) \ {s[k + 1]} \subseteq Elements(t)
  BY <1>2, <1>3 DEF Elements
<1> QED
  BY <1>7, <1>8, <1>9

LEMMA KeptParts ==
  ASSUME Typed
  PROVE  /\ Kept \in Seq(Nat)
         /\ Len(Kept) = Len(recorded) + Len(batch) + Len(queue)
         /\ \A i \in 1..Len(queue) : Kept[Len(recorded) + Len(batch) + i] = queue[i]
<1>1. /\ recorded \o batch \in Seq(Nat)
      /\ Len(recorded \o batch) = Len(recorded) + Len(batch)
  BY ConcatProperties DEF Typed, TypeOK
<1> QED
  BY <1>1, ConcatProperties, LengthsTyped DEF Kept, Typed, TypeOK

LEMMA RecordKeeps ==
  ASSUME Typed, Record(batch), queue' = queue
  PROVE  Kept' = Kept
<1>1. recorded \o batch \in Seq(Nat)
  BY ConcatProperties DEF Typed, TypeOK
<1> QED
  BY <1>1, ConcatEmptySeq DEF Kept, Record

LEMMA TakeKeeps ==
  ASSUME Typed, TakeSample
  PROVE  Kept' = Kept
<1> DEFINE taken == Append(batch, Head(queue))
<1>1. queue # <<>> /\ queue' = Tail(queue) /\ queue \in Seq(Nat) /\ batch \in Seq(Nat)
      /\ recorded \in Seq(Nat)
  BY DEF TakeSample, Typed, TypeOK
<1>2. taken \in Seq(Nat) /\ taken \o Tail(queue) = batch \o queue
  <2>1. /\ Head(queue) \in Nat /\ Tail(queue) \in Seq(Nat)
        /\ Len(Tail(queue)) = Len(queue) - 1
    BY <1>1, ReceiveTyped
  <2>2. taken \in Seq(Nat)
    BY <1>1, <2>1, AppendProperties
  <2>3. taken \o Tail(queue) \in Seq(Nat) /\ batch \o queue \in Seq(Nat)
    BY <1>1, <2>1, <2>2, ConcatProperties
  <2> QED
    BY <1>1, <2>1, <2>2, <2>3
<1>3. Record(taken) \/ (batch' = taken /\ recorded' = recorded)
  BY DEF TakeSample
<1> HIDE DEF taken
<1>4. Kept' = recorded \o taken \o Tail(queue)
  <2>1. recorded \o taken \in Seq(Nat)
    BY <1>1, <1>2, ConcatProperties
  <2> QED
    BY <1>1, <1>3, <2>1, ConcatEmptySeq DEF Kept, Record
<1>5. recorded \o taken \o Tail(queue) = recorded \o (taken \o Tail(queue))
  <2>1. recorded \in Seq(Nat) /\ taken \in Seq(Nat) /\ Tail(queue) \in Seq(Nat)
    BY <1>1, <1>2, ReceiveTyped
  <2> QED
    BY <2>1, ConcatAssociative
<1>6. recorded \o batch \o queue = recorded \o (batch \o queue)
  BY <1>1, ConcatAssociative
<1> QED
  BY <1>2, <1>4, <1>5, <1>6 DEF Kept

LEMMA PushOrdered ==
  ASSUME Typed, Ordered, NEW p \in Producers, Push(p)
  PROVE  Ordered'
<1>1. /\ queue' = Append(queue, pushed + 1) /\ pushed' = pushed + 1
      /\ UNCHANGED <<recorded, batch, evicted>>
  BY DEF Push, flush
<1>2. /\ queue \in Seq(Nat) /\ batch \in Seq(Nat) /\ recorded \in Seq(Nat) /\ pushed \in Nat
      /\ evicted \subseteq 1..pushed
  BY DEF Typed, TypeOK, Ordered, EvictedWerePushed
<1>3. Kept \in Seq(Nat) /\ Increasing(Kept) /\ Elements(Kept) = (1..pushed) \ evicted
  BY KeptParts DEF Ordered, SamplesInOrder, Increasing, Elements
<1>4. Kept' = Append(Kept, pushed + 1)
  <2>1. recorded \o batch \in Seq(Nat)
    BY <1>2, ConcatProperties
  <2> QED
    BY <1>1, <1>2, <2>1 DEF Kept
<1>5. \A y \in Elements(Kept) : y < pushed + 1
  BY <1>2, <1>3
<1>6. pushed + 1 \in Nat
  BY <1>2
<1>7. Increasing(Kept') /\ Elements(Kept') = Elements(Kept) \union {pushed + 1}
  BY <1>3, <1>4, <1>5, <1>6, AppendInOrder
<1>8. Elements(Kept') = (1..pushed') \ evicted'
  BY <1>1, <1>2, <1>3, <1>7
<1>9. \A n \in evicted', i \in DOMAIN queue' : n < queue'[i]
  <2>1. /\ Len(queue) \in Nat /\ DOMAIN queue' = 1..(Len(queue) + 1) /\ DOMAIN queue = 1..Len(queue)
        /\ queue'[Len(queue) + 1] = pushed + 1 /\ \A i \in 1..Len(queue) : queue'[i] = queue[i]
    BY <1>1, <1>2, AppendProperties, LenProperties
  <2> QED
    BY <1>1, <1>2, <2>1 DEF Ordered, SamplesInOrder
<1> QED
  BY <1>1, <1>2, <1>7, <1>8, <1>9 DEF Ordered, SamplesInOrder, EvictedWerePushed, Increasing, Elements

LEMMA EvictOrdered ==
  ASSUME Typed, Ordered, NEW p \in Producers, EvictOldest(p), queue # <<>>
  PROVE  Ordered'
<1> DEFINE k == Len(recorded) + Len(batch)
           n == Len(Kept)
<1>1. /\ queue' = Tail(queue) /\ evicted' = evicted \cup {Head(queue)}
      /\ UNCHANGED <<recorded, batch, pushed>>
  BY DEF EvictOldest, flush
<1>2. /\ queue \in Seq(Nat) /\ batch \in Seq(Nat) /\ recorded \in Seq(Nat) /\ pushed \in Nat
      /\ Len(queue) \in Nat \ {0} /\ k \in Nat /\ n = k + Len(queue) /\ Kept \in Seq(Nat)
      /\ DOMAIN Kept = 1..n /\ DOMAIN queue = 1..Len(queue)
  BY KeptParts, LengthsTyped, EmptySeq, LenProperties DEF Typed, TypeOK
<1>3. /\ Head(queue) = queue[1] /\ queue' \in Seq(Nat) /\ Len(queue') = Len(queue) - 1
      /\ DOMAIN queue' = 1..(Len(queue) - 1)
      /\ \A i \in 1..(Len(queue) - 1) : queue'[i] = queue[i + 1]
  BY <1>1, <1>2, HeadTailProperties, LenProperties
<1>4. /\ DOMAIN Kept' = 1..(n - 1)
      /\ \A i \in 1..(n - 1) : Kept'[i] = IF i <= k THEN Kept[i] ELSE Kept[i + 1]
      /\ Kept[k + 1] = Head(queue)
  <2> DEFINE front == recorded \o batch
  <2>1. front \in Seq(Nat) /\ Len(front) = k
    BY <1>2, ConcatProperties
  <2>2. Kept = front \o queue /\ Kept' = front \o queue'
    BY <1>1 DEF Kept
  <2> HIDE DEF front, k, n
  <2>3. \A i \in 1..n : Kept[i] = IF i <= k THEN front[i] ELSE queue[i - k]
    <3>1. \A i \in 1..(Len(front) + Len(queue)) :
            (front \o queue)[i] = IF i <= Len(front) THEN front[i] ELSE queue[i - Len(front)]
      BY <1>2, <2>1, ConcatProperties
    <3> QED
      BY <1>2, <2>1, <2>2, <3>1
  <2>4. /\ Kept' \in Seq(Nat) /\ Len(Kept') = n - 1
        /\ \A i \in 1..(n - 1) : Kept'[i] = IF i <= k THEN front[i] ELSE queue'[i - k]
    <3>1. /\ front \o queue' \in Seq(Nat) /\ Len(front \o queue') = Len(front) + Len(queue')
          /\ \A i \in 1..(Len(front) + Len(queue')) :
               (front \o queue')[i]
                 = IF i <= Len(front) THEN front[i] ELSE queue'[i - Len(front)]
      BY <1>3, <2>1, ConcatProperties
    <3>2. Len(front) + Len(queue') = n - 1
      BY <1>2, <1>3, <2>1
    <3> QED
      BY <2>1, <2>2, <3>1, <3>2
  <2>5. DOMAIN Kept' = 1..(n - 1)
    BY <2>4, LenProperties, Zenon
  <2>6. Kept[k + 1] = Head(queue)
    <3>1. k + 1 \in 1..n /\ ~(k + 1 <= k) /\ (k + 1) - k = 1
      BY <1>2
    <3>2. Kept[k + 1] = queue[(k + 1) - k]
      BY <2>3, <3>1
    <3> QED
      BY <1>3, <3>1, <3>2
  <2>7. ASSUME NEW i \in 1..(n - 1)
        PROVE  Kept'[i] = IF i <= k THEN Kept[i] ELSE Kept[i + 1]
    <3>1. i \in 1..n /\ i + 1 \in 1..n
      BY <1>2
    <3>2. CASE i <= k
      BY <2>3, <2>4, <3>1, <3>2
    <3>3. CASE ~(i <= k)
      <4>1. i - k \in 1..(Len(queue) - 1) /\ (i + 1) - k = (i - k) + 1 /\ ~(i + 1 <= k)
        BY <1>2, <3>3
      <4>2. Kept'[i] = queue'[i - k] /\ Kept[i + 1] = queue[(i + 1) - k]
        BY <2>3, <2>4, <3>1, <3>3, <4>1
      <4>3. queue'[i - k] = queue[(i - k) + 1]
        BY <1>3, <4>1
      <4> QED
        BY <3>3, <4>1, <4>2, <4>3
    <3> QED
      BY <3>2, <3>3
  <2> QED
    BY <2>5, <2>6, <2>7
<1>5. Increasing(Kept) /\ Elements(Kept) = (1..pushed) \ evicted
  BY DEF Ordered, SamplesInOrder, Increasing, Elements
<1>6. Increasing(Kept') /\ Elements(Kept') = Elements(Kept) \ {Head(queue)}
  <2> HIDE DEF k
  <2>1. k < Len(Kept) /\ k \in Nat /\ Kept \in Seq(Nat)
    BY <1>2
  <2>2. /\ DOMAIN Kept' = 1..(Len(Kept) - 1)
        /\ \A i \in 1..(Len(Kept) - 1) : Kept'[i] = IF i <= k THEN Kept[i] ELSE Kept[i + 1]
    BY <1>4
  <2>3. Increasing(Kept') /\ Elements(Kept') = Elements(Kept) \ {Kept[k + 1]}
    BY <1>5, <2>1, <2>2, RemoveInOrder
  <2> QED
    BY <1>4, <2>3
<1>7. Elements(Kept') = (1..pushed') \ evicted'
  BY <1>1, <1>5, <1>6
<1>8. \A i \in 1..Len(queue) : queue[i] \in Nat /\ k + i \in DOMAIN Kept /\ Kept[k + i] = queue[i]
  BY <1>2, KeptParts, ElementOfSeq
<1> HIDE DEF k, n
<1>9. \A i \in DOMAIN queue' : Head(queue) < queue'[i]
  <2> SUFFICES ASSUME NEW i \in 1..(Len(queue) - 1) PROVE Head(queue) < queue[i + 1]
    BY <1>3
  <2>1. i + 1 \in 1..Len(queue) /\ 1 \in 1..Len(queue) /\ k + 1 < k + (i + 1)
    BY <1>2
  <2> QED
    BY <1>3, <1>5, <1>8, <2>1 DEF Increasing
<1>10. \A m \in evicted, i \in DOMAIN queue' : m < queue'[i]
  <2> SUFFICES ASSUME NEW m \in evicted, NEW i \in 1..(Len(queue) - 1) PROVE m < queue[i + 1]
    BY <1>3
  <2>1. i + 1 \in DOMAIN queue
    BY <1>2
  <2> QED
    BY <2>1 DEF Ordered, SamplesInOrder
<1>11. Head(queue) \in 1..pushed
  <2>1. 1 \in 1..Len(queue)
    BY <1>2
  <2>2. Head(queue) \in Elements(Kept)
    BY <1>3, <1>8, <2>1 DEF Elements
  <2> QED
    BY <1>5, <2>2
<1> QED
  BY <1>1, <1>6, <1>7, <1>9, <1>10, <1>11 DEF Ordered, SamplesInOrder, EvictedWerePushed, Increasing, Elements

LEMMA OrderedStep ==
  ASSUME Typed, Ordered, [Next]_vars
  PROVE  Ordered'
<1>1. ASSUME Kept' = Kept, UNCHANGED <<pushed, evicted>>, queue' = queue
      PROVE  Ordered'
  BY <1>1 DEF Ordered, SamplesInOrder, EvictedWerePushed
<1>2. ASSUME NEW p \in Producers, Producer(p) PROVE Ordered'
  <2>1. CASE Push(p)
    BY <2>1, PushOrdered
  <2>2. CASE EvictOldest(p) /\ queue # <<>>
    BY <2>2, EvictOrdered
  <2>3. CASE AddMetricSamples(p) \/ FindFull(p) \/ (EvictOldest(p) /\ queue = <<>>) \/ Reject(p)
    <3>1. UNCHANGED <<queue, batch, recorded, pushed, evicted>>
      BY <2>3 DEF AddMetricSamples, FindFull, EvictOldest, Reject, flush, history
    <3> QED
      BY <1>1, <3>1 DEF Kept
  <2> QED
    BY <1>2, <2>1, <2>2, <2>3 DEF Producer
<1>3. CASE TakeSample
  <2>1. /\ Kept' = Kept /\ UNCHANGED <<pushed, evicted>>
        /\ queue # <<>> /\ queue' = Tail(queue) /\ queue \in Seq(Nat)
    BY <1>3, TakeKeeps DEF TakeSample, history, Typed, TypeOK
  <2>2. \A i \in DOMAIN queue' : i + 1 \in DOMAIN queue /\ queue'[i] = queue[i + 1]
    BY <2>1, HeadTailProperties, LenProperties
  <2> QED
    BY <2>1, <2>2 DEF Ordered, SamplesInOrder, EvictedWerePushed
<1>4. CASE FlushOnTick \/ FinishLoop
  <2>1. Record(batch) /\ UNCHANGED <<queue, pushed, evicted>>
    BY <1>4 DEF FlushOnTick, FinishLoop, history
  <2> QED
    BY <1>1, <2>1, RecordKeeps
<1>5. CASE SeeDone \/ Starter \/ Collect \/ StopCancel \/ InStop \/ UNCHANGED vars
  <2>1. UNCHANGED <<queue, batch, recorded, pushed, evicted>>
    BY <1>5 DEF SeeDone, vars, Starter, GetPipeline, Launch, Collect, StopCancel, InStop,
       StopWait, StopForceFlush, StopPipeline, flush, history
  <2> QED
    BY <1>1, <2>1 DEF Kept
<1> QED
  BY <1>2, <1>3, <1>4, <1>5 DEF Next, Flusher

\* Samples are recorded in the order of their pushes, none twice, whatever the
\* producers, the evictions and the batches do.
THEOREM SamplesInOrderCorrect == Spec => []SamplesInOrder
<1>1. Init => Ordered
  <2> SUFFICES ASSUME Init PROVE Ordered
    OBVIOUS
  <2>1. Kept = <<>> /\ queue = <<>> /\ pushed = 0 /\ evicted = {}
    BY DEF Init, Kept
  <2>2. DOMAIN Kept = {}
    BY <2>1
  <2> QED
    BY <2>1, <2>2 DEF Ordered, SamplesInOrder, EvictedWerePushed
<1>2. Ordered => SamplesInOrder
  BY DEF Ordered
<1> QED
  BY TypedAlways, OrderedStep, <1>1, <1>2, PTL DEF Spec

=============================================================================
