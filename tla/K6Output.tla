------------------------------ MODULE K6Output ------------------------------
(***************************************************************************)
(* The k6 output of the extension (k6output/output.go): a bounded channel  *)
(* of samples between k6's AddMetricSamples calls and one flush goroutine, *)
(* which records batches of samples into the runner's metric instruments.  *)
(*                                                                         *)
(* A sample is the number of its push.  The instruments and the exporter   *)
(* behind them are seen as far as "which recorded samples has a collection *)
(* carried out of the process".                                            *)
(***************************************************************************)
EXTENDS Integers, Sequences

CONSTANTS
  Producers,   \* goroutines that call AddMetricSamples
  QueueSize,   \* Params.QueueSize, the capacity of the channel
  BatchMax,    \* maxFlushBatchSize
  MaxCall,     \* largest number of samples in one AddMetricSamples call
  MaxSamples   \* bound of the model: samples offered to the output in all

ASSUME OutputAssumption ==
  /\ QueueSize \in Nat \ {0}
  /\ BatchMax \in Nat \ {0}
  /\ MaxCall \in Nat \ {0}
  /\ MaxSamples \in Nat

VARIABLES
  starting,   \* progress of Start
  stopping,   \* progress of Stop
  canceled,   \* Output.ctx is done
  queue,      \* Output.queue
  drops,      \* Output.drops
  caller,     \* where each AddMetricSamples call stands
  left,       \* samples the call still has to push
  flusher,    \* where flushLoop stands
  batch,      \* flushLoop's batch
  recorded,   \* samples recorded into the instruments, in order
  exported,   \* how many of them the last successful collection covered
  open,       \* the shared pipeline has not been shut down
  \* what the properties speak of
  offered,    \* samples handed to an AddMetricSamples call that took them
  pushed,     \* how many were put into the queue
  evicted,    \* pushed samples thrown out to make room
  rejected,   \* samples that found no room
  timedOut,   \* Stop gave up waiting for flushLoop
  flushError, \* the final ForceFlush failed
  overlapped, \* two AddMetricSamples calls have been under way at once
  orderly     \* Stop, if called, came when Start was done and no
              \* AddMetricSamples under way, as k6 calls it

producer == <<caller, left>>
flush == <<flusher, batch, recorded>>
history == <<offered, pushed, evicted, rejected, timedOut, flushError, overlapped, orderly>>
vars == <<starting, stopping, canceled, queue, drops, caller, left, flusher,
          batch, recorded, exported, open, offered, pushed, evicted, rejected,
          timedOut, flushError, overlapped, orderly>>

Init ==
  /\ starting = "new"
  /\ stopping = "no"
  /\ canceled = FALSE
  /\ queue = <<>>
  /\ drops = 0
  /\ caller = [p \in Producers |-> "idle"]
  /\ left = [p \in Producers |-> 0]
  /\ flusher = "none"
  /\ batch = <<>>
  /\ recorded = <<>>
  /\ exported = 0
  /\ open = TRUE
  /\ offered = 0
  /\ pushed = 0
  /\ evicted = {}
  /\ rejected = 0
  /\ timedOut = FALSE
  /\ flushError = FALSE
  /\ overlapped = FALSE
  /\ orderly = TRUE

Quiet == \A p \in Producers : caller[p] = "idle"
HasProvider == starting \in {"provider", "running", "no_instruments"}

-----------------------------------------------------------------------------
(***************************************************************************)
(* Start.                                                                  *)
(***************************************************************************)
\* exporter.GetShared gives the pipeline, and the runner's provider is made,
\* or Start fails.
GetPipeline ==
  /\ starting = "new"
  /\ starting' \in {"provider", "no_pipeline"}
  /\ UNCHANGED <<stopping, canceled, queue, drops, producer, flush, exported,
                 open, history>>

\* buildKnownInstruments fails, or the queue is made and flushLoop started.
Launch ==
  /\ starting = "provider"
  /\ \/ /\ starting' = "running"
        /\ flusher' = "select"
     \/ /\ starting' = "no_instruments"
        /\ flusher' = flusher
  /\ UNCHANGED <<stopping, canceled, queue, drops, producer, batch, recorded,
                 exported, open, history>>

-----------------------------------------------------------------------------
(***************************************************************************)
(* AddMetricSamples and tryPush.                                           *)
(***************************************************************************)
\* The call is a no-op before Start and once the context is done; afterwards the
\* context is not looked at again.
AddMetricSamples(p) ==
  /\ caller[p] = "idle"
  /\ starting = "running" /\ ~canceled
  /\ \E n \in 1..MaxCall :
       /\ offered + n <= MaxSamples
       /\ offered' = offered + n
       /\ left' = [left EXCEPT ![p] = n]
  /\ caller' = [caller EXCEPT ![p] = "push"]
  /\ overlapped' = (overlapped \/ ~Quiet)
  /\ UNCHANGED <<starting, stopping, canceled, queue, drops, flush, exported,
                 open, pushed, evicted, rejected, timedOut, flushError, orderly>>

\* The sample is dealt with; the call goes on to its next one.
NextSample(p) ==
  /\ left' = [left EXCEPT ![p] = @ - 1]
  /\ caller' = [caller EXCEPT ![p] = IF left[p] = 1 THEN "idle" ELSE "push"]

HasRoom_off_by_one == Len(queue) <= QueueSize  \* mutant
HasRoom == Len(queue) < QueueSize

\* The first and the second send of tryPush.
Push(p) ==
  /\ caller[p] \in {"push", "push_again"}
  /\ HasRoom
  /\ queue' = Append(queue, pushed + 1)
  /\ pushed' = pushed + 1
  /\ NextSample(p)
  /\ UNCHANGED <<starting, stopping, canceled, drops, flush, exported, open,
                 offered, evicted, rejected, timedOut, flushError, overlapped, orderly>>

\* Mutant: the oldest sample is not thrown out before the second send.
FindFull_no_eviction(p) ==
  /\ caller[p] = "push"
  /\ ~HasRoom
  /\ caller' = [caller EXCEPT ![p] = "push_again"]
  /\ UNCHANGED <<starting, stopping, canceled, queue, drops, left, flush,
                 exported, open, history>>

FindFull(p) ==
  /\ caller[p] = "push"
  /\ ~HasRoom
  /\ caller' = [caller EXCEPT ![p] = "evict"]
  /\ UNCHANGED <<starting, stopping, canceled, queue, drops, left, flush,
                 exported, open, history>>

\* The oldest sample goes, unless flushLoop has emptied the queue meanwhile.
EvictOldest(p) ==
  /\ caller[p] = "evict"
  /\ caller' = [caller EXCEPT ![p] = "push_again"]
  /\ IF queue = <<>>
     THEN UNCHANGED <<queue, drops, evicted>>
     ELSE /\ queue' = Tail(queue)
          /\ drops' = drops + 1
          /\ evicted' = evicted \cup {Head(queue)}
  /\ UNCHANGED <<starting, stopping, canceled, left, flush, exported, open,
                 offered, pushed, rejected, timedOut, flushError, overlapped, orderly>>

\* Mutant: the sample turned away is not counted.
Reject_uncounted(p) ==
  /\ caller[p] = "push_again"
  /\ ~HasRoom
  /\ rejected' = rejected + 1
  /\ NextSample(p)
  /\ UNCHANGED <<starting, stopping, canceled, queue, drops, flush, exported, open,
                 offered, pushed, evicted, timedOut, flushError, overlapped, orderly>>

\* Another producer took the room that was made.
Reject(p) ==
  /\ caller[p] = "push_again"
  /\ ~HasRoom
  /\ drops' = drops + 1
  /\ rejected' = rejected + 1
  /\ NextSample(p)
  /\ UNCHANGED <<starting, stopping, canceled, queue, flush, exported, open,
                 offered, pushed, evicted, timedOut, flushError, overlapped, orderly>>

-----------------------------------------------------------------------------
(***************************************************************************)
(* flushLoop.  select picks any ready case.  A batch is recorded in one    *)
(* step: only flushLoop records, and collections see any prefix anyway.    *)
(***************************************************************************)
Record_backwards(samples) ==  \* mutant
  /\ recorded' = samples \o recorded
  /\ batch' = <<>>

Record(samples) ==
  /\ recorded' = recorded \o samples
  /\ batch' = <<>>

TakeSample ==
  /\ flusher \in {"select", "drain"}
  /\ queue # <<>>
  /\ queue' = Tail(queue)
  /\ LET taken == Append(batch, Head(queue))
     IN IF Len(taken) >= BatchMax
        THEN Record(taken)
        ELSE batch' = taken /\ recorded' = recorded
  /\ UNCHANGED <<starting, stopping, canceled, drops, producer, flusher,
                 exported, open, history>>

FlushOnTick ==
  /\ flusher = "select"
  /\ batch # <<>>
  /\ Record(batch)
  /\ UNCHANGED <<starting, stopping, canceled, queue, drops, producer, flusher,
                 exported, open, history>>

\* Mutant: the context is only looked at between samples.
SeeDone_with_sample ==
  /\ flusher = "select"
  /\ canceled /\ queue # <<>>
  /\ flusher' = "drain"
  /\ UNCHANGED <<starting, stopping, canceled, queue, drops, producer, batch,
                 recorded, exported, open, history>>

SeeDone ==
  /\ flusher = "select"
  /\ canceled
  /\ flusher' = "drain"
  /\ UNCHANGED <<starting, stopping, canceled, queue, drops, producer, batch,
                 recorded, exported, open, history>>

\* Mutant: the loop ends without draining.
FinishLoop_undrained ==
  /\ flusher = "drain"
  /\ Record(batch)
  /\ flusher' = "done"
  /\ UNCHANGED <<starting, stopping, canceled, queue, drops, producer, exported,
                 open, history>>

\* The queue is found empty: the last batch is recorded and flushDone closed.
FinishLoop ==
  /\ flusher = "drain"
  /\ queue = <<>>
  /\ Record(batch)
  /\ flusher' = "done"
  /\ UNCHANGED <<starting, stopping, canceled, queue, drops, producer, exported,
                 open, history>>

-----------------------------------------------------------------------------
(***************************************************************************)
(* The periodic reader of the runner's provider.  Stop never shuts it      *)
(* down; once the pipeline is closed its exports lead nowhere.             *)
(***************************************************************************)
Collect ==
  /\ HasProvider
  /\ open
  /\ exported' = Len(recorded)
  /\ UNCHANGED <<starting, stopping, canceled, queue, drops, producer, flush,
                 open, history>>

-----------------------------------------------------------------------------
(***************************************************************************)
(* Stop.  It looks at Output's fields as it finds them: before Start has   *)
(* set them there is nothing to cancel, wait for or flush.                 *)
(***************************************************************************)
StopCancel ==
  /\ stopping = "no"
  /\ canceled' = (starting = "running")
  /\ orderly' = (starting = "running" /\ Quiet)
  /\ stopping' = "canceled"
  /\ UNCHANGED <<starting, queue, drops, producer, flush, exported, open, offered,
                 pushed, evicted, rejected, timedOut, flushError, overlapped>>

\* <-flushDone, or the five seconds of flushStopTimeout have passed.
StopWait ==
  /\ stopping = "canceled"
  /\ stopping' = "waited"
  /\ timedOut' = (starting = "running" /\ flusher # "done")
  /\ UNCHANGED <<starting, canceled, queue, drops, producer, flush, exported,
                 open, offered, pushed, evicted, rejected, flushError, overlapped, orderly>>

StopForceFlush ==
  /\ stopping = "waited"
  /\ stopping' = "flushed"
  /\ \/ HasProvider /\ open /\ exported' = Len(recorded) /\ flushError' = FALSE
     \/ HasProvider /\ exported' = exported /\ flushError' = TRUE
     \/ ~HasProvider /\ UNCHANGED <<exported, flushError>>
  /\ UNCHANGED <<starting, canceled, queue, drops, producer, flush, open,
                 offered, pushed, evicted, rejected, timedOut, overlapped, orderly>>

StopPipeline ==
  /\ stopping = "flushed"
  /\ stopping' = "stopped"
  /\ open' = ~HasProvider
  /\ UNCHANGED <<starting, canceled, queue, drops, producer, flush, exported, history>>

-----------------------------------------------------------------------------
Starter == GetPipeline \/ Launch
Producer(p) ==
  AddMetricSamples(p) \/ Push(p) \/ FindFull(p) \/ EvictOldest(p) \/ Reject(p)
Flusher == TakeSample \/ FlushOnTick \/ SeeDone \/ FinishLoop
InStop == StopWait \/ StopForceFlush \/ StopPipeline

Next ==
  \/ Starter
  \/ \E p \in Producers : Producer(p)
  \/ Flusher
  \/ Collect
  \/ StopCancel \/ InStop

(***************************************************************************)
(* The goroutines inside a call go on, and the flush ticker keeps ticking; *)
(* select, choosing at random among its ready cases, does not neglect the  *)
(* done context forever.  Nobody has to call AddMetricSamples or Stop, and *)
(* the periodic reader owes nothing.                                       *)
(***************************************************************************)
Fairness ==
  /\ WF_vars(Starter)
  /\ \A p \in Producers : WF_vars(Push(p) \/ FindFull(p) \/ EvictOldest(p) \/ Reject(p))
  /\ WF_vars(TakeSample) /\ WF_vars(FlushOnTick) /\ WF_vars(FinishLoop)
  /\ SF_vars(SeeDone)
  /\ WF_vars(InStop)

Spec == Init /\ [][Next]_vars /\ Fairness

-----------------------------------------------------------------------------
(***************************************************************************)
(* Properties.                                                             *)
(***************************************************************************)
TypeOK ==
  /\ starting \in {"new", "no_pipeline", "provider", "no_instruments", "running"}
  /\ stopping \in {"no", "canceled", "waited", "flushed", "stopped"}
  /\ canceled \in BOOLEAN
  /\ queue \in Seq(Nat) /\ Len(queue) <= QueueSize
  /\ drops \in Nat
  /\ caller \in [Producers -> {"idle", "push", "evict", "push_again"}]
  /\ left \in [Producers -> Nat]
  /\ flusher \in {"none", "select", "drain", "done"}
  /\ batch \in Seq(Nat) /\ Len(batch) < BatchMax
  /\ recorded \in Seq(Nat)
  /\ exported \in Nat
  /\ open \in BOOLEAN
  /\ offered \in Nat
  /\ pushed \in Nat
  /\ evicted \subseteq Nat
  /\ rejected \in Nat
  /\ timedOut \in BOOLEAN
  /\ flushError \in BOOLEAN
  /\ overlapped \in BOOLEAN
  /\ orderly \in BOOLEAN

\* Every sample that went through tryPush is recorded, on its way in the batch or
\* the queue, or counted in queue_drops: eviction, rejection, batching and the
\* final drain lose none silently and count none twice.
DropsAccounted ==
  pushed + rejected = Len(recorded) + Len(batch) + Len(queue) + drops

Kept == recorded \o batch \o queue

\* Every sample pushed and not evicted is recorded or on its way, once and in the
\* order of the pushes, and an evicted sample was the oldest one waiting: none behind
\* it was thrown out before it.
SamplesInOrder ==
  /\ \A i, j \in DOMAIN Kept : i < j => Kept[i] < Kept[j]
  /\ {Kept[i] : i \in DOMAIN Kept} = (1..pushed) \ evicted
  /\ \A n \in evicted, i \in DOMAIN queue : n < queue[i]

\* As long as the calls of AddMetricSamples follow one another, as in k6, tryPush
\* never turns the new sample away: the room it makes is still there.
LoneProducerNeverRejected == ~overlapped => rejected = 0

\* A Stop that comes after the last AddMetricSamples and does not give up on
\* flushLoop leaves no sample in the queue or in the batch.
StopDrains ==
  orderly /\ stopping = "stopped" /\ ~timedOut => queue = <<>> /\ batch = <<>>

\* ... and, unless its final flush failed, has carried out of the process every
\* sample that queue_drops does not count.
StopDelivers ==
  orderly /\ stopping = "stopped" /\ ~timedOut /\ ~flushError =>
    pushed + rejected = exported + drops

\* A pushed sample does not stay in the process unless a Stop overtook its call: it
\* is recorded or evicted, also when no later sample fills the batch.
PushedIsServed ==
  \A i \in 1..MaxSamples :
    i <= pushed ~> \/ i \in evicted \/ \E k \in DOMAIN recorded : recorded[k] = i
                   \/ ~orderly

\* What output.go says of Stop: it "drains queued samples".  Here it is asked of every
\* Stop that found a running output and stopped it, whoever is still inside
\* AddMetricSamples.
StopAlwaysDrains ==
  canceled /\ stopping = "stopped" /\ ~timedOut => queue = <<>> /\ batch = <<>>

\* After Stop the flush goroutine ends: it drains and closes flushDone even while
\* samples keep coming.
FlusherEnds == canceled ~> flusher = "done"

\* What Stop promises k6, whose calls do not overlap it: it drains and delivers.
StopServes == StopDrains /\ StopDelivers

\* The flush goroutine does its work: it serves what is pushed, and ends after Stop.
FlusherServes == PushedIsServed /\ FlusherEnds

=============================================================================
