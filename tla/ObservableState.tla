-------------------------- MODULE ObservableState ---------------------------
(***************************************************************************)
(* synth.ObservableState: accumulators in a sync.Map, updated by           *)
(* compare-and-swap loops of the goroutines that finish operations, and    *)
(* read by the callback RegisterServiceMetrics gives to the meter          *)
(* provider.  Values are integers: rounding is not modelled.               *)
(***************************************************************************)
EXTENDS Integers, Sequences

CONSTANTS
  Callers,      \* goroutines that finish operations
  Keys,         \* accumulator keys
  NoKey,        \* the empty key: Load returns 0
  Amounts,      \* Amounts[k]: the deltas of the state updates of k
  Bindings,     \* the observable metrics, in the order of the callback
  MaxTotal      \* bound of the model: no Add that would lead beyond it is called

(* An observable metric: its source (NoKey for none), its baseline and its *)
(* when_fault ("none", or what its number does) with the verdict of        *)
(* deterministicServiceFaultActive, which depends on the topology alone.   *)
(* Validation admits minus for gauges only.                                *)
Binding ==
  {m \in [type : {"gauge", "counter"}, accumulator : Keys \union {NoKey},
          minus : Keys \union {NoKey}, baseline : Int,
          whenFault : {"none", "value", "delta"}, number : Int, active : BOOLEAN] :
     m.type = "counter" \/ m.accumulator = NoKey => m.minus = NoKey}

ASSUME KeysAssumption     == NoKey \notin Keys
ASSUME AmountsAssumption  == Amounts \in [Keys -> SUBSET Int]
ASSUME BindingsAssumption == Bindings \in Seq(Binding) /\ Bindings # <<>>
ASSUME BoundAssumption    == MaxTotal \in Nat

VARIABLES
  cells,    \* cells[k]: the bits of k's cell, for the keys that have one
  pc,       \* pc[c]: where c stands in Add
  key,      \* key[c], delta[c]: its arguments
  delta,
  old,      \* old[c]: oldBits of the current round
  at,       \* the binding the callback is at, ...
  reading,  \* ... between its loads of the accumulator and of minus
  acc,      \* what the first of them returned
  lag,      \* the true difference at that moment (history)
  since,    \* what has been added to minus since (history)
  sent,     \* the last value observed, until the callback goes on
  counted   \* counted[i]: what was last observed for counter i; before the first
            \* collection, what it would be without any Add (history)

locals == <<pc, key, delta, old>>
adds   == <<cells, locals>>
read   == <<at, reading, acc, lag, sent, counted>>
vars   == <<adds, read, since>>

(* Load: 0 for a key that has no cell yet.                                 *)
LoadOf(k) == IF k \in DOMAIN cells THEN cells[k] ELSE 0

(* observableMetricValue's last part: when_fault replaces v or adds to it. *)
Adjusted(m, v) ==
  IF m.whenFault = "none" \/ ~m.active THEN v
  ELSE IF m.whenFault = "value" THEN m.number ELSE v + m.number

TypeOK ==
  /\ DOMAIN cells \subseteq Keys /\ \A k \in DOMAIN cells : cells[k] \in Int
  /\ pc \in [Callers -> {"idle", "cell", "load", "swap"}]
  /\ key \in [Callers -> Keys \union {NoKey}]
  /\ delta \in [Callers -> Int]
  /\ old \in [Callers -> Int]
  /\ \A c \in Callers : pc[c] # "idle" => key[c] \in Keys /\ delta[c] \in Amounts[key[c]]
  /\ \A c \in Callers : pc[c] \in {"load", "swap"} => key[c] \in DOMAIN cells
  /\ at \in DOMAIN Bindings
  /\ reading \in BOOLEAN
  /\ {acc, lag, since, sent} \subseteq Int
  /\ counted \in [DOMAIN Bindings -> Int]

Init ==
  /\ cells = [k \in {} |-> 0]
  /\ pc = [c \in Callers |-> "idle"]
  /\ key = [c \in Callers |-> NoKey]
  /\ delta = [c \in Callers |-> 0]
  /\ old = [c \in Callers |-> 0]
  /\ at = 1 /\ reading = FALSE /\ acc = 0 /\ lag = 0 /\ since = 0 /\ sent = 0
  /\ counted = [i \in DOMAIN Bindings |-> Adjusted(Bindings[i], Bindings[i].baseline)]

-----------------------------------------------------------------------------
(* Add                                                                     *)

Add(c, k, d) ==
  /\ pc[c] = "idle"
  /\ LoadOf(k) + d \in -MaxTotal..MaxTotal
  /\ pc' = [pc EXCEPT ![c] = "cell"]
  /\ key' = [key EXCEPT ![c] = k]
  /\ delta' = [delta EXCEPT ![c] = d]
  /\ UNCHANGED <<cells, old, read, since>>

(* valueFor: sync.Map.LoadOrStore keeps the cell that is there.            *)
ValueFor(c) ==
  /\ pc[c] = "cell"
  /\ cells' = [k \in DOMAIN cells \union {key[c]} |-> LoadOf(k)]
  /\ pc' = [pc EXCEPT ![c] = "load"]
  /\ UNCHANGED <<key, delta, old, read, since>>

LoadBits(c) ==
  /\ pc[c] = "load"
  /\ old' = [old EXCEPT ![c] = cells[key[c]]]
  /\ pc' = [pc EXCEPT ![c] = "swap"]
  /\ UNCHANGED <<cells, key, delta, read, since>>

(* A swap that succeeds: Add returns.                                      *)
Swapped(c) ==
  /\ cells' = [cells EXCEPT ![key[c]] = old[c] + delta[c]]
  /\ since' = IF reading /\ Bindings[at].minus = key[c] THEN since + delta[c] ELSE since
  /\ pc' = [pc EXCEPT ![c] = "idle"]
  /\ key' = [key EXCEPT ![c] = NoKey]
  /\ delta' = [delta EXCEPT ![c] = 0]
  /\ old' = [old EXCEPT ![c] = 0]

(* Mutants: the result of the swap is not looked at; a failed swap is      *)
(* tried again with the old bits.                                          *)
CompareAndSwap_once(c) ==
  /\ pc[c] = "swap"
  /\ \/ cells[key[c]] = old[c] /\ Swapped(c)
     \/ /\ cells[key[c]] # old[c]
        /\ pc' = [pc EXCEPT ![c] = "idle"]
        /\ UNCHANGED <<cells, key, delta, old, since>>
  /\ UNCHANGED read

CompareAndSwap_stale(c) ==
  /\ pc[c] = "swap" /\ cells[key[c]] = old[c]
  /\ Swapped(c)
  /\ UNCHANGED read

CompareAndSwap(c) ==
  /\ pc[c] = "swap"
  /\ \/ cells[key[c]] = old[c] /\ Swapped(c)
     \/ /\ cells[key[c]] # old[c]
        /\ pc' = [pc EXCEPT ![c] = "load"]
        /\ UNCHANGED <<cells, key, delta, old, since>>
  /\ UNCHANGED read

-----------------------------------------------------------------------------
(* The callback: observableMetricValue for one binding after the other.    *)

ReadAccumulator ==
  /\ ~reading
  /\ reading' = TRUE
  /\ acc' = LoadOf(Bindings[at].accumulator)
  /\ lag' = LoadOf(Bindings[at].accumulator) - LoadOf(Bindings[at].minus)
  /\ since' = 0 /\ sent' = 0
  /\ UNCHANGED <<adds, at, counted>>

(* v is the binding's value before when_fault; the callback goes on.       *)
Report(v) ==
  /\ sent' = Adjusted(Bindings[at], v)
  /\ counted' = IF Bindings[at].type = "counter" THEN [counted EXCEPT ![at] = sent'] ELSE counted
  /\ at' = IF at = Len(Bindings) THEN 1 ELSE at + 1
  /\ reading' = FALSE /\ acc' = 0 /\ lag' = 0 /\ since' = 0

(* Mutant: the key to subtract is loaded first.                            *)
Observe_minus_first ==
  /\ reading
  /\ Report(Bindings[at].baseline + LoadOf(Bindings[at].accumulator) - (acc - lag))
  /\ UNCHANGED adds

Observe ==
  /\ reading
  /\ Report(Bindings[at].baseline + acc - LoadOf(Bindings[at].minus))
  /\ UNCHANGED adds

-----------------------------------------------------------------------------
InAdd(c) == ValueFor(c) \/ LoadBits(c) \/ CompareAndSwap(c)

Next ==
  \/ \E c \in Callers : InAdd(c)
  \/ \E c \in Callers, k \in Keys : \E d \in Amounts[k] : Add(c, k, d)
  \/ ReadAccumulator \/ Observe

Spec == Init /\ [][Next]_vars

FairSpec == Spec /\ \A c \in Callers : WF_vars(InAdd(c))

-----------------------------------------------------------------------------
(* Every Add takes effect exactly once, at one moment between its call and *)
(* its return, however the compare-and-swap loops and the first use of a   *)
(* key interleave (observable.go Add, valueFor).                           *)
Atomic == INSTANCE AtomicAdds WITH
  total   <- [k \in Keys |-> LoadOf(k)],
  pending <- [c \in Callers |-> IF pc[c] = "idle" THEN {} ELSE {<<key[c], delta[c]>>}]

AddsAreAtomic == Atomic!Spec

(* The deltas of a key never lower it.                                     *)
Rises(k) == k \in Keys => \A d \in Amounts[k] : d >= 0

(* The callback loads the two accumulators of a gauge at different times,  *)
(* the one to subtract last.  What it reports is the true difference of    *)
(* the moment it began, less what was added to the second in between, with *)
(* the baseline and the fault's adjustment: so where nothing lowers that   *)
(* one, a lag can be understated, even negative, and is never overstated   *)
(* (observable.go observableMetricValue).                                  *)
ReportsExplained ==
  [][ reading /\ ~reading' =>
        LET m == Bindings[at]
        IN  /\ sent' = Adjusted(m, m.baseline + lag - since)
            /\ Rises(m.minus) => sent' <= Adjusted(m, m.baseline + lag) ]_vars

(* An observable counter whose key is never lowered does not go down from  *)
(* one collection to the next (observable.go observableMetricValue).       *)
(* Validation admits negative deltas, with which it can.                   *)
CounterGrows ==
  [][ \A i \in DOMAIN Bindings :
        Bindings[i].type = "counter" /\ Rises(Bindings[i].accumulator) =>
          counted'[i] >= counted[i] ]_vars

(* The loops are lock-free: while Adds are under way, some Add or other    *)
(* returns, however many more are called.  No single one is promised to: a *)
(* swap fails because another one has succeeded, and that can happen again *)
(* (observable.go Add).                                                    *)
SomeAddReturns == \E c \in Callers : pc[c] = "swap" /\ pc'[c] = "idle"

AddsMakeProgress == []<>(\A c \in Callers : pc[c] = "idle") \/ []<><<SomeAddReturns>>_vars

=============================================================================
