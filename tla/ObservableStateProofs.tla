------------------------ MODULE ObservableStateProofs -----------------------
(***************************************************************************)
(* For every number of goroutines, keys, deltas and observable metrics:    *)
(* the compare-and-swap loops of synth.ObservableState implement atomic    *)
(* adds, what the callback reports is explained by the accumulators, and   *)
(* a counter grows where no delta of its key is negative.                  *)
(***************************************************************************)
EXTENDS ObservableState, TLAPS

LEMMA LoadInt ==
  ASSUME TypeOK, NEW k
  PROVE  LoadOf(k) \in Int
  BY DEF TypeOK, LoadOf

LEMMA BindingFields ==
  ASSUME NEW i \in DOMAIN Bindings
  PROVE  /\ Bindings[i].accumulator \in Keys \union {NoKey}
         /\ Bindings[i].minus \in Keys \union {NoKey}
         /\ Bindings[i].baseline \in Int
         /\ Bindings[i].type = "counter" => Bindings[i].minus = NoKey
         /\ Bindings[i].whenFault \in {"none", "value", "delta"}
         /\ Bindings[i].number \in Int
         /\ Bindings[i].active \in BOOLEAN
<1>1. Bindings[i] \in Binding
  BY BindingsAssumption
<1> QED
  BY <1>1 DEF Binding

LEMMA AdjustedInt ==
  ASSUME NEW i \in DOMAIN Bindings, NEW v \in Int
  PROVE  Adjusted(Bindings[i], v) \in Int
  BY BindingFields DEF Adjusted

\* when_fault keeps the order of the values it adjusts.
LEMMA AdjustedKeepsOrder ==
  ASSUME NEW i \in DOMAIN Bindings, NEW v \in Int, NEW w \in Int, v <= w
  PROVE  Adjusted(Bindings[i], v) <= Adjusted(Bindings[i], w)
  BY BindingFields DEF Adjusted

\* The callback goes from the last binding to the first.
LEMMA NextBinding ==
  ASSUME TypeOK
  PROVE  /\ 1 \in DOMAIN Bindings
         /\ (IF at = Len(Bindings) THEN 1 ELSE at + 1) \in DOMAIN Bindings
  BY BindingsAssumption DEF TypeOK

-----------------------------------------------------------------------------
(***************************************************************************)
(* Types.                                                                  *)
(***************************************************************************)
LEMMA TypeInit == Init => TypeOK
<1> SUFFICES ASSUME Init PROVE TypeOK
  OBVIOUS
<1>1. DOMAIN cells = {}
  BY DEF Init
<1>2. 1 \in DOMAIN Bindings
  BY BindingsAssumption
<1>3. counted \in [DOMAIN Bindings -> Int]
  BY AdjustedInt, BindingFields DEF Init
<1>4. /\ pc = [c \in Callers |-> "idle"] /\ key \in [Callers -> Keys \union {NoKey}]
      /\ delta \in [Callers -> Int] /\ old \in [Callers -> Int]
  BY DEF Init
<1>5. pc \in [Callers -> {"idle", "cell", "load", "swap"}] /\ \A c \in Callers : pc[c] = "idle"
  BY <1>4
<1>6. at = 1 /\ reading \in BOOLEAN
  BY Zenon DEF Init
<1>7. \A c \in Callers : /\ pc[c] # "idle" => key[c] \in Keys /\ delta[c] \in Amounts[key[c]]
                         /\ pc[c] \in {"load", "swap"} => key[c] \in DOMAIN cells
  BY <1>5
<1>8. {acc, lag, since, sent} \subseteq Int
  <2>1. acc = 0 /\ lag = 0 /\ since = 0 /\ sent = 0
    BY Zenon DEF Init
  <2> QED
    BY <2>1
<1> QED
  BY <1>1, <1>2, <1>3, <1>4, <1>5, <1>6, <1>7, <1>8, Zenon DEF TypeOK

\* The locals of Add, and with them the cells.
LEMMA SwappedTyped ==
  ASSUME TypeOK, NEW c \in Callers, pc[c] = "swap", Swapped(c), UNCHANGED read
  PROVE  TypeOK'
<1> USE DEF TypeOK, read
<1>1. key[c] \in Keys /\ key[c] \in DOMAIN cells /\ old[c] + delta[c] \in Int
  BY AmountsAssumption
<1>2. DOMAIN cells' = DOMAIN cells /\ \A k \in DOMAIN cells : cells'[k] \in Int
  BY <1>1 DEF Swapped
<1>3. since' \in Int
  BY DEF Swapped
<1> QED
  BY <1>2, <1>3 DEF Swapped

LEMMA AddTyped ==
  ASSUME TypeOK, NEW c \in Callers, InAdd(c)
  PROVE  TypeOK'
<1> USE DEF TypeOK, read
<1>1. CASE ValueFor(c)
  BY <1>1, LoadInt DEF ValueFor
<1>2. CASE LoadBits(c)
  BY <1>2 DEF LoadBits
<1>3. CASE CompareAndSwap(c) /\ Swapped(c)
  BY <1>3, SwappedTyped DEF CompareAndSwap
<1>4. CASE pc' = [pc EXCEPT ![c] = "load"] /\ pc[c] = "swap" /\ UNCHANGED <<cells, key, delta, old, since, read>>
  BY <1>4
<1> QED
  BY <1>1, <1>2, <1>3, <1>4 DEF InAdd, CompareAndSwap

LEMMA ReportTyped ==
  ASSUME TypeOK, NEW v \in Int, Report(v), UNCHANGED adds
  PROVE  TypeOK'
<1>1. sent' \in Int
  BY AdjustedInt DEF Report, TypeOK
<1>2. counted' \in [DOMAIN Bindings -> Int]
  BY <1>1 DEF Report, TypeOK
<1>3. at' \in DOMAIN Bindings
  BY NextBinding DEF Report
<1>4. reading' \in BOOLEAN
  BY Zenon DEF Report
<1>6. {acc', lag', since', sent'} \subseteq Int
  <2>1. acc' = 0 /\ lag' = 0 /\ since' = 0
    BY Zenon DEF Report
  <2> QED
    BY <1>1, <2>1
<1>5. UNCHANGED <<cells, pc, key, delta, old>>
  BY DEF adds, locals
<1> QED
  BY <1>2, <1>3, <1>4, <1>5, <1>6, Zenon DEF TypeOK

LEMMA TypeStep == TypeOK /\ [Next]_vars => TypeOK'
<1> SUFFICES ASSUME TypeOK, [Next]_vars PROVE TypeOK'
  OBVIOUS
<1>1. ASSUME NEW c \in Callers, NEW k \in Keys, NEW d \in Amounts[k], Add(c, k, d)
      PROVE  TypeOK'
  <2>1. d \in Int
    BY AmountsAssumption
  <2> QED
    BY <1>1, <2>1 DEF Add, read, TypeOK
<1>2. CASE ReadAccumulator
  BY <1>2, LoadInt DEF ReadAccumulator, adds, locals, TypeOK
<1>3. CASE Observe
  <2>1. Bindings[at].baseline + acc - LoadOf(Bindings[at].minus) \in Int
    BY LoadInt, BindingFields DEF TypeOK
  <2> QED
    BY <1>3, <2>1, ReportTyped DEF Observe
<1>4. CASE UNCHANGED vars
  BY <1>4 DEF vars, adds, locals, read, TypeOK
<1> QED
  BY <1>1, <1>2, <1>3, <1>4, AddTyped DEF Next

\* Every variable keeps its type: accumulators stay numbers whatever the deltas, and a
\* goroutine inside Add has a cell to work on (ObservableState, observableMetricBinding).
THEOREM TypeCorrect == Spec => []TypeOK
  BY TypeInit, TypeStep, PTL DEF Spec

-----------------------------------------------------------------------------
(***************************************************************************)
(* Each step of the loops is an atomic add, its call, or invisible.        *)
(***************************************************************************)
LEMMA RefineInit == Init => Atomic!Init
  BY DEF Init, LoadOf, Atomic!Init

LEMMA RefineStep == TypeOK /\ [Next]_vars => [Atomic!Next]_(Atomic!vars)
<1> SUFFICES ASSUME TypeOK, [Next]_vars PROVE [Atomic!Next]_(Atomic!vars)
  OBVIOUS
<1> DEFINE total == [k \in Keys |-> LoadOf(k)]
           pending == [c \in Callers |-> IF pc[c] = "idle" THEN {} ELSE {<<key[c], delta[c]>>}]
<1>0. total' = total /\ pending' = pending => UNCHANGED Atomic!vars
  BY DEF Atomic!vars
<1>1. ASSUME NEW c \in Callers, NEW k \in Keys, NEW d \in Amounts[k], Add(c, k, d)
      PROVE  Atomic!Call(c, k, d)
  <2>1. pending[c] = {} /\ total' = total
    BY <1>1 DEF Add, LoadOf
  <2>2. pending' = [pending EXCEPT ![c] = {<<k, d>>}]
    BY <1>1 DEF Add, TypeOK
  <2> QED
    BY <2>1, <2>2 DEF Atomic!Call
<1>2. ASSUME NEW c \in Callers, ValueFor(c) PROVE total' = total /\ pending' = pending
  <2>1. \A k \in Keys : LoadOf(k)' = LoadOf(k)
    BY <1>2 DEF ValueFor, LoadOf
  <2>2. \A b \in Callers : (pc'[b] = "idle") <=> (pc[b] = "idle")
    BY <1>2 DEF ValueFor, TypeOK
  <2> QED
    BY <1>2, <2>1, <2>2 DEF ValueFor
<1>3. ASSUME NEW c \in Callers, LoadBits(c) PROVE total' = total /\ pending' = pending
  BY <1>3 DEF LoadBits, TypeOK, LoadOf
<1>4. ASSUME NEW c \in Callers, CompareAndSwap(c), cells[key[c]] = old[c], Swapped(c)
      PROVE  Atomic!Next
  <2>1. pending[c] = {<<key[c], delta[c]>>}
    BY <1>4 DEF CompareAndSwap
  <2>2. key[c] \in Keys /\ key[c] \in DOMAIN cells /\ delta[c] \in Amounts[key[c]]
    BY <1>4 DEF CompareAndSwap, TypeOK
  <2>3. total' = [total EXCEPT ![key[c]] = @ + delta[c]]
    <3>1. \A k \in Keys : LoadOf(k)' = IF k = key[c] THEN LoadOf(k) + delta[c] ELSE LoadOf(k)
      BY <1>4, <2>2 DEF LoadOf, Swapped
    <3> QED
      BY <3>1, <2>2
  <2>4. pending' = [pending EXCEPT ![c] = {}]
    BY <1>4 DEF Swapped, TypeOK
  <2>5. Atomic!TakeEffect(c, key[c], delta[c])
    BY <2>1, <2>3, <2>4 DEF Atomic!TakeEffect
  <2> QED
    BY <2>2, <2>5 DEF Atomic!Next, Atomic!TakeEffect
<1>5. ASSUME NEW c \in Callers, pc[c] = "swap", pc' = [pc EXCEPT ![c] = "load"],
             UNCHANGED <<cells, key, delta>>
      PROVE  total' = total /\ pending' = pending
  BY <1>5 DEF TypeOK, LoadOf
<1>6. ASSUME UNCHANGED adds PROVE total' = total /\ pending' = pending
  BY <1>6 DEF adds, locals, LoadOf
<1>7. CASE \E c \in Callers : InAdd(c)
  <2> PICK c \in Callers : InAdd(c)
    BY <1>7
  <2> QED
    BY <1>0, <1>2, <1>3, <1>4, <1>5 DEF InAdd, CompareAndSwap
<1>8. CASE \E c \in Callers, k \in Keys : \E d \in Amounts[k] : Add(c, k, d)
  BY <1>1, <1>8 DEF Atomic!Next
<1>9. CASE ReadAccumulator \/ Observe \/ UNCHANGED vars
  BY <1>0, <1>6, <1>9 DEF ReadAccumulator, Observe, vars
<1> QED
  BY <1>7, <1>8, <1>9 DEF Next

\* ObservableState's Add is atomic: the detailed specification implements AtomicAdds
\* (observable.go Add, valueFor, Load).
THEOREM Refinement == Spec => AddsAreAtomic
<1>1. Init => Atomic!Init
  BY RefineInit
<1>2. TypeOK /\ [Next]_vars => [Atomic!Next]_(Atomic!vars)
  BY RefineStep
<1> QED
  BY <1>1, <1>2, TypeCorrect, PTL DEF Spec, AddsAreAtomic, Atomic!Spec

-----------------------------------------------------------------------------
(***************************************************************************)
(* What an Add does to the accumulators.                                   *)
(***************************************************************************)
LEMMA NoKeyIsZero ==
  ASSUME TypeOK
  PROVE  LoadOf(NoKey) = 0
  BY KeysAssumption DEF TypeOK, LoadOf

\* A step leaves an accumulator as it is or adds one of its deltas.
LEMMA CellStep ==
  ASSUME TypeOK, [Next]_vars, NEW k \in Keys \union {NoKey}
  PROVE  \/ LoadOf(k)' = LoadOf(k)
         \/ \E d \in Amounts[k] : k \in Keys /\ LoadOf(k)' = LoadOf(k) + d
<1>1. ASSUME NEW c \in Callers, InAdd(c)
      PROVE  \/ LoadOf(k)' = LoadOf(k)
             \/ \E d \in Amounts[k] : k \in Keys /\ LoadOf(k)' = LoadOf(k) + d
  <2>1. CASE ValueFor(c)
    BY <2>1 DEF ValueFor, LoadOf
  <2>2. CASE UNCHANGED cells
    BY <2>2 DEF LoadOf
  <2>3. CASE CompareAndSwap(c) /\ cells[key[c]] = old[c] /\ Swapped(c)
    <3>1. key[c] \in Keys /\ key[c] \in DOMAIN cells /\ delta[c] \in Amounts[key[c]]
      BY <2>3 DEF CompareAndSwap, TypeOK
    <3>2. CASE k # key[c]
      BY <2>3, <3>2 DEF LoadOf, Swapped
    <3>3. CASE k = key[c]
      BY <2>3, <3>1, <3>3 DEF LoadOf, Swapped
    <3> QED
      BY <3>2, <3>3
  <2> QED
    BY <1>1, <2>1, <2>2, <2>3 DEF InAdd, LoadBits, CompareAndSwap
<1>2. CASE UNCHANGED cells
  BY <1>2 DEF LoadOf
<1> QED
  BY <1>1, <1>2 DEF Next, Add, ReadAccumulator, Observe, vars, adds

\* Where no delta of a key is negative, its accumulator never goes down.
LEMMA RisesUp ==
  ASSUME TypeOK, [Next]_vars, NEW k \in Keys \union {NoKey}, Rises(k)
  PROVE  LoadOf(k) <= LoadOf(k)'
<1>1. LoadOf(k) \in Int
  BY LoadInt
<1>2. ASSUME NEW d \in Amounts[k], k \in Keys PROVE d \in Int /\ d >= 0
  BY <1>2, AmountsAssumption DEF Rises
<1> QED
  BY <1>1, <1>2, CellStep

\* While the callback is between its two loads, what an Add does to minus is noted.
LEMMA SinceStep ==
  ASSUME TypeOK, NEW c \in Callers, InAdd(c), reading
  PROVE  /\ LoadOf(Bindings[at].minus)' - LoadOf(Bindings[at].minus) = since' - since
         /\ Rises(Bindings[at].minus) => since <= since'
<1> DEFINE m == Bindings[at].minus
<1>0. m \in Keys \union {NoKey} /\ LoadOf(m) \in Int /\ since \in Int
  BY BindingFields, LoadInt DEF TypeOK
<1>1. CASE ValueFor(c)
  <2>1. LoadOf(m)' = LoadOf(m) /\ since' = since
    BY <1>1 DEF ValueFor, LoadOf, read
  <2> QED
    BY <1>0, <2>1
<1>2. CASE UNCHANGED <<cells, since, at>>
  <2>1. LoadOf(m)' = LoadOf(m) /\ since' = since
    BY <1>2 DEF LoadOf
  <2> QED
    BY <1>0, <2>1
<1>3. CASE CompareAndSwap(c) /\ cells[key[c]] = old[c] /\ Swapped(c)
  <2>1. /\ key[c] \in Keys /\ key[c] \in DOMAIN cells
        /\ delta[c] \in Amounts[key[c]] /\ delta[c] \in Int /\ at' = at
    BY <1>3, AmountsAssumption DEF CompareAndSwap, TypeOK, read
  <2>2. CASE m # key[c]
    <3>1. LoadOf(m)' = LoadOf(m) /\ since' = since
      BY <1>3, <2>1, <2>2 DEF LoadOf, Swapped
    <3> QED
      BY <1>0, <3>1
  <2>3. CASE m = key[c]
    <3>1. LoadOf(m)' = LoadOf(m) + delta[c] /\ since' = since + delta[c]
      BY <1>3, <2>1, <2>3 DEF LoadOf, Swapped
    <3>2. Rises(m) => delta[c] >= 0
      BY <2>1, <2>3 DEF Rises
    <3> QED
      BY <1>0, <2>1, <3>1, <3>2
  <2> QED
    BY <2>2, <2>3
<1> QED
  BY <1>1, <1>2, <1>3 DEF InAdd, LoadBits, CompareAndSwap, read

-----------------------------------------------------------------------------
(***************************************************************************)
(* What the callback has loaded, against the accumulators as they are.     *)
(***************************************************************************)
LoadsExplained ==
  reading => /\ acc - LoadOf(Bindings[at].minus) = lag - since
             /\ Rises(Bindings[at].minus) => since >= 0

LEMMA ExplainedStep ==
  ASSUME TypeOK, LoadsExplained, [Next]_vars
  PROVE  LoadsExplained'
<1>0. TypeOK'
  BY TypeStep
<1>1. ASSUME NEW c \in Callers, InAdd(c), reading PROVE LoadsExplained'
  <2> DEFINE m == Bindings[at].minus
  <2>1. UNCHANGED <<at, reading, acc, lag>>
    BY <1>1 DEF InAdd, ValueFor, LoadBits, CompareAndSwap, read
  <2>2. /\ LoadOf(m) \in Int /\ LoadOf(m)' \in Int
        /\ since \in Int /\ since' \in Int /\ acc \in Int /\ lag \in Int
    BY <1>0, <2>1, LoadInt DEF TypeOK, LoadOf
  <2>3. /\ LoadOf(m)' - LoadOf(m) = since' - since
        /\ Rises(m) => since <= since'
    BY <1>1, SinceStep
  <2> QED
    BY <1>1, <2>1, <2>2, <2>3 DEF LoadsExplained
<1>2. ASSUME ~reading, UNCHANGED reading PROVE LoadsExplained'
  BY <1>2 DEF LoadsExplained
<1>3. ASSUME UNCHANGED <<cells, at, reading, acc, lag, since>> PROVE LoadsExplained'
  BY <1>3 DEF LoadsExplained, LoadOf
<1>4. CASE ReadAccumulator
  <2>1. /\ at' = at /\ since' = 0
        /\ acc' = LoadOf(Bindings[at].accumulator)
        /\ lag' = LoadOf(Bindings[at].accumulator) - LoadOf(Bindings[at].minus)
        /\ LoadOf(Bindings[at].minus)' = LoadOf(Bindings[at].minus)
    BY <1>4 DEF ReadAccumulator, adds, LoadOf
  <2>2. LoadOf(Bindings[at].accumulator) \in Int /\ LoadOf(Bindings[at].minus) \in Int
    BY LoadInt
  <2> QED
    BY <2>1, <2>2 DEF LoadsExplained
<1>5. CASE Observe
  BY <1>5 DEF Observe, Report, LoadsExplained
<1>6. ASSUME NEW c \in Callers, InAdd(c), ~reading PROVE LoadsExplained'
  BY <1>2, <1>6 DEF InAdd, ValueFor, LoadBits, CompareAndSwap, read
<1> QED
  BY <1>1, <1>3, <1>4, <1>5, <1>6 DEF Next, Add, vars, adds, read

LEMMA ExplainedAlways == Spec => [](TypeOK /\ LoadsExplained)
<1>1. Init => LoadsExplained
  BY DEF Init, LoadsExplained
<1> QED
  BY <1>1, TypeInit, TypeStep, ExplainedStep, PTL DEF Spec

\* What the callback reports of a metric is the true difference of the moment it began,
\* less what was added to minus in between; a lag whose minus never goes down is not
\* overstated (observable.go observableMetricValue).
THEOREM ReportsExplainedCorrect == Spec => ReportsExplained
<1> DEFINE m == Bindings[at]
           Explained == /\ sent' = Adjusted(m, m.baseline + lag - since)
                        /\ Rises(m.minus) => sent' <= Adjusted(m, m.baseline + lag)
<1>1. ASSUME TypeOK, LoadsExplained, [Next]_vars, reading, ~reading' PROVE Explained
  <2>1. Observe
    BY <1>1 DEF Next, InAdd, Add, ValueFor, LoadBits, CompareAndSwap, ReadAccumulator, vars, read
  <2>2. /\ at \in DOMAIN Bindings /\ m.baseline \in Int /\ LoadOf(m.minus) \in Int
        /\ acc \in Int /\ lag \in Int /\ since \in Int
    BY <1>1, BindingFields, LoadInt DEF TypeOK
  <2>3. sent' = Adjusted(m, m.baseline + acc - LoadOf(m.minus))
    BY <2>1 DEF Observe, Report
  <2>4. m.baseline + acc - LoadOf(m.minus) = m.baseline + lag - since
    BY <1>1, <2>2 DEF LoadsExplained
  <2>5. Rises(m.minus) => m.baseline + lag - since <= m.baseline + lag
    BY <1>1, <2>2 DEF LoadsExplained
  <2>6. m.baseline + lag - since \in Int /\ m.baseline + lag \in Int
    BY <2>2
  <2> QED
    BY <2>2, <2>3, <2>4, <2>5, <2>6, AdjustedKeepsOrder
<1>2. TypeOK /\ LoadsExplained /\ [Next]_vars => [reading /\ ~reading' => Explained]_vars
  BY <1>1
<1> QED
  BY <1>2, ExplainedAlways, PTL DEF Spec, ReportsExplained

-----------------------------------------------------------------------------
(***************************************************************************)
(* Counters.  Where nothing lowers its key, what a counter reported is at  *)
(* most what it would report now, or has loaded.                           *)
(***************************************************************************)
Growing(i) == Bindings[i].type = "counter" /\ Rises(Bindings[i].accumulator)

CountersBelow ==
  \A i \in DOMAIN Bindings : Growing(i) =>
    /\ counted[i] <= Adjusted(Bindings[i], Bindings[i].baseline + LoadOf(Bindings[i].accumulator))
    /\ reading /\ at = i =>
         /\ acc <= LoadOf(Bindings[i].accumulator)
         /\ counted[i] <= Adjusted(Bindings[i], Bindings[i].baseline + acc)

LEMMA CountersStep ==
  ASSUME TypeOK, CountersBelow, [Next]_vars
  PROVE  /\ CountersBelow'
         /\ \A i \in DOMAIN Bindings : Growing(i) => counted'[i] >= counted[i]
<1> SUFFICES ASSUME NEW i \in DOMAIN Bindings, Growing(i)
             PROVE  /\ counted'[i] >= counted[i]
                    /\ counted'[i] <= Adjusted(Bindings[i],
                         Bindings[i].baseline + LoadOf(Bindings[i].accumulator)')
                    /\ reading' /\ at' = i =>
                         /\ acc' <= LoadOf(Bindings[i].accumulator)'
                         /\ counted'[i] <= Adjusted(Bindings[i], Bindings[i].baseline + acc')
  BY DEF CountersBelow, LoadOf
<1> DEFINE B == Bindings[i].baseline
           n == LoadOf(Bindings[i].accumulator)
           Value(v) == Adjusted(Bindings[i], B + v)
<1>1. TypeOK'
  BY TypeStep
<1>2. /\ Bindings[i].accumulator \in Keys \union {NoKey} /\ B \in Int
      /\ n \in Int /\ n' \in Int /\ acc \in Int /\ counted[i] \in Int
  BY <1>1, BindingFields, LoadInt DEF TypeOK, LoadOf
<1>3. n <= n'
  BY <1>2, RisesUp DEF Growing
<1>4. \A v \in Int : Value(v) \in Int
  BY <1>2, AdjustedInt
<1>5. ASSUME NEW v \in Int, NEW w \in Int, v <= w PROVE Value(v) <= Value(w)
  <2>1. B + v \in Int /\ B + w \in Int /\ B + v <= B + w
    BY <1>2, <1>5
  <2> QED
    BY <2>1, AdjustedKeepsOrder
<1>6. /\ counted[i] <= Value(n)
      /\ reading /\ at = i => acc <= n /\ counted[i] <= Value(acc)
  BY DEF CountersBelow
<1>7. Value(n) <= Value(n') /\ Value(n) \in Int /\ Value(n') \in Int
  BY <1>2, <1>3, <1>4, <1>5
<1> HIDE DEF n, Value
<1>8. CASE UNCHANGED <<at, reading, acc, counted>>
  BY <1>2, <1>3, <1>6, <1>7, <1>8 DEF n, Value
<1>9. CASE ReadAccumulator
  <2>1. n' = n /\ counted' = counted /\ at' = at
    BY <1>9 DEF ReadAccumulator, adds, n, LoadOf
  <2>2. at' = i => acc' = n
    BY <1>9, <2>1 DEF ReadAccumulator, n
  <2> QED
    BY <1>2, <1>6, <2>1, <2>2 DEF n, Value
<1>10. CASE Observe
  <2>1. reading /\ ~reading' /\ n' = n
    BY <1>10 DEF Observe, Report, adds, n, LoadOf
  <2>2. CASE at # i
    <3>1. counted'[i] = counted[i]
      BY <1>10, <2>2 DEF Observe, Report, TypeOK
    <3> QED
      BY <1>2, <1>6, <2>1, <3>1 DEF n, Value
  <2>3. CASE at = i
    <3>1. Bindings[i].minus = NoKey /\ LoadOf(NoKey) = 0
      BY BindingFields, NoKeyIsZero DEF Growing
    <3>2. B + acc - 0 = B + acc
      BY <1>2
    <3>3. counted'[i] = Value(acc)
      BY <1>10, <2>3, <3>1, <3>2 DEF Observe, Report, TypeOK, Growing, Value
    <3>4. Value(acc) <= Value(n) /\ Value(acc) \in Int
      BY <1>2, <1>4, <1>5, <1>6, <2>1, <2>3
    <3> QED
      BY <1>2, <1>6, <2>1, <2>3, <3>3, <3>4 DEF n, Value
  <2> QED
    BY <2>2, <2>3
<1> QED
  BY <1>8, <1>9, <1>10 DEF Next, InAdd, Add, ValueFor, LoadBits, CompareAndSwap, vars, read

\* An observable counter whose key has no negative delta never goes down between two
\* collections (observable.go observableMetricValue over Load).
THEOREM CounterMonotone == Spec => CounterGrows
<1>1. Init => CountersBelow
  <2> SUFFICES ASSUME Init, NEW i \in DOMAIN Bindings
               PROVE  counted[i] <= Adjusted(Bindings[i], Bindings[i].baseline
                                              + LoadOf(Bindings[i].accumulator))
    BY DEF Init, CountersBelow
  <2>1. LoadOf(Bindings[i].accumulator) = 0
    BY DEF Init, LoadOf
  <2>2. Bindings[i].baseline + 0 = Bindings[i].baseline /\ Bindings[i].baseline \in Int
    BY BindingFields
  <2>3. counted[i] = Adjusted(Bindings[i], Bindings[i].baseline) /\ counted[i] \in Int
    BY <2>2, AdjustedInt DEF Init
  <2> QED
    BY <2>1, <2>2, <2>3
<1>2. TypeOK /\ CountersBelow /\ [Next]_vars => CountersBelow'
  BY CountersStep
<1>3. TypeOK /\ CountersBelow /\ [Next]_vars =>
        [\A i \in DOMAIN Bindings :
           Bindings[i].type = "counter" /\ Rises(Bindings[i].accumulator) =>
             counted'[i] >= counted[i]]_vars
  BY CountersStep DEF Growing
<1> QED
  BY <1>1, <1>2, <1>3, TypeCorrect, PTL DEF Spec, CounterGrows

=============================================================================
