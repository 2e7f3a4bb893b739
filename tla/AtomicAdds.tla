----------------------------- MODULE AtomicAdds -----------------------------
(***************************************************************************)
(* What synth.ObservableState promises: an Add takes effect at one moment  *)
(* between its call and its return, exactly once, and a Load returns what  *)
(* the Adds before it have summed up to.                                   *)
(***************************************************************************)
EXTENDS Integers

CONSTANTS
  Callers,   \* goroutines that finish operations
  Keys,      \* accumulator keys of the topology
  Amounts    \* Amounts[k]: the deltas of the state updates of k

VARIABLES
  total,     \* total[k]: the sum of the Adds to k that have taken effect
  pending    \* pending[c]: the Adds c has called and that have not

vars == <<total, pending>>

Adds == {a \in Keys \X Int : a[2] \in Amounts[a[1]]}

TypeOK ==
  /\ total \in [Keys -> Int]
  /\ pending \in [Callers -> SUBSET Adds]

Init ==
  /\ total = [k \in Keys |-> 0]
  /\ pending = [c \in Callers |-> {}]

Call(c, k, d) ==
  /\ pending[c] = {}
  /\ pending' = [pending EXCEPT ![c] = {<<k, d>>}]
  /\ UNCHANGED total

TakeEffect(c, k, d) ==
  /\ pending[c] = {<<k, d>>}
  /\ total' = [total EXCEPT ![k] = @ + d]
  /\ pending' = [pending EXCEPT ![c] = {}]

Next ==
  \E c \in Callers, k \in Keys : \E d \in Amounts[k] : Call(c, k, d) \/ TakeEffect(c, k, d)

Spec == Init /\ [][Next]_vars

=============================================================================
