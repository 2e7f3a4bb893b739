---------------------------- MODULE MCObservable ----------------------------
(***************************************************************************)
(* Accumulators and metrics on which TLC checks ObservableState: one key   *)
(* that only rises and one that goes up and down.                          *)
(***************************************************************************)
EXTENDS ObservableState, TLC

CONSTANTS g1, g2, done, depth

MCAmounts == done :> {1, 2} @@ depth :> {1, -1}

MCBindings ==
  << [type |-> "gauge", accumulator |-> depth, minus |-> done, baseline |-> 1,
      whenFault |-> "delta", number |-> 3, active |-> TRUE],
     [type |-> "gauge", accumulator |-> done, minus |-> depth, baseline |-> 0,
      whenFault |-> "value", number |-> 9, active |-> FALSE],
     [type |-> "counter", accumulator |-> done, minus |-> NoKey, baseline |-> 2,
      whenFault |-> "none", number |-> 0, active |-> FALSE] >>

=============================================================================
