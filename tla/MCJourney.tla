----------------------------- MODULE MCJourney -----------------------------
(***************************************************************************)
(* Plans on which TLC checks JourneyExec.                                  *)
(***************************************************************************)
EXTENDS JourneyBigStep

Ok(lat) == [NoDie EXCEPT !.latency = lat]
Fails(lat) == [NoDie EXCEPT !.latency = lat, !.fail = TRUE]
Crashes == [NoDie EXCEPT !.crashed = TRUE, !.latency = 1]
Refuses == [NoDie EXCEPT !.refused = TRUE, !.latency = 1]

(***************************************************************************)
(* A journey of two steps.  The first calls a parallel group of two: one   *)
(* branch is retried under a timeout and has a child reached by messaging, *)
(* the other has a fallback.  The second calls an operation whose failure  *)
(* is recovered by a fallback that has a fallback of its own, or by a      *)
(* default response.                                                       *)
(***************************************************************************)
TripNode == {"flow", "entry", "group", "left", "leaf", "right", "backup",
             "buy", "pay", "bank", "alt", "altalt"}
TripKind == [n \in TripNode |->
  CASE n = "flow" -> "seq" [] n = "group" -> "par" [] OTHER -> "op"]
TripDepth == [n \in TripNode |->
  CASE n = "flow" -> 0 [] n \in {"entry", "buy"} -> 1 [] n \in {"group", "pay"} -> 2
    [] n \in {"left", "right", "bank", "alt"} -> 3 [] OTHER -> 4]
TripKids == [n \in TripNode |->
  CASE n = "flow" -> <<"entry", "buy">> [] n = "entry" -> <<"group">>
    [] n = "group" -> <<"left", "right">> [] n = "left" -> <<"leaf">>
    [] n = "buy" -> <<"pay">> [] n = "pay" -> <<"bank">> [] OTHER -> <<>>]
TripFallbacks == [n \in TripNode |->
  CASE n = "right" -> <<"backup">> [] n = "pay" -> <<"alt">>
    [] n = "alt" -> <<"altalt">> [] OTHER -> <<>>]
TripOnFailure == [n \in TripNode |->
  CASE n \in {"right", "alt"} -> "propagate" [] n = "pay" -> "return_default"
    [] OTHER -> "none"]
TripRetries == [n \in TripNode |-> IF n = "left" THEN 1 ELSE 0]
TripBackoff == [n \in TripNode |-> "exponential"]
TripBaseDelay == [n \in TripNode |-> 1]
TripTimeout == [n \in TripNode |->
  CASE n = "left" -> 3 [] n \in {"alt", "pay"} -> 2 [] OTHER -> 0]
TripDice == [n \in TripNode |->
  CASE n = "entry"  -> {Ok(1), Fails(1), Crashes}
    [] n = "left"   -> {Ok(1), Fails(2), Crashes}
    [] n = "leaf"   -> {Ok(2), Fails(1)}
    [] n = "right"  -> {Ok(1), Refuses}
    [] n = "backup" -> {Ok(2), Fails(1)}
    [] n = "pay"    -> {Ok(1), Ok(3), Fails(2), Refuses}
    [] n = "alt"    -> {Ok(1), Crashes}
    [] n = "altalt" -> {Ok(1), Fails(1)}
    [] OTHER        -> {Ok(1)}]

=============================================================================
