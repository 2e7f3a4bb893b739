----------------------------- MODULE KahnSortProofs -----------------------------
(***************************************************************************)
(* Proofs about KahnSort, for every finite graph: the counters are exact,  *)
(* the order of the visits is topological, and a refusal is justified.     *)
(*                                                                         *)
(* The step that carries the argument: taking an operation moves its edges *)
(* from "caller not visited" to todo and so leaves Left as it is, while    *)
(* looking at an edge takes exactly that edge out of Left.                 *)
(***************************************************************************)
EXTENDS KahnSort, FiniteSetTheorems, WellFoundedInduction, TLAPS

Into(p) == {e \in Left : To(e) = p}

(* A counter is 0 exactly for the operations in the queue or visited.      *)
ZeroIsReady == \A p \in Op : degree[p] = 0 <=> p \in queue \union visited

Inv == TypeOK /\ DegreesExact /\ VisitedOnce /\ ZeroIsReady

-----------------------------------------------------------------------------
(* The edges into an operation are finitely many.                          *)
LEMMA IntoFinite == ASSUME NEW p PROVE TypeOK => IsFiniteSet(Into(p))
<1>1. Into(p) \subseteq Left
  BY DEF Into
<1>2. TypeOK => Left \subseteq Edge
  BY DEF Left, TypeOK
<1> QED
  BY <1>1, <1>2, FS_Subset, Finiteness

LEMMA InitInv == Init => Inv
<1> SUFFICES ASSUME Init PROVE Inv
  OBVIOUS
<1>1. \A p \in Op : InDegree(ends, p) \in Nat
  <2> TAKE p \in Op
  <2>1. IsFiniteSet({e \in Edge : ends[e][2] = p})
    BY FS_Subset, Finiteness
  <2> QED
    BY <2>1, FS_CardinalityType DEF InDegree
<1>2. TypeOK
  BY <1>1 DEF Init, TypeOK
<1>3. DegreesExact
  <2>1. Left = Edge
    BY DEF Init, Left
  <2> QED
    BY <2>1 DEF Init, DegreesExact, InDegree, To
<1>4. VisitedOnce
  BY DEF Init, VisitedOnce
<1>5. ZeroIsReady
  BY DEF Init, ZeroIsReady
<1> QED
  BY <1>2, <1>3, <1>4, <1>5 DEF Inv

-----------------------------------------------------------------------------
(* Taking an operation changes neither the counters nor Left.              *)
LEMMA TakeInv == Inv /\ Take => Inv'
<1> SUFFICES ASSUME Inv, Take PROVE Inv'
  OBVIOUS
<1> USE DEF Inv
<1>0. PICK p \in queue : /\ queue' = queue \ {p}
                         /\ visited' = visited \union {p}
                         /\ todo' = {e \in Edge : From(e) = p}
  BY DEF Take
<1>1. todo = {} /\ ends' = ends /\ degree' = degree
  BY DEF Take
<1>2. p \in Op /\ p \notin visited
  BY <1>0 DEF TypeOK, VisitedOnce
<1>3. TypeOK'
  BY <1>0, <1>1, <1>2 DEF TypeOK
<1>4. \A e : To(e)' = To(e) /\ From(e)' = From(e)
  BY <1>1 DEF To, From
<1>5. Left' = Left
  BY <1>0, <1>1, <1>2, <1>4 DEF Left
<1>6. DegreesExact'
  BY <1>1, <1>4, <1>5 DEF DegreesExact
<1>7. VisitedOnce'
  BY <1>0, <1>1, <1>4 DEF VisitedOnce
<1>8. ZeroIsReady'
  BY <1>0, <1>1 DEF ZeroIsReady
<1> QED
  BY <1>3, <1>6, <1>7, <1>8

(* Looking at an edge takes that edge, and no other, out of Left.          *)
LEMMA RemoveInv == Inv /\ Remove => Inv'
<1> SUFFICES ASSUME Inv, Remove PROVE Inv'
  OBVIOUS
<1> USE DEF Inv
<1>0. PICK e \in todo : /\ degree' = [degree EXCEPT ![To(e)] = @ - 1]
                        /\ Release(e)
                        /\ todo' = todo \ {e}
  BY DEF Remove
<1>1. ends' = ends /\ visited' = visited
  BY DEF Remove
<1>2. e \in Edge /\ To(e) \in Op /\ From(e) \in visited
  BY <1>0 DEF TypeOK, VisitedOnce, To, From
<1>3. \A d : To(d)' = To(d) /\ From(d)' = From(d)
  BY <1>1 DEF To, From
<1>4. queue' = IF degree[To(e)] = 1 THEN queue \union {To(e)} ELSE queue
  BY <1>0 DEF Release
<1>5. TypeOK'
  BY <1>0, <1>1, <1>2, <1>4 DEF TypeOK
<1>6. Left' = Left \ {e} /\ e \in Left
  BY <1>0, <1>1, <1>2, <1>3 DEF Left
<1>7. Cardinality(Into(To(e))') = Cardinality(Into(To(e))) - 1
  <2>1. Into(To(e))' = Into(To(e)) \ {e} /\ e \in Into(To(e))
    BY <1>3, <1>6 DEF Into
  <2>2. IsFiniteSet(Into(To(e)))
    BY IntoFinite
  <2> QED
    BY <2>1, <2>2, FS_RemoveElement
<1>8. \A p \in Op : degree[p] = Cardinality(Into(p))
  BY DEF DegreesExact, Into
<1>9. \A p \in Op : degree'[p] = Cardinality(Into(p)')
  <2> TAKE p \in Op
  <2>1. CASE p = To(e)
    <3>1. degree'[p] = degree[p] - 1
      BY <2>1, <1>0 DEF TypeOK
    <3>2. Into(p) = Into(To(e)) /\ Into(p)' = Into(To(e))'
      BY <2>1, <1>3 DEF Into
    <3> QED
      BY <3>1, <3>2, <1>7, <1>8
  <2>2. CASE p # To(e)
    <3>1. degree'[p] = degree[p]
      BY <2>2, <1>0 DEF TypeOK
    <3>2. Into(p)' = Into(p)
      BY <2>2, <1>3, <1>6 DEF Into
    <3> QED
      BY <3>1, <3>2, <1>8
  <2> QED
    BY <2>1, <2>2
<1>10. DegreesExact'
  BY <1>9, <1>3 DEF DegreesExact, Into
<1>11. degree[To(e)] # 0
  <2>1. e \in Into(To(e))
    BY <1>6 DEF Into
  <2>2. IsFiniteSet(Into(To(e)))
    BY IntoFinite
  <2>3. Cardinality(Into(To(e))) # 0
    BY <2>1, <2>2, FS_EmptySet
  <2> QED
    BY <2>3, <1>2, <1>8
<1>12. To(e) \notin queue \union visited
  BY <1>2, <1>11 DEF ZeroIsReady
<1>13. VisitedOnce'
  BY <1>0, <1>1, <1>3, <1>4, <1>12 DEF VisitedOnce
<1>14. ZeroIsReady'
  <2>1. ASSUME NEW p \in Op PROVE degree'[p] = 0 <=> p \in queue' \union visited'
    <3>1. CASE p = To(e)
      <4>1. degree'[p] = degree[p] - 1 /\ degree[p] \in Int
        BY <3>1, <1>0 DEF TypeOK
      <4> QED
        BY <4>1, <3>1, <1>1, <1>4, <1>12
    <3>2. CASE p # To(e)
      <4>1. degree'[p] = degree[p]
        BY <3>2, <1>0 DEF TypeOK
      <4> QED
        BY <4>1, <3>2, <1>1, <1>4 DEF ZeroIsReady
    <3> QED
      BY <3>1, <3>2
  <2> QED
    BY <2>1 DEF ZeroIsReady
<1> QED
  BY <1>5, <1>10, <1>13, <1>14

LEMMA NextInv == Inv /\ [Next]_vars => Inv'
<1> SUFFICES ASSUME Inv, [Next]_vars PROVE Inv'
  OBVIOUS
<1>1. CASE Take
  BY <1>1, TakeInv
<1>2. CASE Remove
  BY <1>2, RemoveInv
<1>3. CASE UNCHANGED vars
  BY <1>3 DEF vars, Inv, TypeOK, DegreesExact, VisitedOnce, ZeroIsReady, Left, To, From
<1> QED
  BY <1>1, <1>2, <1>3 DEF Next

LEMMA InvHolds == Spec => []Inv
  BY InitInv, NextInv, PTL DEF Spec

-----------------------------------------------------------------------------
(* Every counter is the number of edges to its operation that are left,    *)
(* and no operation is visited twice.                                      *)
THEOREM CountersExact == Spec => []Counted
<1>1. Inv => Counted
  BY DEF Inv, Counted
<1> QED
  BY <1>1, InvHolds, PTL

(* An operation is taken when its counter is 0: no edge to it is left, so  *)
(* all of its callers have been visited.                                   *)
LEMMA ReadyHasNoEdges ==
  ASSUME Inv, NEW p \in queue \union visited
  PROVE Into(p) = {}
<1>1. p \in Op
  BY DEF Inv, TypeOK
<1>2. degree[p] = 0
  BY <1>1 DEF Inv, ZeroIsReady
<1>3. Cardinality(Into(p)) = 0
  BY <1>1, <1>2 DEF Inv, DegreesExact, Into
<1>4. IsFiniteSet(Into(p))
  BY IntoFinite DEF Inv
<1> QED
  BY <1>3, <1>4, FS_EmptySet

(* The order of the visits is topological: an accepted graph is acyclic.   *)
THEOREM VisitsAreTopological == Spec => TopologicalOrder
<1> DEFINE Ordered == \A e \in Edge : To(e) \in visited' \ visited => From(e) \in visited
<1>1. Inv /\ [Next]_vars => [Ordered]_vars
  <2> SUFFICES ASSUME Inv, Next PROVE Ordered
    BY DEF vars, Ordered
  <2>1. CASE Take
    <3>1. PICK p \in queue : visited' = visited \union {p}
      BY <2>1 DEF Take
    <3>2. ASSUME NEW e \in Edge, To(e) \in visited' \ visited PROVE From(e) \in visited
      <4>1. To(e) = p
        BY <3>1, <3>2
      <4>2. e \notin Left
        BY <4>1, ReadyHasNoEdges DEF Into
      <4> QED
        BY <4>2 DEF Left
    <3> QED
      BY <3>2
  <2>2. CASE Remove
    BY <2>2 DEF Remove
  <2> QED
    BY <2>1, <2>2 DEF Next
<1>2. Spec => [][Ordered]_vars
  BY <1>1, InvHolds, PTL DEF Spec
<1> QED
  BY <1>2 DEF TopologicalOrder

(* A graph that is refused is one in which every operation left has a      *)
(* caller that is left.                                                    *)
LEMMA RefusedHaveCallers == Inv => RefusalJustified
<1> SUFFICES ASSUME Inv, Ended PROVE /\ Unvisited = Op \ visited
                                     /\ \A p \in Op \ visited : \E e \in Edge : To(e) = p /\ From(e) \notin visited
  BY DEF RefusalJustified
<1>1. ASSUME NEW p \in Op PROVE degree[p] \in Nat
  <2>1. IsFiniteSet(Into(p)) /\ degree[p] = Cardinality(Into(p))
    BY IntoFinite DEF Inv, DegreesExact, Into
  <2> QED
    BY <2>1, FS_CardinalityType
<1>2. Unvisited = Op \ visited
  BY <1>1 DEF Unvisited, Inv, ZeroIsReady, Ended
<1>3. ASSUME NEW p \in Op \ visited PROVE \E e \in Edge : To(e) = p /\ From(e) \notin visited
  <2>1. degree[p] # 0
    BY <1>3 DEF Inv, ZeroIsReady, Ended
  <2>2. Cardinality(Into(p)) # 0
    BY <2>1 DEF Inv, DegreesExact, Into
  <2>3. PICK e \in Into(p) : TRUE
    BY <2>2, FS_EmptySet
  <2>4. e \in Left /\ To(e) = p
    BY <2>3 DEF Into
  <2> QED
    BY <2>4 DEF Left, Ended
<1> QED
  BY <1>2, <1>3

-----------------------------------------------------------------------------
(***************************************************************************)
(* The verdict.  An operation that was visited is on no cycle: the         *)
(* operations not visited when it was taken are a closed set that holds    *)
(* its callees and not itself.                                             *)
(***************************************************************************)
OffCycles ==
  \A p \in visited : \E S \in SUBSET Op : Closed(S) /\ Callees(p) \subseteq S /\ p \notin S

LEMMA TakeOffCycles == Inv /\ OffCycles /\ Take => OffCycles'
<1> SUFFICES ASSUME Inv, OffCycles, Take, NEW p \in visited'
             PROVE  (\E S \in SUBSET Op : Closed(S) /\ Callees(p) \subseteq S /\ p \notin S)'
  BY DEF OffCycles
<1>0. PICK q \in queue : visited' = visited \union {q}
  BY DEF Take
<1>1. \A e : To(e)' = To(e) /\ From(e)' = From(e)
  BY DEF Take, To, From
<1>2. \A S, r : Closed(S)' = Closed(S) /\ Callees(r)' = Callees(r)
  BY <1>1 DEF Closed, Callees
<1>3. CASE p \in visited
  BY <1>2, <1>3 DEF OffCycles
<1>4. CASE p = q
  <2> DEFINE S == Op \ visited'
  <2>1. \A e \in Edge : To(e) \in visited' => From(e) \in visited
    <3>1. ASSUME NEW e \in Edge, To(e) \in queue \union visited PROVE From(e) \in visited
      <4>1. e \notin Left
        BY <3>1, ReadyHasNoEdges DEF Into
      <4> QED
        BY <4>1 DEF Left
    <3> QED
      BY <3>1, <1>0
  <2>2. \A e \in Edge : From(e) \in Op /\ To(e) \in Op
    BY DEF Inv, TypeOK, From, To
  <2>3. Closed(S)
    BY <1>0, <2>1, <2>2 DEF Closed
  <2>4. q \notin visited
    BY DEF Inv, VisitedOnce
  <2>5. Callees(p) \subseteq S
    BY <1>4, <2>1, <2>2, <2>4 DEF Callees
  <2>6. p \notin S /\ S \in SUBSET Op
    BY <1>0, <1>4
  <2> HIDE DEF S
  <2> QED
    BY <1>2, <2>3, <2>5, <2>6
<1> QED
  BY <1>0, <1>3, <1>4

LEMMA OffCyclesHolds == Spec => []OffCycles
<1>1. Init => OffCycles
  BY DEF Init, OffCycles
<1>2. Inv /\ OffCycles /\ [Next]_vars => OffCycles'
  <2> SUFFICES ASSUME Inv, OffCycles, [Next]_vars PROVE OffCycles'
    OBVIOUS
  <2>1. CASE Take
    BY <2>1, TakeOffCycles
  <2>2. ASSUME UNCHANGED <<ends, visited>> PROVE OffCycles'
    BY <2>2 DEF OffCycles, Closed, Callees, From, To
  <2> QED
    BY <2>1, <2>2 DEF Next, Remove, vars
<1> QED
  BY <1>1, <1>2, InvHolds, PTL DEF Spec

-----------------------------------------------------------------------------
LEMMA LeastNat ==
  ASSUME NEW T, T \subseteq Nat, T # {}
  PROVE  \E x \in T : \A y \in T : x <= y
<1> DEFINE R == OpToRel(<, Nat)
<1>1. \A y, x \in Nat : y < x => <<y, x>> \in R
  BY Zenon DEF OpToRel
<1>2. IsWellFoundedOn(R, Nat)
  BY NatLessThanWellFounded, Zenon
<1> HIDE DEF R
<1>3. PICK x \in T : \A y \in T : ~(<<y, x>> \in R)
  BY <1>2, WFMin, Zenon
<1>4. \A y \in T : ~(y < x)
  BY <1>1, <1>3
<1> QED
  BY <1>4

(* Whatever reaches the caller of an operation reaches the operation.      *)
LEMMA ReachesOn ==
  ASSUME TypeOK, NEW e \in Edge
  PROVE  /\ To(e) \in Reachable(From(e))
         /\ \A p : From(e) \in Reachable(p) => To(e) \in Reachable(p)
<1>1. To(e) \in Op
  BY DEF TypeOK, To
<1>2. To(e) \in Callees(From(e))
  BY DEF Callees
<1> QED
  BY <1>1, <1>2 DEF Reachable, Closed

(* Finitely many operations, each called by another of them: take one that *)
(* is reached from the fewest of them.  Its caller is reached from no      *)
(* others, and from itself.                                                *)
LEMMA CallersMakeCycle ==
  ASSUME TypeOK, NEW U \in SUBSET Op, U # {},
         \A p \in U : \E e \in Edge : To(e) = p /\ From(e) \in U
  PROVE  \E p \in U : p \in Reachable(p)
<1> SUFFICES ASSUME \A p \in U : p \notin Reachable(p) PROVE FALSE
  OBVIOUS
<1> DEFINE Above(p) == {q \in U : p \in Reachable(q)}
<1>1. \A p : Above(p) \in SUBSET Op
  OBVIOUS
<1>2. ASSUME NEW e \in Edge, From(e) \in U
      PROVE  /\ From(e) \in Above(To(e)) /\ From(e) \notin Above(From(e))
             /\ Above(From(e)) \subseteq Above(To(e))
  BY <1>2, ReachesOn
<1> HIDE DEF Above
<1>3. \A p : IsFiniteSet(Above(p)) /\ Cardinality(Above(p)) \in Nat
  BY <1>1, FS_Subset, FS_CardinalityType, Finiteness
<1>4. PICK p \in U : \A q \in U : Cardinality(Above(p)) <= Cardinality(Above(q))
  <2> DEFINE T == {Cardinality(Above(p)) : p \in U}
  <2>1. T \subseteq Nat /\ T # {}
    BY <1>3
  <2>2. \E x \in T : \A y \in T : x <= y
    <3> HIDE DEF T
    <3> QED
      BY <2>1, LeastNat
  <2> QED
    BY <2>2
<1>5. PICK e \in Edge : To(e) = p /\ From(e) \in U
  OBVIOUS
<1>6. /\ Cardinality(Above(From(e))) <= Cardinality(Above(p))
      /\ Cardinality(Above(p)) = Cardinality(Above(From(e))) => Above(p) = Above(From(e))
  BY <1>2, <1>3, <1>5, FS_Subset
<1> QED
  BY <1>2, <1>3, <1>4, <1>5, <1>6

(* The verdict of validateDAG is right for every finite graph: operations  *)
(* are left when the loop ends exactly if one of them can reach itself,    *)
(* whatever the order of the queue, and those the error names are those    *)
(* left, each called by another.                                           *)
THEOREM VerdictCorrect == Spec => []VerdictJustified
<1>1. Inv /\ OffCycles => VerdictJustified
  <2> SUFFICES ASSUME Inv, OffCycles PROVE VerdictJustified
    OBVIOUS
  <2>1. RefusalJustified
    BY RefusedHaveCallers
  <2>2. ASSUME Ended, Accepts, NEW p \in Op PROVE p \notin Reachable(p)
    BY <2>2 DEF OffCycles, Accepts, Reachable
  <2>3. ASSUME Ended, ~Accepts PROVE \E p \in Op : p \in Reachable(p)
    <3> DEFINE U == Op \ visited
    <3>1. U # {} /\ TypeOK
      BY <2>3 DEF Accepts, Inv, TypeOK
    <3>2. \A p \in U : \E e \in Edge : To(e) = p /\ From(e) \in U
      BY <2>1, <2>3 DEF RefusalJustified, Inv, TypeOK, From
    <3> QED
      BY <3>1, <3>2, CallersMakeCycle
  <2> QED
    BY <2>1, <2>2, <2>3 DEF VerdictJustified, RefusedIffCyclic
<1> QED
  BY <1>1, InvHolds, OffCyclesHolds, PTL

=============================================================================
