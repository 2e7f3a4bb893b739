-------------------------------- MODULE KahnSort --------------------------------
(***************************************************************************)
(* topology.validateDAG step by step: Kahn's algorithm on the operations   *)
(* and the edges between them.  Edges are identities, not pairs: the same  *)
(* two operations may be connected several times, by calls, by members of  *)
(* groups and by fallbacks.                                                *)
(*                                                                         *)
(* The queue is a set and any member of it may be next: it is filled in    *)
(* the order of a Go map.                                                  *)
(***************************************************************************)
EXTENDS Integers, FiniteSets

CONSTANTS Op, Edge

ASSUME Finiteness == IsFiniteSet(Op) /\ IsFiniteSet(Edge)

VARIABLES
  ends,      \* of each edge, <<From, To>>; the schema, which never changes
  degree,    \* inDegree
  queue,
  visited,   \* the operations taken from the queue; the code counts them
  todo       \* the outgoing edges of the last one not looked at yet

vars == <<ends, degree, queue, visited, todo>>

From(e) == ends[e][1]
To(e) == ends[e][2]

(* Mutant: an operation is counted once for each caller.                   *)
InDegree_callers(g, p) == Cardinality({g[e][1] : e \in {d \in Edge : g[d][2] = p}})

InDegree(g, p) == Cardinality({e \in Edge : g[e][2] = p})

Init ==
  /\ ends \in [Edge -> Op \X Op]
  /\ degree = [p \in Op |-> InDegree(ends, p)]
  /\ queue = {p \in Op : degree[p] = 0}
  /\ visited = {}
  /\ todo = {}

Take ==
  /\ todo = {}
  /\ \E p \in queue :
       /\ queue' = queue \ {p}
       /\ visited' = visited \union {p}
       /\ todo' = {e \in Edge : From(e) = p}
  /\ UNCHANGED <<ends, degree>>

(* Mutants: a child is queued while an edge to it is left, or is queued    *)
(* only if it was the last edge of its caller.                             *)
Release_early(e) ==
  queue' = IF degree[To(e)] <= 2 THEN queue \union {To(e)} ELSE queue
Release_last(e) ==
  queue' = IF degree[To(e)] = 1 /\ todo = {e} THEN queue \union {To(e)} ELSE queue

Release(e) ==
  queue' = IF degree[To(e)] = 1 THEN queue \union {To(e)} ELSE queue

Remove ==
  /\ \E e \in todo :
       /\ degree' = [degree EXCEPT ![To(e)] = @ - 1]
       /\ Release(e)
       /\ todo' = todo \ {e}
  /\ UNCHANGED <<ends, visited>>

Next == Take \/ Remove

Spec == Init /\ [][Next]_vars

-----------------------------------------------------------------------------
Ended == todo = {} /\ queue = {}

(* No error is returned: as many operations were visited as there are.     *)
Accepts == visited = Op

(* The operations the error names.                                         *)
Unvisited == {p \in Op : degree[p] > 0}

(* The edges not removed yet: those of operations not visited, and those   *)
(* the inner loop has still to look at.                                    *)
Left == {e \in Edge : From(e) \notin visited} \union todo

(* No edge leads out of S.                                                 *)
Closed(S) == \A e \in Edge : From(e) \in S => To(e) \in S

Callees(p) == {To(e) : e \in {d \in Edge : From(d) = p}}

(* The operations that p reaches over one edge or more: those that are in  *)
(* every closed set its callees are in.                                    *)
Reachable(p) ==
  {q \in Op : \A S \in SUBSET Op : Closed(S) /\ Callees(p) \subseteq S => q \in S}

TypeOK ==
  /\ ends \in [Edge -> Op \X Op]
  /\ degree \in [Op -> Int]
  /\ queue \subseteq Op
  /\ visited \subseteq Op
  /\ todo \subseteq Edge

(* Each counter is the number of edges to its operation not removed yet,   *)
(* those that occur several times counted several times; it never falls    *)
(* below 0 (the map inDegree).                                             *)
DegreesExact == \A p \in Op : degree[p] = Cardinality({e \in Left : To(e) = p})

(* No operation is counted twice, so that comparing the counter "visited"  *)
(* with len(inDegree) compares sets.                                       *)
VisitedOnce == queue \intersect visited = {} /\ \A e \in todo : From(e) \in visited

(* The counters inDegree and visited count what they stand for.            *)
Counted == TypeOK /\ DegreesExact /\ VisitedOnce

(* The operations are visited in an order in which every edge leads from   *)
(* an earlier to a later one: if all of them are, there is no cycle.       *)
TopologicalOrder ==
  [][\A e \in Edge : To(e) \in visited' \ visited => From(e) \in visited]_vars

(* If the loop ends with operations left, each of them is called by one    *)
(* that is left too: going back from caller to caller never ends, and      *)
(* there is a cycle.  They are those the error names.                      *)
RefusalJustified ==
  Ended =>
    /\ Unvisited = Op \ visited
    /\ \A p \in Op \ visited : \E e \in Edge : To(e) = p /\ From(e) \notin visited

(* Whatever the order of the queue, the schema is refused exactly if some  *)
(* operation can reach itself.                                             *)
RefusedIffCyclic == Ended => (Accepts <=> \A p \in Op : p \notin Reachable(p))

(* An error is returned for a reason: a cycle.  It names the operations on *)
(* it, and those that are only called from there.                          *)
VerdictJustified == RefusalJustified /\ RefusedIffCyclic

=============================================================================
