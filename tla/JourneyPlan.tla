------------------------------ MODULE JourneyPlan ------------------------------
(***************************************************************************)
(* journey: the plans NewEngine builds for the journeys of a schema.       *)
(*                                                                         *)
(* A plan is a tree of invocations.  A node of it is the chain of edges    *)
(* that lead to it from a step of the journey; the groups it lies in, the  *)
(* virtual nodes, are part of the places of the edges.  A tree is the set  *)
(* of its chains; the empty set stands for a PlanError.  The nil checks of *)
(* plan.go are left out: neither the parser nor the generators put a nil   *)
(* into a list.                                                            *)
(***************************************************************************)
EXTENDS TopologyMarshal

(* The calls of an operation, and the members of its groups.               *)
Calls(s, op) == {at \in Nodes(s.calls) : at[1] = op /\ s.calls[at].to # Nil}

(* visiting: the operations on the way here.  A node is built unless one   *)
(* of the nodes below it is a PlanError.                                   *)
buildOperationNode(s, operation) ==
  LET build[visiting \in SUBSET Operations(s)] ==
        [op \in Operations(s) |->
           LET below(at) == build[visiting \union {op}][s.calls[at].to]
           IN IF op \in visiting \/ \E at \in Calls(s, op) : below(at) = {} THEN {}
              ELSE {<<>>} \union UNION {{<<at>> \o chain : chain \in below(at)} : at \in Calls(s, op)}]
  IN build[{}][operation]

(* The steps of the journey, and the members of its groups.                *)
Steps(s, name) == {k \in DOMAIN s.steps : k[1] = name /\ s.steps[k].op # Nil}

(* The trees of the steps; none if there is a PlanError.                   *)
buildPlan(s, name) ==
  LET trees == [k \in Steps(s, name) |-> buildOperationNode(s, s.steps[k].op)]
  IN IF {} \in {trees[k] : k \in DOMAIN trees} THEN <<>> ELSE trees

(* NewEngine panics if one of the plans is a PlanError.                    *)
NewEngine(s) == [name \in DOMAIN s.journeys |-> buildPlan(s, name)]

-----------------------------------------------------------------------------
(* The operation a chain from op leads to.                                 *)
Invoked(s, op, chain) == IF chain = <<>> THEN op ELSE s.calls[Last(chain)].to

=============================================================================
