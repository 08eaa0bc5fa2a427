---------------------------- MODULE AttackGraph ----------------------------
(***************************************************************************)
(* The graph as the path searches see it, and what a route through it is.  *)
(* An edge carries a cost, -ln of its exploit probability, so that the     *)
(* likeliest route is the cheapest.  Two edges may join the same nodes.    *)
(***************************************************************************)
EXTENDS Integers, Sequences, Functions, FiniteSetsExt

CONSTANTS
  Nodes,
  MaxCost     \* costs are 0..MaxCost; a certain hop costs nothing

ASSUME GraphAssumption == IsFiniteSet(Nodes) /\ MaxCost \in Nat

Edge == [from : Nodes, to : Nodes, cost : 0..MaxCost]

\* The edges that leave a node.
EdgesFrom(E, n) == {e \in E : e.from = n}

\* The edges between two nodes.
EdgesBetween(E, m, n) == {e \in E : e.from = m /\ e.to = n}

\* What crossing from one node to the next costs, by the likeliest edge.
HopCost(E, m, n) == Min({e.cost : e \in EdgesBetween(E, m, n)})

\* The loopless node sequences that start at src, by their number of hops.
RoutesFrom(E, src) ==
  LET routes[k \in 0..Cardinality(Nodes)] ==
        IF k = 0 THEN {<<src>>}
        ELSE UNION {{Append(r, e.to) : e \in {x \in EdgesFrom(E, r[Len(r)]) : x.to \notin Range(r)}}
                      : r \in routes[k - 1]}
  IN UNION {routes[k] : k \in 0..Cardinality(Nodes)}

\* The loopless routes from src to dst.
Routes(E, src, dst) == {r \in RoutesFrom(E, src) : r[Len(r)] = dst}

\* What a route costs, hop by hop.
RouteCost(E, r) ==
  LET upTo[i \in 0..(Len(r) - 1)] == IF i = 0 THEN 0 ELSE upTo[i - 1] + HopCost(E, r[i], r[i + 1])
  IN upTo[Len(r) - 1]

\* No edge leads out of the set.
Closed(E, R) == \A e \in E : e.from \in R => e.to \in R

\* The nodes that some edges reach from a set of nodes: those of every closed set around it.
ReachableFrom(E, S) == {n \in Nodes : \A R \in SUBSET Nodes : S \subseteq R /\ Closed(E, R) => n \in R}
=============================================================================
