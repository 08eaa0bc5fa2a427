--------------------------- MODULE GraphContract ---------------------------
(***************************************************************************)
(* What both stores of the graph are told about it: its elements, who may  *)
(* assert them, what an event carries, and the engine's clock.             *)
(*                                                                         *)
(* Times are ticks of the clock, from 1 on: 0 is Go's zero time, which the *)
(* origin maps return for a missing key.                                   *)
(***************************************************************************)
EXTENDS Integers, Functions

CONSTANTS
  Nodes,             \* node ids
  Edges,             \* edge keys: (type, from, to)
  From, To,          \* the endpoints of each edge key
  Invalid,           \* the nodes whose label is outside the ontology
  Origins,           \* (source, scope) pairs that assert elements
  Snapshots,         \* the origins with a scope: complete snapshots
  Shapes,            \* what an event may carry: [origin, nodes, edges]
  PendingEdgeTTL,    \* how long a parked edge waits
  SweepPendingEvery, \* how often expired parked edges are looked for
  MaxTime,           \* bound on the clock
  MaxRemovals        \* bound on the removal epoch

(***************************************************************************)
(* An event lists nodes and, for each edge it carries, whether the edge is *)
(* a guess (TRUE) or stated by a tool (FALSE).                             *)
(***************************************************************************)
IsShape(s) ==
  /\ s.origin \in Origins
  /\ s.nodes \subseteq Nodes
  /\ DOMAIN s.edges \subseteq Edges
  /\ \A k \in DOMAIN s.edges : s.edges[k] \in BOOLEAN

ASSUME GraphAssumption ==
  /\ From \in [Edges -> Nodes]
  /\ To \in [Edges -> Nodes]
  /\ Snapshots \subseteq Origins
  /\ \A s \in Shapes : IsShape(s)
  /\ PendingEdgeTTL \in Nat
  /\ SweepPendingEvery \in Nat
  /\ MaxTime \in Nat
  /\ MaxRemovals \in Nat

VARIABLE now   \* the engine's clock
=============================================================================
