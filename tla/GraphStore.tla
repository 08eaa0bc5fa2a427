---------------------------- MODULE GraphStore ----------------------------
(***************************************************************************)
(* The graph core: one tenant's store of nodes and edges, with the edges   *)
(* that wait for a missing endpoint, the record of who asserted each       *)
(* element, and the three ways an element leaves: a complete snapshot that *)
(* omits it (Sweep), staleness (Prune), and a parked edge's own time to    *)
(* live.                                                                   *)
(*                                                                         *)
(* The reference implementation of the store contract is                   *)
(* internal/graph/memory; every operation holds its mutex from start to    *)
(* end, so each is one atomic action.  The Apache AGE store runs the same  *)
(* operations in one transaction under a per-graph advisory lock.          *)
(***************************************************************************)
EXTENDS GraphContract

VARIABLES
  nodes,         \* node id -> last_seen, of the nodes in the graph
  edges,         \* edge key -> the stored edge
  pending,       \* edge key -> the parked edge and since when it waits
  pendingSwept,  \* when parked edges were last checked for expiry
  nodeOrigins,   \* node id -> origin -> when it last asserted the node
  edgeOrigins,   \* edge key -> origin -> when it last asserted the edge
  removals       \* moves whenever anything leaves the graph

graphVars ==
  <<now, nodes, edges, pending, pendingSwept, nodeOrigins, edgeOrigins, removals>>

Edge == [seen : Nat, inferred : BOOLEAN]
Parked == [edge : Edge, at : Nat]

NoOrigins == [o \in Origins |-> 0]

Init ==
  /\ now = 1
  /\ nodes = [n \in {} |-> 0]
  /\ edges = [k \in {} |-> 0]
  /\ pending = [k \in {} |-> 0]
  /\ pendingSwept = 0
  /\ nodeOrigins = [n \in Nodes |-> NoOrigins]
  /\ edgeOrigins = [k \in Edges |-> NoOrigins]
  /\ removals = 0

---------------------------------------------------------------------------
(***************************************************************************)
(* Landing edges.                                                          *)
(***************************************************************************)

\* Fault: the last write wins.
SupersedesAlways(incoming, stored) == TRUE

\* A later write replaces an earlier one, except that a guess never
\* replaces a fact.
Supersedes(incoming, stored) == ~incoming.inferred \/ stored.inferred

\* What the key k holds once e is written to it.
PutEdge(stored, k, e) ==
  IF k \in DOMAIN stored /\ ~Supersedes(e, stored[k])
  THEN [seen |-> e.seen, inferred |-> stored[k].inferred]
  ELSE e

\* The stored edges once every edge of batch is written to them.
PutEdges(stored, batch) ==
  [k \in DOMAIN stored \cup DOMAIN batch |->
     IF k \in DOMAIN batch THEN PutEdge(stored, k, batch[k]) ELSE stored[k]]

\* An edge can land when both its endpoints are in the graph.
CanLand(k, present) == From[k] \in present /\ To[k] \in present

\* Fault: edges are looked up by the node they start from only.
IncidentFrom(k, ns) == From[k] \in ns

\* The edge names one of these nodes.
Incident(k, ns) == From[k] \in ns \/ To[k] \in ns

---------------------------------------------------------------------------
(***************************************************************************)
(* Writing an event.                                                       *)
(***************************************************************************)

\* A write looks for expired parked edges the first time, and then at most
\* once in every SweepPendingEvery.
SweepPendingDue == pendingSwept = 0 \/ now - pendingSwept >= SweepPendingEvery

\* Parked edges the next write drops: those past the TTL, if it looks.
ExpiredPending ==
  {k \in DOMAIN pending : SweepPendingDue /\ now - pending[k].at > PendingEdgeTTL}

\* The origins of an element once o asserted it at seen: the latest counts.
Note(os, o, seen) == IF seen > os[o] THEN [os EXCEPT ![o] = seen] ELSE os

\* The batch write: drop expired parked edges, write the nodes, land the
\* parked edges they complete, then land or park the batch's own edges.
UpsertBatchFrom(o, seen, observed, ns, es) ==
  LET expired     == ExpiredPending
      waiting     == DOMAIN pending \ expired
      present     == DOMAIN nodes \cup ns
      released    == {k \in waiting : Incident(k, ns) /\ CanLand(k, present)}
      landing     == {k \in DOMAIN es : CanLand(k, present)}
      parking     == DOMAIN es \ landing
      afterParked == PutEdges(edges, [k \in released |-> pending[k].edge])
  IN /\ pendingSwept' = IF SweepPendingDue THEN now ELSE pendingSwept
     /\ nodes' = [n \in present |-> IF n \in ns THEN observed ELSE nodes[n]]
     /\ edges' = PutEdges(afterParked, Restrict(es, landing))
     /\ pending' = [k \in (waiting \ released) \cup parking |->
                      IF k \in parking THEN [edge |-> es[k], at |-> now]
                                       ELSE pending[k]]
     /\ nodeOrigins' = [n \in Nodes |->
                          IF n \in ns THEN Note(nodeOrigins[n], o, seen)
                                      ELSE nodeOrigins[n]]
     /\ edgeOrigins' = [k \in Edges |->
                          LET kept == IF k \in expired THEN NoOrigins
                                                       ELSE edgeOrigins[k]
                          IN IF k \in DOMAIN es THEN Note(kept, o, seen) ELSE kept]
     /\ UNCHANGED <<now, removals>>

\* A node outside the ontology is dropped, and the event's edges to it.
\* A snapshot's assertions carry the time it was taken, any other event's
\* the time it is applied.
ApplyEvent(shape, taken, observed) ==
  LET dropped == shape.nodes \cap Invalid
      kept    == {k \in DOMAIN shape.edges : From[k] \notin dropped /\ To[k] \notin dropped}
  IN UpsertBatchFrom(shape.origin,
                     IF shape.origin \in Snapshots THEN taken ELSE now,
                     observed,
                     shape.nodes \ dropped,
                     [k \in kept |-> [seen |-> observed, inferred |-> shape.edges[k]]])

---------------------------------------------------------------------------
(***************************************************************************)
(* Removing elements.                                                      *)
(***************************************************************************)

\* Fault: an assertion made when the snapshot was taken goes with the older ones.
WithdrawInclusive(os, o, taken) ==
  IF os[o] <= taken THEN [os EXCEPT ![o] = 0] ELSE os

\* What is left of an element's origins when o withdraws the assertions it
\* made before taken.
Withdraw(os, o, taken) ==
  IF os[o] < taken THEN [os EXCEPT ![o] = 0] ELSE os

\* Fault: a snapshot retracts what was asserted in any scope.
RetractedInAnyScope(origins, o, taken) ==
  {x \in DOMAIN origins : \E p \in Snapshots : /\ origins[x][p] # 0
                                                /\ Withdraw(origins[x], p, taken) = NoOrigins}

\* The elements whose last origin o withdraws: nobody asserts them any more.
Retracted(origins, o, taken) ==
  {x \in DOMAIN origins : /\ origins[x][o] # 0
                          /\ Withdraw(origins[x], o, taken) = NoOrigins}

\* Someone else still asserts the edge: if its node goes, it waits for the
\* node to come back.
StillAsserted(k, o, taken) == Withdraw(edgeOrigins[k], o, taken) # NoOrigins

\* The removal epoch moves when anything went.
RemovalSignal(goneNodes, goneEdges) ==
  IF goneNodes = {} /\ goneEdges = {} THEN 0 ELSE 1

\* Apply the omissions of the snapshot o took at taken.
Sweep(o, taken) ==
  LET goneEdges == Retracted(edgeOrigins, o, taken)
      goneNodes == Retracted(nodeOrigins, o, taken) \cap DOMAIN nodes
      kept      == DOMAIN edges \ goneEdges
      detached  == {k \in kept : Incident(k, goneNodes)}
      reparked  == {k \in detached : StillAsserted(k, o, taken)}
      leaving   == (goneEdges \cap (DOMAIN edges \cup DOMAIN pending)) \cup detached
  IN /\ o \in Snapshots
     /\ nodes' = Restrict(nodes, DOMAIN nodes \ goneNodes)
     /\ edges' = Restrict(edges, kept \ detached)
     /\ pending' = [k \in (DOMAIN pending \ goneEdges) \cup reparked |->
                      IF k \in reparked THEN [edge |-> edges[k], at |-> now]
                                        ELSE pending[k]]
     /\ nodeOrigins' = [n \in Nodes |-> Withdraw(nodeOrigins[n], o, taken)]
     /\ edgeOrigins' = [k \in Edges |-> Withdraw(edgeOrigins[k], o, taken)]
     /\ removals' = removals + RemovalSignal(goneNodes, leaving)
     /\ removals' <= MaxRemovals
     /\ UNCHANGED <<now, pendingSwept>>

\* Assertions nobody repeated since before are forgotten.
Aged(os, before) == [o \in Origins |-> IF os[o] < before THEN 0 ELSE os[o]]

\* The element was last observed before the cutoff.
Stale(seen, before) == seen < before

\* Remove what was last observed before the cutoff, and the edges of the
\* nodes that go.
Prune(before) ==
  LET goneNodes == {n \in DOMAIN nodes : Stale(nodes[n], before)}
      goneEdges == {k \in DOMAIN edges :
                      Stale(edges[k].seen, before) \/ Incident(k, goneNodes)}
  IN /\ nodes' = Restrict(nodes, DOMAIN nodes \ goneNodes)
     /\ edges' = Restrict(edges, DOMAIN edges \ goneEdges)
     /\ nodeOrigins' = [n \in Nodes |-> IF n \in goneNodes THEN NoOrigins
                                        ELSE Aged(nodeOrigins[n], before)]
     /\ edgeOrigins' = [k \in Edges |-> IF k \in goneEdges THEN NoOrigins
                                        ELSE Aged(edgeOrigins[k], before)]
     /\ removals' = removals + RemovalSignal(goneNodes, goneEdges)
     /\ removals' <= MaxRemovals
     /\ UNCHANGED <<now, pending, pendingSwept>>

Tick ==
  /\ now < MaxTime
  /\ now' = now + 1
  /\ UNCHANGED <<nodes, edges, pending, pendingSwept, nodeOrigins, edgeOrigins, removals>>

Next ==
  \/ \E s \in Shapes, taken, observed \in 1..now : ApplyEvent(s, taken, observed)
  \/ \E o \in Snapshots, taken \in 1..now : Sweep(o, taken)
  \/ \E before \in 1..now : Prune(before)
  \/ Tick

Spec == Init /\ [][Next]_graphVars

---------------------------------------------------------------------------
(***************************************************************************)
(* Properties.                                                             *)
(***************************************************************************)

\* Every variable of the store has its type.
TypeOK ==
  /\ now \in Nat
  /\ DOMAIN nodes \subseteq Nodes
  /\ nodes \in [DOMAIN nodes -> Nat]
  /\ DOMAIN edges \subseteq Edges
  /\ edges \in [DOMAIN edges -> Edge]
  /\ DOMAIN pending \subseteq Edges
  /\ pending \in [DOMAIN pending -> Parked]
  /\ pendingSwept \in Nat
  /\ nodeOrigins \in [Nodes -> [Origins -> Nat]]
  /\ edgeOrigins \in [Edges -> [Origins -> Nat]]
  /\ removals \in Nat

\* No edge dangles: whatever order writes, sweeps and prunes come in, both
\* endpoints of a stored edge are in the graph.  The path search and the
\* AGE store's MATCH both assume it.
NoDangling ==
  \A k \in DOMAIN edges : From[k] \in DOMAIN nodes /\ To[k] \in DOMAIN nodes

\* No missed landing: a parked edge still lacks an endpoint.  The write that
\* brings the endpoint is the one that lands the edge, so an edge with both
\* ends present never sits in the waiting list while the graph lacks it.
ParkedWaits ==
  \A k \in DOMAIN pending : From[k] \notin DOMAIN nodes \/ To[k] \notin DOMAIN nodes

\* Every edge is where its endpoints put it: in the graph with both of them,
\* in the waiting list without one (UpsertBatchFrom, Sweep, Prune).
EdgesInPlace == NoDangling /\ ParkedWaits

\* Provenance never outlives its element: an origin is recorded only on a
\* node in the graph or an edge in the graph or parked.  An orphan record
\* would keep a later sweep from ever retracting the element.
OriginsHaveElements ==
  /\ \A n \in Nodes : nodeOrigins[n] # NoOrigins => n \in DOMAIN nodes
  /\ \A k \in Edges : edgeOrigins[k] # NoOrigins
                        => k \in DOMAIN edges \cup DOMAIN pending

\* The expiry check leaves no edge behind that had waited out its TTL by
\* then, although landing attempts re-park edges and the check is throttled.
ParkedWithinTTL ==
  \A k \in DOMAIN pending : pendingSwept <= pending[k].at + PendingEdgeTTL

\* A guess never replaces a fact: an edge a tool stated stays stated for as
\* long as it is in the graph, whoever writes it and whatever was parked.
FactsStay ==
  [][\A k \in DOMAIN edges \cap DOMAIN edges' :
       ~edges[k].inferred => ~edges'[k].inferred]_graphVars

\* Whatever leaves the graph moves the removal epoch: a reader that patches
\* a cached snapshot with deltas, which carry no deletions, can always tell
\* that it holds something the graph no longer does.
RemovalsAreSignalled ==
  [][~(DOMAIN nodes \subseteq DOMAIN nodes' /\ DOMAIN edges \subseteq DOMAIN edges')
       => removals' > removals]_graphVars

\* A guess never replaces a fact, wherever the edge is: the store contract
\* states the rule of every write of an edge ("a write replaces the edge with
\* the same type and endpoints, except that a guess never replaces a fact"),
\* so that a step does not depend on arrival order.  Parking applies no such
\* rule: a guess parked over a waiting fact is what lands.
FactsStayParked ==
  [][\A k \in DOMAIN pending :
       LET after == IF k \in DOMAIN edges' THEN edges'[k] ELSE pending'[k].edge
       IN (~pending[k].edge.inferred /\ k \in DOMAIN edges' \cup DOMAIN pending')
            => ~after.inferred]_graphVars

\* What a reader of the graph and of its waiting list relies on, at any moment, whatever
\* order events, sweeps and prunes came in (UpsertBatchFrom, Sweep, Prune).
EverythingInPlace == EdgesInPlace /\ OriginsHaveElements /\ ParkedWithinTTL

\* What a step may never do, whoever takes it: turn what a tool stated into a guess, or
\* take something off the graph without moving the epoch that readers of deltas go by
\* (putEdgeLocked, Sweep, Prune).
WritesKeepTheirWord == FactsStay /\ RemovalsAreSignalled
=============================================================================
