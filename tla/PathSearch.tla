----------------------------- MODULE PathSearch -----------------------------
(***************************************************************************)
(* The search for critical paths: one Dijkstra from every seed, shared out *)
(* over a pool of workers, each with a working set it uses again for the   *)
(* next seed.  Of every pair of a seed and a crown jewel it reports the    *)
(* likeliest route.                                                        *)
(*                                                                         *)
(* Edges are relaxed in the order the store listed them, which is any      *)
(* order.  The priority queue is a set here; MinHeap models the heap.      *)
(* Without a seed or a jewel the code reports what the attacker holds and  *)
(* searches nothing; a search that finds nothing reports the same.         *)
(***************************************************************************)
EXTENDS AttackGraph

CONSTANTS
  Workers,
  NoNode,     \* no node
  Snapshots   \* the snapshots a search may be given

Snapshot == [edges : SUBSET Edge, seeds : SUBSET Nodes, jewels : SUBSET Nodes, held : SUBSET Nodes]

\* An entry of the queue.
Item == [node : Nodes, d : Nat]

\* What the attacker holds is where an attack may start.
ASSUME SearchAssumption ==
  /\ NoNode \notin Nodes /\ NoNode \notin Item
  /\ Snapshots \subseteq {s \in Snapshot : s.held \subseteq s.seeds}

VARIABLES
  edges,      \* the snapshot's edges,
  seeds,      \* where an attack may start,
  jewels,     \* what it is after,
  held,       \* and the nodes the attacker holds already
  queued,     \* the seeds no worker has taken
  worker,     \* worker -> the seed it searches from and how far it is
  scratch,    \* worker -> its working set
  found,      \* seed -> the routes found from it
  report      \* every route the search reports, once all are found

graphVars == <<edges, seeds, jewels, held>>
searchVars == <<graphVars, queued, worker, scratch, found, report>>

Unreached == -1
NoEdge == [from |-> NoNode, to |-> NoNode, cost |-> 0]

\* The working set of one search: the least cost found to a node, the edge it
\* was found by, and the queue.
Scratch == [dist : [Nodes -> Nat \cup {Unreached}],
            prev : [Nodes -> Edge \cup {NoEdge}],
            queue : SUBSET Item]

\* cur is the node being expanded, at the distance it left the queue with,
\* and todo the edges out of it that are left to relax.
Worker == [seed : Nodes \cup {NoNode}, cur : Item \cup {NoNode}, todo : SUBSET Edge]

Resting == [seed |-> NoNode, cur |-> NoNode, todo |-> {}]

Blank == [dist |-> [n \in Nodes |-> Unreached], prev |-> [n \in Nodes |-> NoEdge], queue |-> {}]

SearchInit ==
  /\ \E s \in Snapshots :
       /\ edges = s.edges
       /\ seeds = s.seeds
       /\ jewels = s.jewels
       /\ held = s.held
  /\ queued = seeds
  /\ worker = [w \in Workers |-> Resting]
  /\ scratch = [w \in Workers |-> Blank]
  /\ found = [s \in {} |-> {}]
  /\ report = {}

---------------------------------------------------------------------------
(***************************************************************************)
(* One seed's Dijkstra.                                                    *)
(***************************************************************************)

\* Fault: the working set of the seed before is not cleared.
Uncleared(sc, s) ==
  [sc EXCEPT !.dist[s] = 0, !.queue = @ \cup {[node |-> s, d |-> 0]}]

\* The working set a search starts with.
Cleared(sc, s) ==
  [dist |-> [n \in Nodes |-> IF n = s THEN 0 ELSE Unreached],
   prev |-> [n \in Nodes |-> NoEdge],
   queue |-> {[node |-> s, d |-> 0]}]

\* A worker takes a seed.
Take(w, s) ==
  /\ worker[w].seed = NoNode
  /\ s \in queued
  /\ queued' = queued \ {s}
  /\ worker' = [worker EXCEPT ![w].seed = s]
  /\ scratch' = [scratch EXCEPT ![w] = Cleared(@, s)]
  /\ UNCHANGED <<graphVars, found, report>>

\* The item leaves the queue next: none is nearer.
Nearest(queue, it) == it \in queue /\ \A x \in queue : it.d <= x.d

\* The worker expands a node: all edges out of it are to be relaxed.
Expanded(wk, it) == [seed |-> wk.seed, cur |-> it, todo |-> EdgesFrom(edges, it.node)]

\* The nearest item leaves the queue.  Its node is expanded, unless a
\* shorter way to it has been found since it was queued.
Pop(w, it) ==
  /\ worker[w].seed # NoNode
  /\ worker[w].todo = {}
  /\ Nearest(scratch[w].queue, it)
  /\ scratch' = [scratch EXCEPT ![w].queue = @ \ {it}]
  /\ worker' = IF it.d > scratch[w].dist[it.node] THEN worker
               ELSE [worker EXCEPT ![w] = Expanded(@, it)]
  /\ UNCHANGED <<graphVars, queued, found, report>>

\* Fault: a way as long as the one known replaces it.
NoLonger(sc, nd, to) == sc.dist[to] = Unreached \/ nd <= sc.dist[to]

\* A way of this length to the node is news.
Shorter(sc, nd, to) == sc.dist[to] = Unreached \/ nd < sc.dist[to]

\* The working set with the shorter way in it.
Relaxed(sc, e, nd) ==
  [dist |-> [sc.dist EXCEPT ![e.to] = nd],
   prev |-> [sc.prev EXCEPT ![e.to] = e],
   queue |-> sc.queue \cup {[node |-> e.to, d |-> nd]}]

\* An edge out of the node being expanded is relaxed.
Relax(w, e) ==
  LET nd == worker[w].cur.d + e.cost
  IN /\ e \in worker[w].todo
     /\ worker' = [worker EXCEPT ![w].todo = @ \ {e}]
     /\ scratch' = IF Shorter(scratch[w], nd, e.to)
                   THEN [scratch EXCEPT ![w] = Relaxed(@, e, nd)] ELSE scratch
     /\ UNCHANGED <<graphVars, queued, found, report>>

\* The way back from a jewel to the seed, as edges from seed to jewel.
WayBack(sc, s, j) ==
  LET further[steps \in Seq(Edge \cup {NoEdge})] ==
        LET at == IF steps = << >> THEN j ELSE steps[1].from
        IN IF at \in {s, NoNode} THEN steps ELSE <<sc.prev[at]>> \o steps
      back[k \in 0..Cardinality(Nodes)] == IF k = 0 THEN << >> ELSE further[back[k - 1]]
  IN back[Cardinality(Nodes)]

\* The routes a finished search reports.
Reconstructed(sc, s) ==
  {[seed |-> s, jewel |-> j, steps |-> WayBack(sc, s, j)]
     : j \in {n \in jewels : n # s /\ sc.dist[n] # Unreached}}

\* Nothing is left to expand.
Exhausted(w) == worker[w].seed # NoNode /\ worker[w].todo = {} /\ scratch[w].queue = {}

\* The routes to the jewels are read off.
Finish(w) ==
  /\ Exhausted(w)
  /\ found' = [s \in DOMAIN found \cup {worker[w].seed} |->
                 IF s = worker[w].seed THEN Reconstructed(scratch[w], s) ELSE found[s]]
  /\ worker' = [worker EXCEPT ![w] = Resting]
  /\ UNCHANGED <<graphVars, queued, scratch, report>>

---------------------------------------------------------------------------
(***************************************************************************)
(* The report.                                                             *)
(***************************************************************************)

\* A jewel the attacker holds is a route of its own, without a hop.
Direct == {[seed |-> j, jewel |-> j, steps |-> << >>] : j \in jewels \cap held}

Searched == queued = {} /\ \A w \in Workers : worker[w].seed = NoNode

\* All seeds are searched: what was found is put together.
Report ==
  /\ Searched
  /\ report = {}
  /\ report' = Direct \cup UNION Range(found)
  /\ report' # {}
  /\ UNCHANGED <<graphVars, queued, worker, scratch, found>>

SearchNext ==
  \/ \E w \in Workers :
       \/ \E s \in queued : Take(w, s)
       \/ \E it \in scratch[w].queue : Pop(w, it)
       \/ \E e \in worker[w].todo : Relax(w, e)
       \/ Finish(w)
  \/ Report

SearchSpec == SearchInit /\ [][SearchNext]_searchVars

\* The workers keep running.
SearchLiveSpec == SearchSpec /\ WF_searchVars(SearchNext)

---------------------------------------------------------------------------
(***************************************************************************)
(* Properties.                                                             *)
(***************************************************************************)

NodesOf(path) == <<path.seed>> \o [i \in DOMAIN path.steps |-> path.steps[i].to]
CostOf(path) ==
  LET upTo[i \in 0..Len(path.steps)] == IF i = 0 THEN 0 ELSE upTo[i - 1] + path.steps[i].cost
  IN upTo[Len(path.steps)]

\* A report is exact.  Every path in it is a loopless route of the graph from
\* its seed to its jewel, and no route between the two is likelier; a jewel
\* some seed reaches is on one path from it, one the attacker holds on one of
\* its own, and no pair comes twice (FindCriticalPaths, reconstruct).
ExposuresAreExact ==
  report # {} =>
    /\ \A p \in report :
         /\ \A i \in DOMAIN p.steps : p.steps[i] \in edges /\ p.steps[i].from = NodesOf(p)[i]
         /\ NodesOf(p) \in Routes(edges, p.seed, p.jewel)
         /\ \A r \in Routes(edges, p.seed, p.jewel) : CostOf(p) <= RouteCost(edges, r)
    /\ \A s \in Nodes, j \in jewels :
         Cardinality({p \in report : p.seed = s /\ p.jewel = j}) =
           IF \/ s = j /\ j \in held
              \/ s # j /\ s \in seeds /\ j \in ReachableFrom(edges, {s})
           THEN 1 ELSE 0

\* When the search from a seed ends, its distances certify each other: no
\* edge makes one shorter, and the edge a node was found by accounts for its
\* distance (dijkstra's dist and prev).
DistancesAreCertified ==
  \A w \in Workers : Exhausted(w) =>
    LET seed == worker[w].seed
        dist == scratch[w].dist
        prev == scratch[w].prev
    IN /\ dist[seed] = 0
       /\ \A e \in edges : dist[e.from] # Unreached =>
            dist[e.to] # Unreached /\ dist[e.to] <= dist[e.from] + e.cost
       /\ \A n \in Nodes \ {seed} : dist[n] # Unreached =>
            /\ prev[n] \in edges /\ prev[n].to = n
            /\ dist[prev[n].from] # Unreached
            /\ dist[n] = dist[prev[n].from] + prev[n].cost

\* Distances only grow along a search: a node is expanded at its final
\* distance, so no edge is relaxed twice for nothing (dijkstra's queue).
FrontierAdvances ==
  [][\A w \in Workers :
       worker[w].cur # NoNode /\ worker'[w].cur # NoNode =>
         worker'[w].cur.d >= worker[w].cur.d]_searchVars

\* Every seed is searched.
SearchEnds == <>Searched
=============================================================================
