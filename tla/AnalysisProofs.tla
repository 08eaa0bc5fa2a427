-------------------------- MODULE AnalysisProofs --------------------------
(***************************************************************************)
(* Proofs about the analysis: the search of PathSearch and its heap, the   *)
(* routes of KShortest, the snapshot that SnapshotCache reads the graph    *)
(* through, the ledger that compares one pass with the next, the trials of *)
(* RiskTrials, and the sets of ports that PortSets decides a firewall by.  *)
(***************************************************************************)
EXTENDS PathSearch, KShortest, PortSets, MinHeap, SnapshotCache, ImpactLedger, RiskTrials, FiniteSetTheorems, FunctionTheorems, TLAPS

---------------------------------------------------------------------------
(***************************************************************************)
(* The search, for every graph, every set of costs and any number of workers. *)
(***************************************************************************)

\* The parts of the state that a search reads and writes.
Types ==
  /\ edges \subseteq Edge /\ queued \subseteq Nodes
  /\ worker \in [Workers -> Worker]
  /\ scratch \in [Workers -> Scratch]

\* The edge makes nothing shorter.
Eased(sc, e) ==
  sc.dist[e.to] # Unreached /\ sc.dist[e.to] <= sc.dist[e.from] + e.cost

\* The edge a node was found by accounts for its distance.
FoundBy(E, sc, n) ==
  /\ sc.prev[n] \in E /\ sc.prev[n].to = n
  /\ sc.dist[sc.prev[n].from] # Unreached
  /\ sc.dist[n] >= sc.dist[sc.prev[n].from] + sc.prev[n].cost

\* Every queued distance is no less than the one the last node left with, nor
\* than the one known by now.
Frontier(wk, sc) ==
  \A it \in sc.queue :
    /\ sc.dist[it.node] # Unreached /\ it.d >= sc.dist[it.node]
    /\ wk.cur # NoNode => wk.cur.d <= it.d

\* What is left to relax leads out of the node being expanded, whose distance
\* no longer changes.
Expanding(E, wk, sc) ==
  wk.todo # {} =>
    /\ wk.cur # NoNode /\ sc.dist[wk.cur.node] = wk.cur.d
    /\ wk.todo \subseteq EdgesFrom(E, wk.cur.node)

\* A node that was found is queued, or its edges are relaxed.
QueuedOrEased(E, wk, sc) ==
  \A n \in Nodes : sc.dist[n] # Unreached =>
    \/ [node |-> n, d |-> sc.dist[n]] \in sc.queue
    \/ \A e \in EdgesFrom(E, n) \ wk.todo : Eased(sc, e)

\* What holds of a worker and its working set.
WorkerInv(E, wk, sc) ==
  IF wk.seed = NoNode THEN wk = Resting
  ELSE /\ sc.dist[wk.seed] = 0
       /\ Frontier(wk, sc)
       /\ Expanding(E, wk, sc)
       /\ QueuedOrEased(E, wk, sc)
       /\ \A n \in Nodes \ {wk.seed} : sc.dist[n] # Unreached => FoundBy(E, sc, n)

IInv == Types /\ \A w \in Workers : WorkerInv(edges, worker[w], scratch[w])

\* A search that takes a seed.
LEMMA TakeKeeps ==
  ASSUME NEW wk \in Worker, NEW sc \in Scratch, NEW s \in Nodes, wk = Resting
  PROVE  /\ [wk EXCEPT !.seed = s] \in Worker
         /\ Cleared(sc, s) \in Scratch
         /\ WorkerInv(edges, [wk EXCEPT !.seed = s], Cleared(sc, s))
<1> DEFINE wk2 == [wk EXCEPT !.seed = s]
           sc2 == Cleared(sc, s)
<1>1. wk2 = [seed |-> s, cur |-> NoNode, todo |-> {}]
  BY SMT DEF Resting
<1>2. sc2 = [dist |-> [n \in Nodes |-> IF n = s THEN 0 ELSE Unreached],
             prev |-> [n \in Nodes |-> NoEdge], queue |-> {[node |-> s, d |-> 0]}]
  BY DEF Cleared
<1>3. wk2 \in Worker
  BY <1>1, SMT DEF Worker
<1>4. [node |-> s, d |-> 0] \in Item
  BY SMT DEF Item
<1>5. sc2 \in Scratch
  BY <1>2, <1>4, SMT DEF Scratch, Unreached
<1>6. s # NoNode
  BY SearchAssumption
<1> HIDE DEF wk2, sc2
<1>7. sc2.dist[s] = 0 /\ \A n \in Nodes \ {s} : sc2.dist[n] = Unreached
  BY <1>2, SMT DEF Unreached
<1>8. Frontier(wk2, sc2)
  BY <1>1, <1>2, <1>7, SMT DEF Frontier, Unreached
<1>9. Expanding(edges, wk2, sc2)
  BY <1>1, SMT DEF Expanding
<1>10. QueuedOrEased(edges, wk2, sc2)
  BY <1>2, <1>7, SMT DEF QueuedOrEased, Unreached
<1>11. wk2.seed = s
  BY <1>1
<1>12. WorkerInv(edges, wk2, sc2)
  BY <1>6, <1>7, <1>8, <1>9, <1>10, <1>11, Zenon DEF WorkerInv
<1> QED
  BY <1>3, <1>5, <1>12 DEF wk2, sc2

\* A search whose nearest item leaves the queue: dropped when it is stale,
\* else expanded, at its distance.
LEMMA PopKeeps ==
  ASSUME Types, NEW wk \in Worker, NEW sc \in Scratch, WorkerInv(edges, wk, sc), wk.seed # NoNode,
         wk.todo = {}, NEW it \in sc.queue, Nearest(sc.queue, it)
  PROVE  LET rest == [sc EXCEPT !.queue = @ \ {it}]
             next == Expanded(wk, it)
         IN /\ rest \in Scratch /\ next \in Worker
            /\ it.d > sc.dist[it.node] => WorkerInv(edges, wk, rest)
            /\ ~(it.d > sc.dist[it.node]) => WorkerInv(edges, next, rest)
<1> DEFINE rest == [sc EXCEPT !.queue = @ \ {it}]
           next == Expanded(wk, it)
<1>1. /\ rest \in Scratch /\ rest.dist = sc.dist /\ rest.prev = sc.prev
      /\ rest.queue = sc.queue \ {it}
  BY SMT DEF Scratch
<1>2. it \in Item /\ it.node \in Nodes /\ it.d \in Nat
  BY SMT DEF Scratch, Item
<1>3. EdgesFrom(edges, it.node) \subseteq Edge
  BY SMT DEF Types, EdgesFrom
<1>4. /\ next \in Worker /\ next.seed = wk.seed /\ next.cur = it
      /\ next.todo = EdgesFrom(edges, it.node)
  <2>1. next = [seed |-> wk.seed, cur |-> it, todo |-> EdgesFrom(edges, it.node)]
    BY DEF Expanded
  <2>2. wk.seed \in Nodes \cup {NoNode}
    BY SMT DEF Worker
  <2> HIDE DEF next
  <2> QED
    BY <1>2, <1>3, <2>1, <2>2, Zenon DEF Worker
<1>5. it # NoNode
  BY <1>2, SearchAssumption
<1>6. /\ sc.dist[wk.seed] = 0 /\ Frontier(wk, sc) /\ Expanding(edges, wk, sc) /\ QueuedOrEased(edges, wk, sc)
      /\ \A n \in Nodes \ {wk.seed} : sc.dist[n] # Unreached => FoundBy(edges, sc, n)
  BY Zenon DEF WorkerInv
<1>7. sc.dist[it.node] # Unreached /\ it.d >= sc.dist[it.node]
  BY <1>6, Zenon DEF Frontier
<1>8. sc.dist \in [Nodes -> Nat \cup {Unreached}] /\ sc.queue \subseteq Item
  BY SMT DEF Scratch
<1> HIDE DEF rest, next
<1>9. \A n \in Nodes : FoundBy(edges, sc, n) => FoundBy(edges, rest, n)
  BY <1>1, Zenon DEF FoundBy
<1>10. \A e \in Edge : Eased(sc, e) => Eased(rest, e)
  BY <1>1, Zenon DEF Eased
<1>11. ASSUME it.d > sc.dist[it.node] PROVE WorkerInv(edges, wk, rest)
  <2>1. Frontier(wk, rest)
    BY <1>1, <1>6, SMT DEF Frontier
  <2>2. Expanding(edges, wk, rest)
    BY SMT DEF Expanding
  <2>3. QueuedOrEased(edges, wk, rest)
    <3> SUFFICES ASSUME NEW n \in Nodes, rest.dist[n] # Unreached
                 PROVE  \/ [node |-> n, d |-> rest.dist[n]] \in rest.queue
                        \/ \A e \in EdgesFrom(edges, n) \ wk.todo : Eased(rest, e)
      BY Zenon DEF QueuedOrEased
    <3>1. CASE [node |-> n, d |-> sc.dist[n]] \in sc.queue
      <4>1. [node |-> n, d |-> sc.dist[n]] # it
        BY <1>11, <1>2, <1>8, SMT DEF Unreached
      <4> QED
        BY <3>1, <4>1, <1>1
    <3>2. CASE \A e \in EdgesFrom(edges, n) \ wk.todo : Eased(sc, e)
      BY <3>2, <1>10, SMT DEF EdgesFrom, Types
    <3> QED
      BY <1>1, <1>6, <3>1, <3>2, Zenon DEF QueuedOrEased
  <2> QED
    BY <1>1, <1>6, <1>9, <2>1, <2>2, <2>3, Zenon DEF WorkerInv
<1>12. ASSUME ~(it.d > sc.dist[it.node]) PROVE WorkerInv(edges, next, rest)
  <2>1. sc.dist[it.node] = it.d
    BY <1>12, <1>2, <1>7, <1>8, SMT DEF Unreached
  <2>2. Frontier(next, rest)
    BY <1>1, <1>4, <1>6, SMT DEF Frontier, Nearest
  <2>3. Expanding(edges, next, rest)
    BY <1>1, <1>4, <1>5, <2>1, SMT DEF Expanding
  <2>4. QueuedOrEased(edges, next, rest)
    <3> SUFFICES ASSUME NEW n \in Nodes, rest.dist[n] # Unreached
                 PROVE  \/ [node |-> n, d |-> rest.dist[n]] \in rest.queue
                        \/ \A e \in EdgesFrom(edges, n) \ next.todo : Eased(rest, e)
      BY Zenon DEF QueuedOrEased
    <3>1. CASE n = it.node
      BY <3>1, <1>4
    <3>2. CASE n # it.node /\ [node |-> n, d |-> sc.dist[n]] \in sc.queue
      <4>1. [node |-> n, d |-> sc.dist[n]] # it
        BY <3>2, SMT
      <4> QED
        BY <3>2, <4>1, <1>1
    <3>3. CASE \A e \in EdgesFrom(edges, n) \ wk.todo : Eased(sc, e)
      BY <3>3, <1>10, SMT DEF EdgesFrom, Types
    <3> QED
      BY <1>1, <1>6, <3>1, <3>2, <3>3, Zenon DEF QueuedOrEased
  <2> QED
    BY <1>1, <1>4, <1>6, <1>9, <2>2, <2>3, <2>4, Zenon DEF WorkerInv
<1> QED
  BY <1>1, <1>4, <1>11, <1>12 DEF rest, next

\* A search that relaxes an edge out of the node it expands.
LEMMA RelaxKeeps ==
  ASSUME Types, NEW wk \in Worker, NEW sc \in Scratch, WorkerInv(edges, wk, sc), wk.seed # NoNode,
         NEW e \in wk.todo
  PROVE  LET nd == wk.cur.d + e.cost
             next == [wk EXCEPT !.todo = @ \ {e}]
         IN /\ next \in Worker
            /\ ~Shorter(sc, nd, e.to) => WorkerInv(edges, next, sc)
            /\ Shorter(sc, nd, e.to) =>
                 Relaxed(sc, e, nd) \in Scratch /\ WorkerInv(edges, next, Relaxed(sc, e, nd))
<1> DEFINE nd == wk.cur.d + e.cost
           next == [wk EXCEPT !.todo = @ \ {e}]
           rel == Relaxed(sc, e, nd)
<1>1. next \in Worker /\ next.seed = wk.seed /\ next.cur = wk.cur /\ next.todo = wk.todo \ {e}
  BY SMT DEF Worker
<1>2. /\ sc.dist[wk.seed] = 0 /\ Frontier(wk, sc) /\ Expanding(edges, wk, sc) /\ QueuedOrEased(edges, wk, sc)
      /\ \A n \in Nodes \ {wk.seed} : sc.dist[n] # Unreached => FoundBy(edges, sc, n)
  BY Zenon DEF WorkerInv
<1>3. /\ wk.cur # NoNode /\ sc.dist[wk.cur.node] = wk.cur.d
      /\ e \in edges /\ e.from = wk.cur.node
  BY <1>2, SMT DEF Expanding, EdgesFrom
<1>4. wk.cur \in Item /\ wk.cur.node \in Nodes /\ wk.cur.d \in Nat
  BY <1>3, SMT DEF Worker, Item
<1>5. e \in Edge /\ e.to \in Nodes /\ e.from \in Nodes /\ e.cost \in Nat
  BY <1>3, GraphAssumption, SMT DEF Types, Edge
<1>6. nd \in Nat /\ nd >= wk.cur.d
  BY <1>4, <1>5, SMT
<1>7. /\ sc.dist \in [Nodes -> Nat \cup {Unreached}] /\ sc.queue \subseteq Item
      /\ sc.prev \in [Nodes -> Edge \cup {NoEdge}]
  BY SMT DEF Scratch
<1>8. wk.seed \in Nodes
  BY SMT DEF Worker
<1> HIDE DEF nd, next
<1>9. ASSUME ~Shorter(sc, nd, e.to) PROVE WorkerInv(edges, next, sc)
  <2>1. Eased(sc, e)
    <3>1. sc.dist[e.to] # Unreached /\ ~(nd < sc.dist[e.to])
      BY <1>9 DEF Shorter
    <3> QED
      BY <3>1, <1>3, <1>5, <1>6, <1>7, SMT DEF Eased, nd, Unreached
  <2>2. Frontier(next, sc)
    BY <1>1, <1>2, Zenon DEF Frontier
  <2>3. Expanding(edges, next, sc)
    BY <1>1, <1>2, SMT DEF Expanding
  <2>4. QueuedOrEased(edges, next, sc)
    BY <1>1, <1>2, <2>1, SMT DEF QueuedOrEased
  <2> QED
    BY <1>1, <1>2, <2>2, <2>3, <2>4, Zenon DEF WorkerInv
<1>10. ASSUME Shorter(sc, nd, e.to) PROVE rel \in Scratch /\ WorkerInv(edges, next, rel)
  <2>1. /\ rel.dist = [sc.dist EXCEPT ![e.to] = nd] /\ rel.prev = [sc.prev EXCEPT ![e.to] = e]
        /\ rel.queue = sc.queue \cup {[node |-> e.to, d |-> nd]}
    BY DEF Relaxed
  <2>2. [node |-> e.to, d |-> nd] \in Item
    BY <1>5, <1>6, SMT DEF Item
  <2>3. rel \in Scratch
    BY <1>5, <1>6, <1>7, <2>2, SMT DEF Relaxed, Scratch
  <2> HIDE DEF rel
  <2>4. /\ rel.dist[e.to] = nd
        /\ \A n \in Nodes \ {e.to} : rel.dist[n] = sc.dist[n] /\ rel.prev[n] = sc.prev[n]
        /\ rel.prev[e.to] = e
    BY <2>1, <1>5, <1>7, SMT
  <2>5. \A n \in Nodes : sc.dist[n] # Unreached =>
           rel.dist[n] # Unreached /\ rel.dist[n] <= sc.dist[n]
    BY <2>4, <1>6, <1>7, <1>10, SMT DEF Shorter, Unreached
  <2>6. e.to # wk.cur.node
    BY <1>10, <1>3, <1>6, <1>4, <1>7, SMT DEF Shorter, Unreached
  <2>7. e.to # wk.seed
    BY <1>10, <1>2, <1>6, <1>7, SMT DEF Shorter, Unreached
  <2>8. rel.dist[wk.seed] = 0
    BY <2>4, <2>7, <1>2, <1>8
  <2>9. Frontier(next, rel)
    <3> SUFFICES ASSUME NEW it \in rel.queue
                 PROVE  /\ rel.dist[it.node] # Unreached /\ it.d >= rel.dist[it.node]
                        /\ next.cur.d <= it.d
      BY SMT DEF Frontier
    <3>1. CASE it \in sc.queue
      <4>1. /\ sc.dist[it.node] # Unreached /\ it.d >= sc.dist[it.node] /\ wk.cur.d <= it.d
            /\ it.node \in Nodes /\ it.d \in Nat
        BY <3>1, <1>2, <1>3, <1>7, SMT DEF Frontier, Item
      <4>2. rel.dist[it.node] # Unreached /\ rel.dist[it.node] <= sc.dist[it.node]
        BY <4>1, <2>5
      <4>3. rel.dist[it.node] \in Nat \cup {Unreached} /\ sc.dist[it.node] \in Nat \cup {Unreached}
        BY <4>1, <1>7, <2>3, SMT DEF Scratch
      <4> QED
        BY <4>1, <4>2, <4>3, <1>1, SMT DEF Unreached
    <3>2. CASE it = [node |-> e.to, d |-> nd]
      BY <3>2, <2>4, <1>6, <1>1, SMT DEF Unreached
    <3> QED
      BY <3>1, <3>2, <2>1
  <2>10. Expanding(edges, next, rel)
    BY <1>1, <1>2, <1>3, <1>4, <2>4, <2>6, SMT DEF Expanding
  <2>11. QueuedOrEased(edges, next, rel)
    <3> SUFFICES ASSUME NEW n \in Nodes, rel.dist[n] # Unreached
                 PROVE  \/ [node |-> n, d |-> rel.dist[n]] \in rel.queue
                        \/ \A x \in EdgesFrom(edges, n) \ next.todo : Eased(rel, x)
      BY Zenon DEF QueuedOrEased
    <3>1. CASE n = e.to
      BY <3>1, <2>1, <2>4
    <3>2. CASE n # e.to /\ [node |-> n, d |-> sc.dist[n]] \in sc.queue
      BY <3>2, <2>1, <2>4, Zenon
    <3>3. CASE n # e.to /\ \A x \in EdgesFrom(edges, n) \ wk.todo : Eased(sc, x)
      <4> SUFFICES ASSUME NEW x \in EdgesFrom(edges, n) \ next.todo PROVE Eased(rel, x)
        OBVIOUS
      <4>1. x \in Edge /\ x.from = n /\ x.to \in Nodes /\ x.cost \in Nat
        BY GraphAssumption, SMT DEF Types, Edge, EdgesFrom
      <4>2. rel.dist[n] = sc.dist[n]
        BY <3>3, <2>4
      <4>3. CASE x = e
        BY <4>1, <4>2, <4>3, <1>3, <1>4, <1>6, <2>4, SMT DEF Eased, nd, Unreached
      <4>4. CASE x # e
        <5>1. Eased(sc, x)
          BY <3>3, <4>4, <1>1
        <5>2. /\ rel.dist[x.to] # Unreached /\ rel.dist[x.to] <= sc.dist[x.to]
              /\ rel.dist[x.to] \in Nat \cup {Unreached} /\ sc.dist[x.to] \in Nat \cup {Unreached}
              /\ sc.dist[n] \in Nat \cup {Unreached}
          BY <5>1, <4>1, <2>3, <2>5, <1>7, SMT DEF Eased, Scratch
        <5> QED
          BY <5>1, <5>2, <4>1, <4>2, SMT DEF Eased, Unreached
      <4> QED
        BY <4>3, <4>4
    <3> QED
      BY <1>2, <2>4, <3>1, <3>2, <3>3, Zenon DEF QueuedOrEased
  <2>12. \A n \in Nodes \ {wk.seed} : rel.dist[n] # Unreached => FoundBy(edges, rel, n)
    <3> SUFFICES ASSUME NEW n \in Nodes \ {wk.seed}, rel.dist[n] # Unreached PROVE FoundBy(edges, rel, n)
      OBVIOUS
    <3>1. CASE n = e.to
      <4>1. rel.dist[e.from] = wk.cur.d
        BY <1>3, <1>5, <2>4, <2>6
      <4> QED
        BY <3>1, <4>1, <1>3, <1>4, <1>5, <2>4, SMT DEF FoundBy, nd, Unreached
    <3>2. CASE n # e.to
      <4>1. rel.dist[n] = sc.dist[n] /\ rel.prev[n] = sc.prev[n] /\ FoundBy(edges, sc, n)
        BY <3>2, <2>4, <1>2
      <4>2. sc.prev[n] \in edges /\ sc.prev[n].from \in Nodes /\ sc.prev[n].cost \in Nat
        BY <4>1, GraphAssumption, SMT DEF FoundBy, Types, Edge
      <4>3. /\ rel.dist[sc.prev[n].from] # Unreached
            /\ rel.dist[sc.prev[n].from] <= sc.dist[sc.prev[n].from]
            /\ rel.dist[sc.prev[n].from] \in Nat \cup {Unreached}
            /\ sc.dist[sc.prev[n].from] \in Nat \cup {Unreached}
            /\ sc.dist[n] \in Nat \cup {Unreached}
        BY <4>1, <4>2, <2>3, <2>5, <1>7, SMT DEF FoundBy, Scratch
      <4> QED
        BY <4>1, <4>2, <4>3, SMT DEF FoundBy, Unreached
    <3> QED
      BY <3>1, <3>2
  <2>13. WorkerInv(edges, next, rel)
    BY <1>1, <2>8, <2>9, <2>10, <2>11, <2>12, Zenon DEF WorkerInv
  <2> QED
    BY <2>3, <2>13
<1> QED
  BY <1>1, <1>9, <1>10 DEF nd, next

LEMMA InitInv == SearchInit => IInv
<1> SUFFICES ASSUME SearchInit PROVE IInv
  OBVIOUS
<1>1. PICK s \in Snapshots : edges = s.edges /\ seeds = s.seeds
  BY DEF SearchInit
<1>2. edges \subseteq Edge /\ seeds \subseteq Nodes
  BY <1>1, SearchAssumption, SMT DEF Snapshot
<1>3. Resting \in Worker /\ Resting.seed = NoNode
  BY SMT DEF Resting, Worker
<1>4. Blank \in Scratch
  BY SMT DEF Blank, Scratch
<1>5. queued = seeds /\ worker = [w \in Workers |-> Resting] /\ scratch = [w \in Workers |-> Blank]
  BY DEF SearchInit
<1> QED
  BY <1>2, <1>3, <1>4, <1>5 DEF IInv, Types, WorkerInv

\* What a worker does to its own search is all that changes in a step, so the
\* invariant is kept when that search's part of it is.
LEMMA OneWorkerMoves ==
  ASSUME IInv, NEW w \in Workers, NEW wk \in Worker, NEW sc \in Scratch,
         WorkerInv(edges, wk, sc), edges' = edges, queued' \subseteq queued,
         worker' = [worker EXCEPT ![w] = wk], scratch' = [scratch EXCEPT ![w] = sc]
  PROVE  IInv'
<1>1. worker \in [Workers -> Worker] /\ scratch \in [Workers -> Scratch] /\ edges \subseteq Edge
      /\ queued \subseteq Nodes
  BY DEF IInv, Types
<1>2. Types'
  BY <1>1 DEF Types
<1>3. ASSUME NEW v \in Workers PROVE WorkerInv(edges', worker'[v], scratch'[v])
  <2>1. CASE v = w
    BY <1>1, <2>1
  <2>2. CASE v # w
    <3>1. worker'[v] = worker[v] /\ scratch'[v] = scratch[v]
      BY <1>1, <2>2
    <3> QED
      BY <3>1 DEF IInv
  <2> QED
    BY <2>1, <2>2
<1> QED
  BY <1>2, <1>3 DEF IInv

LEMMA NextInv == IInv /\ [SearchNext]_searchVars => IInv'
<1> SUFFICES ASSUME IInv, [SearchNext]_searchVars PROVE IInv'
  OBVIOUS
<1>1. Types /\ \A w \in Workers : worker[w] \in Worker /\ scratch[w] \in Scratch
                                  /\ WorkerInv(edges, worker[w], scratch[w])
  BY DEF IInv, Types
<1>2. ASSUME NEW w \in Workers, NEW s \in queued, Take(w, s) PROVE IInv'
  <2> s \in Nodes
    BY <1>1 DEF Types
  <2>1. worker[w] = Resting
    BY <1>1, <1>2 DEF WorkerInv, Take
  <2> DEFINE wk == [worker[w] EXCEPT !.seed = s]
  <2>2. wk \in Worker /\ Cleared(scratch[w], s) \in Scratch /\ WorkerInv(edges, wk, Cleared(scratch[w], s))
    BY <1>1, <1>2, <2>1, TakeKeeps
  <2>3. /\ worker' = [worker EXCEPT ![w] = wk] /\ edges' = edges /\ queued' \subseteq queued
        /\ scratch' = [scratch EXCEPT ![w] = Cleared(scratch[w], s)]
    BY <1>2 DEF Take, graphVars
  <2> HIDE DEF wk
  <2> QED
    BY <2>2, <2>3, OneWorkerMoves
<1>3. ASSUME NEW w \in Workers, NEW it \in scratch[w].queue, Pop(w, it) PROVE IInv'
  <2> DEFINE rest == [scratch[w] EXCEPT !.queue = @ \ {it}]
             next == Expanded(worker[w], it)
  <2>1. /\ worker[w].seed # NoNode /\ worker[w].todo = {} /\ Nearest(scratch[w].queue, it)
        /\ edges' = edges /\ scratch' = [scratch EXCEPT ![w] = rest] /\ queued' = queued
    BY <1>3 DEF Pop, graphVars
  <2>2. /\ rest \in Scratch /\ next \in Worker
        /\ it.d > scratch[w].dist[it.node] => WorkerInv(edges, worker[w], rest)
        /\ ~(it.d > scratch[w].dist[it.node]) => WorkerInv(edges, next, rest)
    BY <1>1, <2>1, PopKeeps
  <2>3. CASE it.d > scratch[w].dist[it.node]
    <3>1. worker' = [worker EXCEPT ![w] = worker[w]]
      BY <1>1, <1>3, <2>3 DEF Pop, IInv, Types
    <3> HIDE DEF rest
    <3> QED
      BY <1>1, <2>1, <2>2, <2>3, <3>1, OneWorkerMoves
  <2>4. CASE ~(it.d > scratch[w].dist[it.node])
    <3>1. worker' = [worker EXCEPT ![w] = next]
      BY <1>3, <2>4 DEF Pop
    <3> HIDE DEF rest, next
    <3> QED
      BY <2>1, <2>2, <2>4, <3>1, OneWorkerMoves
  <2> QED
    BY <2>3, <2>4
<1>4. ASSUME NEW w \in Workers, NEW e \in worker[w].todo, Relax(w, e) PROVE IInv'
  <2> DEFINE nd == worker[w].cur.d + e.cost
             next == [worker[w] EXCEPT !.todo = @ \ {e}]
             rel == Relaxed(scratch[w], e, nd)
  <2>1. worker[w].seed # NoNode
    BY <1>1, <1>4, SMT DEF WorkerInv, Resting
  <2>2. worker' = [worker EXCEPT ![w] = next] /\ edges' = edges /\ queued' = queued
    BY <1>4 DEF Relax, graphVars
  <2>3. /\ next \in Worker
        /\ ~Shorter(scratch[w], nd, e.to) => WorkerInv(edges, next, scratch[w])
        /\ Shorter(scratch[w], nd, e.to) => rel \in Scratch /\ WorkerInv(edges, next, rel)
    BY <1>1, <2>1, RelaxKeeps
  <2>4. CASE Shorter(scratch[w], nd, e.to)
    <3>1. scratch' = [scratch EXCEPT ![w] = rel]
      BY <1>4, <2>4 DEF Relax
    <3> HIDE DEF rel, next, nd
    <3> QED
      BY <2>2, <2>3, <2>4, <3>1, OneWorkerMoves
  <2>5. CASE ~Shorter(scratch[w], nd, e.to)
    <3>1. scratch' = [scratch EXCEPT ![w] = scratch[w]]
      BY <1>1, <1>4, <2>5 DEF Relax, IInv, Types
    <3> HIDE DEF rel, next, nd
    <3> QED
      BY <1>1, <2>2, <2>3, <2>5, <3>1, OneWorkerMoves
  <2> QED
    BY <2>4, <2>5
<1>5. ASSUME NEW w \in Workers, Finish(w) PROVE IInv'
  <2>1. /\ worker' = [worker EXCEPT ![w] = Resting] /\ edges' = edges /\ queued' = queued
        /\ scratch' = [scratch EXCEPT ![w] = scratch[w]]
    BY <1>1, <1>5 DEF Finish, graphVars, IInv, Types
  <2>2. Resting \in Worker /\ WorkerInv(edges, Resting, scratch[w])
    BY SMT DEF Resting, Worker, WorkerInv
  <2> QED
    BY <1>1, <2>1, <2>2, OneWorkerMoves
<1>6. CASE Report
  BY <1>6 DEF Report, graphVars, IInv, Types
<1>7. CASE UNCHANGED searchVars
  BY <1>7 DEF searchVars, graphVars, IInv, Types
<1> QED
  BY <1>2, <1>3, <1>4, <1>5, <1>6, <1>7 DEF SearchNext

\* What the invariant says of a search that ends.
LEMMA CertifiedInv == IInv => DistancesAreCertified
<1> SUFFICES ASSUME IInv, NEW w \in Workers, Exhausted(w)
             PROVE  /\ scratch[w].dist[worker[w].seed] = 0
                    /\ \A e \in edges : scratch[w].dist[e.from] # Unreached =>
                         /\ scratch[w].dist[e.to] # Unreached
                         /\ scratch[w].dist[e.to] <= scratch[w].dist[e.from] + e.cost
                    /\ \A n \in Nodes \ {worker[w].seed} : scratch[w].dist[n] # Unreached =>
                         /\ scratch[w].prev[n] \in edges /\ scratch[w].prev[n].to = n
                         /\ scratch[w].dist[scratch[w].prev[n].from] # Unreached
                         /\ scratch[w].dist[n] = scratch[w].dist[scratch[w].prev[n].from]
                                                 + scratch[w].prev[n].cost
  BY DEF DistancesAreCertified
<1> DEFINE sc == scratch[w]
<1>1. WorkerInv(edges, worker[w], sc) /\ worker[w].seed # NoNode /\ worker[w].todo = {} /\ sc.queue = {}
  BY DEF IInv, Exhausted
<1>2. edges \subseteq Edge /\ sc.dist \in [Nodes -> Nat \cup {Unreached}]
  BY SMT DEF IInv, Types, Scratch
<1> HIDE DEF sc
<1>3. sc.dist[worker[w].seed] = 0 /\ QueuedOrEased(edges, worker[w], sc)
      /\ \A n \in Nodes \ {worker[w].seed} : sc.dist[n] # Unreached => FoundBy(edges, sc, n)
  BY <1>1, Zenon DEF WorkerInv
<1>4. ASSUME NEW e \in edges, sc.dist[e.from] # Unreached PROVE Eased(sc, e)
  <2>1. e.from \in Nodes
    BY <1>2, SMT DEF Edge
  <2> QED
    BY <1>1, <1>3, <1>4, <2>1, SMT DEF QueuedOrEased, EdgesFrom
<1>5. ASSUME NEW n \in Nodes \ {worker[w].seed}, sc.dist[n] # Unreached
      PROVE  /\ sc.prev[n] \in edges /\ sc.prev[n].to = n
             /\ sc.dist[sc.prev[n].from] # Unreached
             /\ sc.dist[n] = sc.dist[sc.prev[n].from] + sc.prev[n].cost
  <2>1. FoundBy(edges, sc, n)
    BY <1>3, <1>5
  <2>2. Eased(sc, sc.prev[n])
    BY <1>4, <2>1 DEF FoundBy
  <2>3. sc.prev[n].from \in Nodes /\ sc.prev[n].cost \in Nat
    BY <1>2, <2>1, GraphAssumption, SMT DEF FoundBy, Edge
  <2> QED
    BY <1>2, <2>1, <2>2, <2>3, SMT DEF FoundBy, Eased, Unreached
<1> QED
  BY <1>3, <1>4, <1>5 DEF sc, Eased

\* However the workers share out the seeds, and in whatever order a node's
\* edges are relaxed, a search that ends has the least distances: dist obeys
\* the shortest-path equations and prev is where each distance comes from
\* (dijkstra).  The queue's order is what keeps a node's distance final while
\* its edges are relaxed (Expanding), and a node found but not yet eased in
\* the queue (QueuedOrEased).
THEOREM Certified == SearchSpec => []DistancesAreCertified
  BY CertifiedInv, InitInv, NextInv, PTL DEF SearchSpec

\* A search expands nodes in the order of their distances, for every graph:
\* what a step may never do is go back to a nearer one (dijkstra's queue).
THEOREM Advances == SearchSpec => FrontierAdvances
<1> DEFINE Forward == \A w \in Workers :
             worker[w].cur # NoNode /\ worker'[w].cur # NoNode => worker'[w].cur.d >= worker[w].cur.d
<1>1. IInv /\ [SearchNext]_searchVars => [Forward]_searchVars
  <2> SUFFICES ASSUME IInv, SearchNext, NEW v \in Workers,
                      worker[v].cur # NoNode, worker'[v].cur # NoNode
               PROVE  worker'[v].cur.d >= worker[v].cur.d
    BY DEF Forward
  <2>1. /\ worker[v] \in Worker /\ scratch[v] \in Scratch /\ WorkerInv(edges, worker[v], scratch[v])
        /\ worker \in [Workers -> Worker]
    BY DEF IInv, Types
  <2>2. worker[v].cur \in Item /\ worker[v].cur.d \in Nat
    BY <2>1, SMT DEF Worker, Item
  <2>3. CASE worker'[v].cur = worker[v].cur
    BY <2>2, <2>3, SMT
  <2>4. ASSUME NEW w \in Workers, NEW s \in queued, Take(w, s) PROVE worker'[v].cur = worker[v].cur
    BY <2>1, <2>4, SMT DEF Take, Worker
  <2>5. ASSUME NEW w \in Workers, NEW it \in scratch[w].queue, Pop(w, it)
        PROVE  worker'[v].cur = worker[v].cur \/ worker'[v].cur.d >= worker[v].cur.d
    <3>1. CASE worker' = worker
      BY <3>1
    <3>2. CASE worker' = [worker EXCEPT ![w] = Expanded(worker[w], it)]
      <4>1. CASE v # w
        BY <2>1, <3>2, <4>1
      <4>2. CASE v = w
        <5>1. worker'[v].cur = it
          BY <2>1, <3>2, <4>2 DEF Expanded
        <5>2. worker[v].seed # NoNode
          BY <2>5, <4>2 DEF Pop
        <5>3. Frontier(worker[v], scratch[v])
          BY <2>1, <5>2, Zenon DEF WorkerInv
        <5>4. it \in Item /\ it.d \in Nat
          BY <2>1, <4>2, SMT DEF Scratch, Item
        <5> QED
          BY <5>1, <5>3, <5>4, <2>2, <4>2, SMT DEF Frontier
      <4> QED
        BY <4>1, <4>2
    <3> QED
      BY <2>5, <3>1, <3>2 DEF Pop
  <2>6. ASSUME NEW w \in Workers, NEW e \in worker[w].todo, Relax(w, e) PROVE worker'[v].cur = worker[v].cur
    BY <2>1, <2>6, SMT DEF Relax, Worker
  <2>7. ASSUME NEW w \in Workers, Finish(w) PROVE worker'[v].cur = worker[v].cur
    BY <2>1, <2>7 DEF Finish, Resting
  <2>8. CASE Report
    BY <2>3, <2>8 DEF Report
  <2> QED
    BY <2>3, <2>4, <2>5, <2>6, <2>7, <2>8 DEF SearchNext
<1> QED
  BY <1>1, InitInv, NextInv, PTL DEF SearchSpec, FrontierAdvances

---------------------------------------------------------------------------
(***************************************************************************)
(* The snapshot, for every set of elements and every bound.                *)
(***************************************************************************)

\* What a pass knows once it has begun.  An incremental one was allowed to be
\* by the count of those before it, and, past the epoch, by an epoch that had
\* not moved: the cache then held nothing the graph had lost before the pass.
PassInv ==
  /\ pass.step # "idle" => DOMAIN graph \subseteq alive
  /\ pass.step # "idle" /\ ~pass.full => passesSinceFull < FullSnapshotEvery
  /\ pass.known => pass.epoch <= removals
  /\ pass.step = "read" /\ ~pass.full => DOMAIN cache \subseteq alive

CacheInv ==
  /\ TypeOK
  /\ removalEpoch <= removals
  /\ RemovalsAreSeen
  /\ PassInv

\* The store can only lose elements by moving its epoch.
LEMMA WithoutMoves ==
  ASSUME TypeOK, NEW gone \in SUBSET DOMAIN graph, Without(gone)
  PROVE  /\ DOMAIN graph' = DOMAIN graph \ gone
         /\ graph' \in [DOMAIN graph' -> Element]
         /\ removals' \in Nat
         /\ removals' >= removals
         /\ gone # {} => removals' = removals + 1
  BY SMT DEF Without, CountedRemoval, Restrict, TypeOK

\* An update of a pass leaves a pass.
LEMMA PassUpdates ==
  ASSUME NEW p \in Pass, NEW ep \in Nat, NEW f \in BOOLEAN
  PROVE  /\ [p EXCEPT !.step = "read", !.epoch = ep, !.known = TRUE, !.full = f] \in Pass
         /\ EpochUnread(p) \in Pass
         /\ [p EXCEPT !.full = TRUE] \in Pass
  BY Zenon DEF Pass, Steps, EpochUnread

\* What the idle pass is.
LEMMA IdlePass == Idle \in Pass /\ Idle.step = "idle" /\ Idle.known = FALSE
<1>1. Idle \in Pass
  BY Zenon DEF Idle, Pass, Steps
<1>2. Idle.step = "idle" /\ Idle.known = FALSE
  BY SMT DEF Idle
<1> QED
  BY <1>1, <1>2

\* The initial state satisfies the invariant.
LEMMA CacheStarts == Init => CacheInv
<1> SUFFICES ASSUME Init PROVE CacheInv
  OBVIOUS
<1> USE CacheAssumption DEF Init
<1>1. Idle \in Pass /\ Idle.step = "idle" /\ Idle.known = FALSE
  BY IdlePass
<1>2. DOMAIN Nothing = {} /\ Nothing \in [{} -> Element]
  BY SMT DEF Nothing
<1>3. TypeOK
  <2>1. /\ DOMAIN graph \subseteq Elements /\ graph \in [DOMAIN graph -> Element]
        /\ DOMAIN cache \subseteq Elements /\ cache \in [DOMAIN cache -> Element]
    BY <1>2, Zenon
  <2>2. pass \in Pass
    BY <1>1
  <2>3. /\ now \in Nat /\ lag \in Nat /\ writes \in Nat /\ removals \in Nat /\ snapWatermark \in Nat
        /\ passesSinceFull \in 0..FullSnapshotEvery /\ removalEpoch \in Nat /\ faults \in Nat
    BY SMT
  <2>4. cacheValid \in BOOLEAN /\ alive \subseteq Elements
    BY Zenon
  <2> QED
    BY <2>1, <2>2, <2>3, <2>4 DEF TypeOK
<1>4. RemovalsAreSeen /\ PassInv
  BY <1>1, <1>2, SMT DEF RemovalsAreSeen, PassInv
<1> QED
  BY <1>3, <1>4, SMT DEF CacheInv

\* Every step preserves the invariant.
LEMMA CacheSteps == CacheInv /\ [Next]_snapshotVars => CacheInv'
<1> SUFFICES ASSUME CacheInv, [Next]_snapshotVars PROVE CacheInv'
  OBVIOUS
<1> USE CacheAssumption
<1> USE DEF CacheInv
<1>1. CASE UNCHANGED snapshotVars
  BY <1>1, SMT DEF snapshotVars, storeVars, cacheVars, TypeOK, RemovalsAreSeen, PassInv
<1>2. ASSUME NEW e \in Elements, NEW seen \in 1..now, Write(e, seen) PROVE CacheInv'
  <2>1. /\ DOMAIN graph' = DOMAIN graph \cup {e}
        /\ graph' \in [DOMAIN graph' -> Element]
        /\ writes' \in Nat
    BY <1>2, SMT DEF Write, TypeOK, Element
  <2>2. TypeOK'
    BY <1>2, <2>1, SMT DEF Write, cacheVars, TypeOK
  <2>3. RemovalsAreSeen' /\ (removalEpoch <= removals)'
    BY <1>2, <2>1, SMT DEF Write, cacheVars, RemovalsAreSeen
  <2>4. PassInv'
    BY <1>2, <2>1, SMT DEF Write, cacheVars, PassInv
  <2> QED
    BY <2>2, <2>3, <2>4
<1>3. ASSUME NEW gone \in SUBSET DOMAIN graph, RemoveElements(gone) PROVE CacheInv'
  <2>1. /\ DOMAIN graph' = DOMAIN graph \ gone
        /\ graph' \in [DOMAIN graph' -> Element]
        /\ removals' \in Nat
        /\ removals' = removals + 1
    BY <1>3, WithoutMoves DEF RemoveElements
  <2>2. TypeOK'
    BY <1>3, <2>1, SMT DEF RemoveElements, cacheVars, TypeOK
  <2>3. RemovalsAreSeen' /\ (removalEpoch <= removals)'
    BY <1>3, <2>1, SMT DEF RemoveElements, cacheVars, RemovalsAreSeen, TypeOK
  <2>4. PassInv'
    BY <1>3, <2>1, SMT DEF RemoveElements, cacheVars, PassInv, TypeOK, Pass
  <2> QED
    BY <2>2, <2>3, <2>4
<1>4. ASSUME NEW gone \in SUBSET DOMAIN graph, Begin(gone) PROVE CacheInv'
  <2>1. /\ DOMAIN graph' = DOMAIN graph \ gone
        /\ graph' \in [DOMAIN graph' -> Element]
        /\ removals' \in Nat
        /\ removals' >= removals
        /\ gone # {} => removals' = removals + 1
    BY <1>4, WithoutMoves DEF Begin
  <2>2. pass' = [step |-> "epoch", watermark |-> now, epoch |-> 0, known |-> FALSE,
                 full |-> FullDue(gone # {})]
    BY <1>4 DEF Begin, Idle
  <2>3. FullDue(gone # {}) \in BOOLEAN
        /\ (~FullDue(gone # {}) => passesSinceFull < FullSnapshotEvery)
    BY SMT DEF FullDue, TypeOK
  <2>a. /\ pass' \in Pass
        /\ pass'.step = "epoch" /\ pass'.known = FALSE /\ pass'.full = FullDue(gone # {})
    <3> HIDE DEF FullDue
    <3>1. now \in Nat /\ 0 \in Nat
      BY DEF TypeOK
    <3>2. pass' \in Pass
      BY <2>2, <2>3, <3>1, Zenon DEF Pass, Steps
    <3>3. pass'.step = "epoch" /\ pass'.known = FALSE /\ pass'.full = FullDue(gone # {})
      BY <2>2, Zenon
    <3> QED
      BY <3>2, <3>3
  <2>4. TypeOK'
    BY <1>4, <2>1, <2>a, SMT DEF Begin, cacheVars, TypeOK
  <2>5. RemovalsAreSeen' /\ (removalEpoch <= removals)'
    <3>1. CASE gone = {}
      BY <3>1, <1>4, <2>1, SMT DEF Begin, cacheVars, RemovalsAreSeen, TypeOK
    <3>2. CASE gone # {}
      BY <3>2, <1>4, <2>1, SMT DEF Begin, cacheVars, RemovalsAreSeen, TypeOK
    <3> QED
      BY <3>1, <3>2
  <2>b. ~pass'.full => passesSinceFull < FullSnapshotEvery
    BY <2>a, <2>3, Zenon
  <2>6. PassInv'
    BY <1>4, <2>a, <2>b, Zenon DEF Begin, cacheVars, PassInv
  <2> QED
    BY <2>4, <2>5, <2>6
<1>5. CASE Tick
  BY <1>5, SMT DEF Tick, cacheVars, TypeOK, RemovalsAreSeen, PassInv
<1>6. CASE ReadEpoch
  <2>0. UNCHANGED <<storeVars, cacheVars, alive>> /\ pass.step = "epoch" /\ faults' \in Nat
    BY <1>6, SMT DEF ReadEpoch, Succeeds, Fails, TypeOK
  <2>1. CASE /\ pass' = [pass EXCEPT !.step = "read", !.epoch = removals, !.known = TRUE,
                                     !.full = pass.full \/ removals # removalEpoch]
    <3> DEFINE due == pass.full \/ removals # removalEpoch
    <3>a. pass \in Pass /\ removals \in Nat /\ due \in BOOLEAN
      BY Zenon DEF TypeOK, Pass
    <3>b. pass' \in Pass
      BY <2>1, <3>a, PassUpdates, Zenon
    <3>c. /\ pass'.step = "read" /\ pass'.epoch = removals /\ pass'.known = TRUE
          /\ pass'.full = due
      BY <2>1, <3>a, Zenon DEF Pass
    <3>1. /\ pass'.step = "read" /\ pass'.epoch = removals /\ pass'.known = TRUE
          /\ pass'.full = (pass.full \/ removals # removalEpoch)
          /\ pass' \in Pass
      BY <3>b, <3>c
    <3>2. TypeOK'
      BY <2>0, <3>1, SMT DEF storeVars, cacheVars, TypeOK
    <3>d. ~pass'.full => ~pass.full /\ removals = removalEpoch
      BY <3>1, Zenon
    <3>e. /\ DOMAIN graph \subseteq alive
          /\ ~pass'.full => passesSinceFull < FullSnapshotEvery
          /\ removals = removalEpoch => DOMAIN cache \subseteq DOMAIN graph
      BY <2>0, <3>d, SMT DEF PassInv, RemovalsAreSeen, TypeOK
    <3>3. PassInv'
      BY <2>0, <3>1, <3>d, <3>e, SMT DEF storeVars, cacheVars, TypeOK, PassInv
    <3> QED
      BY <2>0, <3>2, <3>3, SMT DEF storeVars, cacheVars, RemovalsAreSeen
  <2>2. CASE pass' = EpochUnread(pass)
    <3>a. pass \in Pass
      BY DEF TypeOK
    <3>b. pass' \in Pass
      BY <2>2, <3>a, PassUpdates, Zenon
    <3>c. pass'.step = "read" /\ pass'.known = FALSE /\ pass'.full = TRUE
      BY <2>2, <3>a, Zenon DEF EpochUnread, Pass
    <3>1. /\ pass'.step = "read" /\ pass'.known = FALSE /\ pass'.full = TRUE
          /\ pass' \in Pass
      BY <3>b, <3>c
    <3>2. TypeOK'
      BY <2>0, <3>1, SMT DEF storeVars, cacheVars, TypeOK
    <3>3. PassInv'
      BY <2>0, <3>1, SMT DEF storeVars, cacheVars, TypeOK, PassInv
    <3> QED
      BY <2>0, <3>2, <3>3, SMT DEF storeVars, cacheVars, RemovalsAreSeen
  <2> QED
    BY <1>6, <2>1, <2>2 DEF ReadEpoch
<1>7. CASE ReadDelta
  <2> DEFINE delta == SnapshotSince(snapWatermark)
  <2>0. UNCHANGED <<storeVars, alive>> /\ pass.step = "read" /\ ~pass.full /\ faults' \in Nat
        /\ delta \subseteq DOMAIN graph
    BY <1>7, SMT DEF ReadDelta, Succeeds, Fails, TypeOK, SnapshotSince
  <2>1. CASE /\ cache' = [e \in DOMAIN cache \cup delta |->
                            IF e \in delta THEN graph[e] ELSE cache[e]]
             /\ snapWatermark' = pass.watermark
             /\ passesSinceFull' = passesSinceFull + 1
             /\ pass' = Idle
             /\ UNCHANGED <<cacheValid, removalEpoch>>
    <3> HIDE DEF delta
    <3>1. DOMAIN cache' = DOMAIN cache \cup delta /\ cache' \in [DOMAIN cache' -> Element]
      BY <2>0, <2>1, SMT DEF TypeOK
    <3>2. Idle \in Pass /\ Idle.step = "idle" /\ Idle.known = FALSE
      BY IdlePass
    <3>3. TypeOK'
      BY <2>0, <2>1, <3>1, <3>2, SMT DEF storeVars, TypeOK, Pass, PassInv
    <3>4. RemovalsAreSeen' /\ (removalEpoch <= removals)'
      BY <2>0, <2>1, <3>1, SMT DEF storeVars, RemovalsAreSeen
    <3>5. PassInv'
      BY <2>0, <2>1, <3>2, SMT DEF storeVars, PassInv
    <3> QED
      BY <3>3, <3>4, <3>5
  <2>2. CASE pass' = [pass EXCEPT !.full = TRUE] /\ UNCHANGED cacheVars
    <3>1. pass' \in Pass /\ pass'.full = TRUE /\ pass'.step = "read"
          /\ pass'.known = pass.known /\ pass'.epoch = pass.epoch
      <4>1. pass \in Pass
        BY DEF TypeOK
      <4>2. pass' \in Pass
        BY <2>2, <4>1, PassUpdates, Zenon
      <4>3. /\ pass'.full = TRUE /\ pass'.step = pass.step
            /\ pass'.known = pass.known /\ pass'.epoch = pass.epoch
        BY <2>2, <4>1, Zenon DEF Pass
      <4> QED
        BY <2>0, <4>2, <4>3
    <3> QED
      BY <2>0, <2>2, <3>1, SMT DEF storeVars, cacheVars, TypeOK, RemovalsAreSeen, PassInv
  <2> QED
    BY <1>7, <2>1, <2>2 DEF ReadDelta
<1>8. CASE ReadFull
  <2>0. UNCHANGED <<storeVars, alive>> /\ pass' = Idle /\ faults' \in Nat
    BY <1>8, SMT DEF ReadFull, Succeeds, Fails, TypeOK
  <2>1. Idle \in Pass /\ Idle.step = "idle" /\ Idle.known = FALSE
    BY IdlePass
  <2>2. PassInv'
    BY <2>0, <2>1, SMT DEF PassInv
  <2>3. CASE /\ cache' = Rebuilt /\ cacheValid' = TRUE /\ snapWatermark' = pass.watermark
             /\ passesSinceFull' = 0 /\ removalEpoch' = EpochOf(pass)
    <3>1. EpochOf(pass) \in Nat /\ EpochOf(pass) <= removals
      BY SMT DEF EpochOf, TypeOK, Pass, PassInv
    <3>2. TypeOK'
      BY <2>0, <2>1, <2>3, <3>1, SMT DEF Rebuilt, storeVars, TypeOK, Pass
    <3> QED
      BY <2>0, <2>2, <2>3, <3>1, <3>2, SMT DEF Rebuilt, storeVars, RemovalsAreSeen
  <2>4. CASE UNCHANGED cacheVars
    BY <2>0, <2>1, <2>2, <2>4, SMT DEF storeVars, cacheVars, TypeOK, RemovalsAreSeen
  <2> QED
    BY <1>8, <2>3, <2>4 DEF ReadFull
<1> QED
  BY <1>1, <1>2, <1>3, <1>4, <1>5, <1>6, <1>7, <1>8 DEF Next

\* The invariant holds throughout.
THEOREM CacheInvariant == Spec => []CacheInv
<1> QED
  BY CacheStarts, CacheSteps, PTL DEF Spec

\* The cache's variables keep their types.
THEOREM CacheTypes == Spec => []TypeOK
<1>1. CacheInv => TypeOK
  BY DEF CacheInv
<1> QED
  BY <1>1, CacheInvariant, PTL

\* No element leaves the graph unnoticed: the removal epoch tells a cache
\* that still holds it.
THEOREM EpochTellsRemovals == Spec => []RemovalsAreSeen
<1>1. CacheInv => RemovalsAreSeen
  BY DEF CacheInv
<1> QED
  BY <1>1, CacheInvariant, PTL

\* Only a read of the graph ends in a new cache.
LEMMA ServedByRead ==
  ASSUME [Next]_snapshotVars, Served
  PROVE  pass.step = "read" /\ ~UNCHANGED cacheVars /\ (ReadDelta \/ ReadFull)
<1>1. pass.step = "read" /\ ~UNCHANGED cacheVars
  BY DEF Served
<1>2. ASSUME NEW e \in Elements, NEW seen \in 1..now, Write(e, seen) PROVE FALSE
  BY <1>1, <1>2 DEF Write
<1>3. ASSUME NEW gone \in SUBSET DOMAIN graph, RemoveElements(gone) \/ Begin(gone) PROVE FALSE
  BY <1>1, <1>3 DEF RemoveElements, Begin
<1>4. ~Tick /\ ~ReadEpoch /\ ~UNCHANGED snapshotVars
  BY <1>1 DEF Tick, ReadEpoch, snapshotVars
<1> QED
  BY <1>1, <1>2, <1>3, <1>4 DEF Next

\* What an analyzer pass reasons over was in the graph since it began.
THEOREM NothingRemovedIsServed == Spec => NoPhantoms
<1>1. CacheInv /\ [Next]_snapshotVars => [Served => DOMAIN cache' \subseteq alive]_snapshotVars
  <2> SUFFICES ASSUME CacheInv, [Next]_snapshotVars, Served PROVE DOMAIN cache' \subseteq alive
    OBVIOUS
  <2>1. pass.step = "read" /\ ~UNCHANGED cacheVars
    BY ServedByRead
  <2>2. ReadDelta \/ ReadFull
    BY ServedByRead
  <2>3. CASE ReadDelta
    <3> DEFINE delta == SnapshotSince(snapWatermark)
    <3>1. /\ ~pass.full
          /\ cache' = [e \in DOMAIN cache \cup delta |->
                         IF e \in delta THEN graph[e] ELSE cache[e]]
      BY <2>1, <2>3 DEF ReadDelta
    <3>2. delta \subseteq DOMAIN graph
      BY DEF SnapshotSince
    <3> HIDE DEF delta
    <3>3. DOMAIN cache' = DOMAIN cache \cup delta
      BY <3>1, SMT
    <3> QED
      BY <2>1, <3>1, <3>2, <3>3, SMT DEF CacheInv, PassInv
  <2>4. CASE ReadFull
    BY <2>1, <2>4, SMT DEF ReadFull, Rebuilt, CacheInv, PassInv
  <2> QED
    BY <2>2, <2>3, <2>4
<1> QED
  BY <1>1, CacheInvariant, PTL DEF Spec, NoPhantoms

\* The cache holds what was written before the watermark of the last pass,
\* when events are written in the second they were observed.
Fresh ==
  lag = 0 =>
    \A e \in DOMAIN graph : graph[e].seen < snapWatermark
      => e \in DOMAIN cache /\ cache[e].rev = graph[e].rev

\* No watermark is ahead of the clock, so that a write comes after it.
FreshInv ==
  /\ snapWatermark <= now
  /\ pass.watermark <= now
  /\ Fresh

LEMMA FreshStarts == Init => FreshInv
<1> SUFFICES ASSUME Init PROVE FreshInv
  OBVIOUS
<1>1. DOMAIN graph = {} /\ now = 1 /\ snapWatermark = 0 /\ pass.watermark = 0
  BY DEF Init, Idle, Nothing
<1> QED BY <1>1 DEF FreshInv, Fresh

\* A delta brings the cache up to the watermark of its pass.
LEMMA DeltaIsFresh ==
  ASSUME TypeOK, FreshInv, lag = 0, NEW e \in DOMAIN graph,
         cache' = [x \in DOMAIN cache \cup SnapshotSince(snapWatermark) |->
                     IF x \in SnapshotSince(snapWatermark) THEN graph[x] ELSE cache[x]]
  PROVE  e \in DOMAIN cache' /\ cache'[e].rev = graph[e].rev
<1>1. graph[e].seen \in Nat /\ snapWatermark \in Nat
  BY DEF TypeOK, Element
<1>2. CASE graph[e].seen >= snapWatermark
  <2>1. e \in SnapshotSince(snapWatermark)
    BY <1>2 DEF SnapshotSince
  <2> HIDE DEF SnapshotSince
  <2> QED BY <2>1
<1>3. CASE graph[e].seen < snapWatermark
  <2>1. e \in DOMAIN cache /\ cache[e].rev = graph[e].rev
    BY <1>3 DEF FreshInv, Fresh
  <2> QED BY <2>1
<1> QED BY <1>1, <1>2, <1>3

LEMMA FreshSteps == TypeOK /\ FreshInv /\ [Next]_snapshotVars => FreshInv'
<1> SUFFICES ASSUME TypeOK, FreshInv, [Next]_snapshotVars PROVE FreshInv'
  OBVIOUS
<1>0. now \in Nat /\ lag \in Nat /\ snapWatermark \in Nat /\ pass.watermark \in Nat
  BY DEF TypeOK, Pass
<1>1. CASE UNCHANGED snapshotVars
  BY <1>1 DEF snapshotVars, storeVars, cacheVars, FreshInv, Fresh
<1>2. ASSUME NEW e \in Elements, NEW seen \in 1..now, Write(e, seen) PROVE FreshInv'
  <2>1. lag = 0 => seen = now
    BY <1>0, <1>2 DEF Write
  <2>2. /\ DOMAIN graph' = DOMAIN graph \cup {e}
        /\ \A x \in DOMAIN graph' : x # e => graph'[x] = graph[x]
        /\ graph'[e].seen = seen
    BY <1>2 DEF Write
  <2>3. UNCHANGED <<now, lag, snapWatermark, cache, pass>>
    BY <1>2 DEF Write, cacheVars
  <2> QED BY <1>0, <2>1, <2>2, <2>3 DEF FreshInv, Fresh
<1>3. ASSUME NEW gone \in SUBSET DOMAIN graph, RemoveElements(gone) \/ Begin(gone) PROVE FreshInv'
  <2>1. DOMAIN graph' = DOMAIN graph \ gone /\ \A x \in DOMAIN graph' : graph'[x] = graph[x]
    BY <1>3 DEF RemoveElements, Begin, Without, Restrict
  <2>2. UNCHANGED <<now, lag, snapWatermark, cache>>
    BY <1>3 DEF RemoveElements, Begin, cacheVars
  <2>3. pass'.watermark <= now
    <3>1. CASE RemoveElements(gone)
      BY <3>1 DEF RemoveElements, FreshInv
    <3>2. CASE Begin(gone)
      <4>1. pass' = [step |-> "epoch", watermark |-> now, epoch |-> 0, known |-> FALSE,
                     full |-> FullDue(gone # {})]
        BY <3>2 DEF Begin, Idle
      <4>2. pass'.watermark = now
        BY <4>1, Zenon
      <4> QED BY <1>0, <4>2
    <3> QED BY <1>3, <3>1, <3>2
  <2> QED BY <2>1, <2>2, <2>3 DEF FreshInv, Fresh
<1>4. CASE Tick
  BY <1>0, <1>4 DEF Tick, cacheVars, FreshInv, Fresh
<1>5. CASE ReadEpoch
  <2>1. pass'.watermark = pass.watermark
    BY <1>5 DEF ReadEpoch, EpochUnread, TypeOK, Pass
  <2> QED BY <1>5, <2>1 DEF ReadEpoch, storeVars, cacheVars, FreshInv, Fresh
<1>6. CASE ReadDelta
  <2>1. UNCHANGED <<now, lag, graph>>
    BY <1>6 DEF ReadDelta, storeVars
  <2>2. CASE /\ cache' = [x \in DOMAIN cache \cup SnapshotSince(snapWatermark) |->
                            IF x \in SnapshotSince(snapWatermark) THEN graph[x] ELSE cache[x]]
             /\ snapWatermark' = pass.watermark /\ pass' = Idle
    <3>1. pass'.watermark = 0
      BY <2>2 DEF Idle
    <3>2. Fresh'
      <4> SUFFICES ASSUME lag = 0, NEW e \in DOMAIN graph
                   PROVE  e \in DOMAIN cache' /\ cache'[e].rev = graph[e].rev
        BY <2>1 DEF Fresh
      <4> QED BY <2>2, DeltaIsFresh
    <3> QED BY <1>0, <2>1, <2>2, <3>1, <3>2 DEF FreshInv
  <2>3. CASE pass' = [pass EXCEPT !.full = TRUE] /\ UNCHANGED cacheVars
    <3>1. pass'.watermark = pass.watermark
      BY <2>3 DEF TypeOK, Pass
    <3> QED BY <2>1, <2>3, <3>1 DEF cacheVars, FreshInv, Fresh
  <2> QED BY <1>6, <2>2, <2>3 DEF ReadDelta
<1>7. CASE ReadFull
  <2>1. UNCHANGED <<now, lag, graph>> /\ pass'.watermark = 0
    BY <1>7 DEF ReadFull, storeVars, Idle
  <2>2. CASE cache' = Rebuilt /\ snapWatermark' = pass.watermark
    BY <1>0, <2>1, <2>2 DEF Rebuilt, FreshInv, Fresh
  <2>3. CASE UNCHANGED cacheVars
    BY <1>0, <2>1, <2>3 DEF cacheVars, FreshInv, Fresh
  <2> QED BY <1>7, <2>2, <2>3 DEF ReadFull
<1> QED BY <1>1, <1>2, <1>3, <1>4, <1>5, <1>6, <1>7 DEF Next

\* What was written before a pass began is in the snapshot it reasons over, as the graph
\* has it, when events are written in the second they were observed (SnapshotSince).
THEOREM WritesAreServed == Spec => NothingSlipsThrough
<1> DEFINE NoneSlips ==
             Served /\ lag = 0 =>
               \A e \in DOMAIN graph :
                 graph[e].seen < pass.watermark => e \in DOMAIN cache' /\ cache'[e].rev = graph[e].rev
<1>1. TypeOK /\ FreshInv /\ [Next]_snapshotVars => [NoneSlips]_snapshotVars
  <2> SUFFICES ASSUME TypeOK, FreshInv, Next, Served, lag = 0, NEW e \in DOMAIN graph
               PROVE  e \in DOMAIN cache' /\ cache'[e].rev = graph[e].rev
    OBVIOUS
  <2>1. ReadDelta \/ ReadFull
    BY ServedByRead DEF Served
  <2>2. CASE ReadDelta
    <3>1. cache' = [x \in DOMAIN cache \cup SnapshotSince(snapWatermark) |->
                      IF x \in SnapshotSince(snapWatermark) THEN graph[x] ELSE cache[x]]
      BY <2>2 DEF ReadDelta, Served
    <3> QED BY <3>1, DeltaIsFresh
  <2>3. CASE ReadFull
    BY <2>3 DEF ReadFull, Rebuilt, Served
  <2> QED BY <2>1, <2>2, <2>3
<1>2. Spec => []FreshInv
  BY FreshStarts, FreshSteps, CacheTypes, PTL DEF Spec
<1> QED BY <1>1, <1>2, CacheTypes, PTL DEF Spec, NothingSlipsThrough

---------------------------------------------------------------------------
(***************************************************************************)
(* The ledger of the routes commits answer for, for any commits, routes    *)
(* and scores and any sequence of passes and restarts.                     *)
(***************************************************************************)

\* The ledger's own copies of the last pass agree with it.
Mirrored ==
  /\ watched \in BOOLEAN
  /\ DOMAIN commits = current.commits /\ DOMAIN standing = current.commits
  /\ DOMAIN prev = DOMAIN current.paths
  /\ ~watched => current.commits = {} /\ DOMAIN current.paths = {}
  /\ \A k \in DOMAIN current.paths :
       /\ prev[k] = current.paths[k].score
       /\ current.paths[k].score \in Nat \ {0}
       /\ current.paths[k].on \subseteq current.commits

\* What was there before a commit and did not rise since was never put down
\* to it.
StandingIsNobodys ==
  \A c \in DOMAIN commits :
    /\ commits[c].known \in BOOLEAN
    /\ standing[c] \subseteq DOMAIN current.paths
    /\ \A k \in standing[c] : k \notin DOMAIN commits[c].routes

LedgerInv == Mirrored /\ StandingIsNobodys

\* What a pass may be: paths of scores, over the commits of the graph.
Observed(present, paths) ==
  \A k \in DOMAIN paths : paths[k].score \in Nat \ {0} /\ paths[k].on \subseteq present

\* The routes a commit answers for already.
OldRoutes(c) == IF c \in DOMAIN commits THEN commits[c].routes ELSE Empty

\* The routes of a pass that stood before the commit and did not rise.
Stands(c, paths) ==
  {k \in DOMAIN paths \cap
           (IF c \in DOMAIN standing THEN standing[c] ELSE DOMAIN current.paths) :
     paths[k].score <= current.paths[k].score}

\* What the ledger holds on a commit after a pass.
LEMMA PassRecords ==
  ASSUME NEW present, NEW paths, ObservePass(present, paths), NEW c \in present
  PROVE  LET new == Attributed(c, Known(c), OldRoutes(c), paths, present)
         IN /\ c \in DOMAIN commits'
            /\ commits'[c].known = Known(c)
            /\ DOMAIN commits'[c].routes = DOMAIN OldRoutes(c) \cup new
            /\ \A k \in new : commits'[c].routes[k].before = Before(k)
<1> DEFINE new == Attributed(c, Known(c), OldRoutes(c), paths, present)
           kept == [k \in DOMAIN OldRoutes(c) \cup new |->
                      IF k \in new THEN Reason(c, k, paths, present) ELSE OldRoutes(c)[k]]
<1>1. commits'[c] = [known |-> Known(c), routes |-> kept] /\ c \in DOMAIN commits'
  BY DEF ObservePass, KeptCommits, OldRoutes
<1>2. \A k \in new : kept[k].before = Before(k)
  BY DEF Reason
<1> HIDE DEF new, kept
<1>3. DOMAIN kept = DOMAIN OldRoutes(c) \cup new
  BY DEF kept
<1> QED BY <1>1, <1>2, <1>3 DEF new

\* The rest of the state after a pass.
LEMMA PassMoves ==
  ASSUME NEW present, NEW paths, ObservePass(present, paths)
  PROVE  /\ DOMAIN commits' = present /\ DOMAIN standing' = present
         /\ watched' = TRUE
         /\ current'.commits = present /\ current'.paths = paths
         /\ DOMAIN prev' = DOMAIN paths
         /\ \A k \in DOMAIN paths : prev'[k] = paths[k].score
         /\ \A c \in present : standing'[c] = Stands(c, paths)
BY DEF ObservePass, KeptCommits, Scores, Stands

LEMMA ObservePassKeeps ==
  ASSUME LedgerInv, NEW present, NEW paths, Observed(present, paths), ObservePass(present, paths)
  PROVE  LedgerInv'
<1>1. Mirrored'
  BY PassMoves DEF Mirrored, Observed
<1>2. ASSUME NEW c \in present
      PROVE  /\ commits'[c].known \in BOOLEAN
             /\ standing'[c] \subseteq DOMAIN paths
             /\ \A k \in standing'[c] : k \notin DOMAIN commits'[c].routes
  <2> DEFINE new == Attributed(c, Known(c), OldRoutes(c), paths, present)
  <2>0. standing'[c] = Stands(c, paths)
    BY PassMoves
  <2>1. commits'[c].known = Known(c) /\ DOMAIN commits'[c].routes = DOMAIN OldRoutes(c) \cup new
    BY PassRecords
  <2>2. Known(c) \in BOOLEAN
    BY DEF LedgerInv, Mirrored, StandingIsNobodys, Known
  <2>3. standing'[c] \subseteq DOMAIN paths
    BY <2>0 DEF Stands
  <2>4. ASSUME NEW k \in standing'[c]
        PROVE  k \notin DOMAIN OldRoutes(c) /\ k \notin new
    <3>1. /\ k \in DOMAIN paths
          /\ k \in (IF c \in DOMAIN standing THEN standing[c] ELSE DOMAIN current.paths)
          /\ paths[k].score <= current.paths[k].score
      BY <2>0 DEF Stands
    <3>2. k \in DOMAIN prev /\ prev[k] = current.paths[k].score
      BY <3>1 DEF LedgerInv, Mirrored, StandingIsNobodys
    <3>3. k \notin DOMAIN OldRoutes(c)
      BY <3>1 DEF LedgerInv, Mirrored, StandingIsNobodys, OldRoutes, Empty
    <3>4. paths[k].score \in Nat /\ prev[k] \in Nat
      BY <3>1, <3>2 DEF LedgerInv, Mirrored, StandingIsNobodys, Observed
    <3>5. ~ Appeared(k, paths)
      BY <3>1, <3>2, <3>4 DEF Appeared
    <3> QED BY <3>3, <3>5 DEF Attributed
  <2> HIDE DEF new
  <2> QED BY <2>1, <2>2, <2>3, <2>4
<1>3. StandingIsNobodys'
  BY <1>2, PassMoves DEF StandingIsNobodys
<1> QED BY <1>1, <1>3 DEF LedgerInv

LEMMA LedgerStarts == LedgerInit => LedgerInv
<1> SUFFICES ASSUME LedgerInit PROVE LedgerInv
  OBVIOUS
<1>1. /\ current.commits = {} /\ current.paths = Empty
      /\ watched = FALSE /\ prev = Empty /\ commits = Empty /\ standing = Empty
  BY DEF LedgerInit
<1>2. DOMAIN Empty = {}
  BY DEF Empty
<1> QED BY <1>1, <1>2 DEF LedgerInv, Mirrored, StandingIsNobodys

LEMMA LedgerSteps == LedgerInv /\ [LedgerNext]_ledgerVars => LedgerInv'
<1> SUFFICES ASSUME LedgerInv, [LedgerNext]_ledgerVars PROVE LedgerInv'
  OBVIOUS
<1>1. ASSUME NEW present \in SUBSET Commits, NEW ks \in SUBSET PathKeys,
             NEW paths \in [ks -> [score : 1..MaxScore, on : SUBSET present]],
             ObservePass(present, paths)
      PROVE  LedgerInv'
  <2>1. Observed(present, paths)
    BY LedgerAssumption DEF Observed
  <2> QED BY <1>1, <2>1, ObservePassKeeps
<1>2. CASE Restart
  <2>1. /\ current'.commits = {} /\ current'.paths = Empty
        /\ watched' = FALSE /\ prev' = Empty /\ commits' = Empty /\ standing' = Empty
    BY <1>2 DEF Restart
  <2>2. DOMAIN Empty = {}
    BY DEF Empty
  <2> QED BY <2>1, <2>2 DEF LedgerInv, Mirrored, StandingIsNobodys
<1>3. CASE UNCHANGED ledgerVars
  BY <1>3 DEF ledgerVars, LedgerInv, Mirrored, StandingIsNobodys
<1> QED BY <1>1, <1>2, <1>3 DEF LedgerNext

\* The ledger mirrors the last pass, and holds no route against a commit that
\* was there before it and has not risen (ObservePass).
THEOREM LedgerInvariant == LedgerSpec => []LedgerInv
BY LedgerStarts, LedgerSteps, PTL DEF LedgerSpec

\* For a commit that arrives with a pass, the ledger says what the gate says.
LEMMA ArrivalAgrees ==
  ASSUME LedgerInv, NEW present, NEW paths, Observed(present, paths), ObservePass(present, paths),
         watched, NEW c \in present, c \notin DOMAIN commits, NEW k \in DOMAIN paths, c \in paths[k].on
  PROVE  Judge(c, k)' <=> Compare(current.paths, paths, FALSE, k)
<1> DEFINE new == Attributed(c, Known(c), OldRoutes(c), paths, present)
<1>1. /\ c \in DOMAIN commits' /\ commits'[c].known = TRUE
      /\ DOMAIN commits'[c].routes = DOMAIN OldRoutes(c) \cup new
      /\ \A r \in new : commits'[c].routes[r].before = Before(r)
  <2>1. Known(c) = TRUE
    BY DEF Known, LedgerInv, Mirrored
  <2>2. /\ c \in DOMAIN commits' /\ commits'[c].known = Known(c)
        /\ DOMAIN commits'[c].routes = DOMAIN OldRoutes(c) \cup new
        /\ \A r \in new : commits'[c].routes[r].before = Before(r)
    BY PassRecords
  <2> HIDE DEF new
  <2> QED BY <2>1, <2>2
<1>2. DOMAIN OldRoutes(c) = {}
  BY DEF OldRoutes, Empty
<1>3. k \in new <=> Appeared(k, paths)
  BY <1>2 DEF Attributed, Known, Arrived
<1>4. /\ DOMAIN prev = DOMAIN current.paths /\ paths[k].score \in Nat \ {0}
      /\ k \in DOMAIN prev => prev[k] = current.paths[k].score /\ prev[k] \in Nat \ {0}
  BY DEF LedgerInv, Mirrored, Observed
<1>5. Appeared(k, paths) <=> Compare(current.paths, paths, FALSE, k)
  BY <1>4 DEF Appeared, Compare
<1>6. ASSUME k \in new PROVE StillCounts(commits'[c].routes[k], paths[k].score)
  <2>1. commits'[c].routes[k].before = Before(k) /\ Appeared(k, paths)
    BY <1>1, <1>3, <1>6
  <2> HIDE DEF new
  <2> QED BY <1>4, <2>1 DEF StillCounts, Before, Appeared
<1> HIDE DEF new
<1>7. current'.paths = paths
  BY PassMoves
<1>8. Judge(c, k)' <=> k \in new
  BY <1>1, <1>2, <1>6, <1>7 DEF Judge, StillCounts
<1> QED BY <1>3, <1>5, <1>8

\* A route that is new to the graph counts against everybody who arrived with
\* it, or else everybody on it.
LEMMA NewRouteCounts ==
  ASSUME LedgerInv, NEW present, NEW paths, Observed(present, paths), ObservePass(present, paths),
         watched, NEW k \in DOMAIN paths \ DOMAIN current.paths, NEW c \in paths[k].on,
         c \notin DOMAIN commits \/ paths[k].on \subseteq DOMAIN commits
  PROVE  Judge(c, k)' \/ (c \in DOMAIN commits /\ k \in DOMAIN commits[c].routes)
<1> DEFINE new == Attributed(c, Known(c), OldRoutes(c), paths, present)
<1>0. c \in present
  BY DEF Observed
<1>1. /\ c \in DOMAIN commits' /\ commits'[c].known = Known(c)
      /\ DOMAIN commits'[c].routes = DOMAIN OldRoutes(c) \cup new
      /\ \A r \in new : commits'[c].routes[r].before = Before(r)
  BY <1>0, PassRecords
<1>2. k \notin DOMAIN prev
  BY DEF LedgerInv, Mirrored
<1>3. CASE ~Known(c)
  BY <1>1, <1>3 DEF Judge
<1>4. CASE c \in DOMAIN commits /\ k \in DOMAIN commits[c].routes
  BY <1>4
<1>5. CASE Known(c) /\ ~(c \in DOMAIN commits /\ k \in DOMAIN commits[c].routes)
  <2>1. k \notin DOMAIN OldRoutes(c)
    BY <1>5 DEF OldRoutes, Empty
  <2>2. c \in Arrived(present) \/ NoNewcomers(k, paths, present)
    BY <1>0 DEF Arrived, NoNewcomers
  <2>3. k \in new
    BY <1>2, <1>5, <2>1, <2>2 DEF Attributed, Appeared
  <2>4. commits'[c].routes[k].before = 0
    BY <1>1, <1>2, <2>3 DEF Before
  <2> HIDE DEF new
  <2> QED BY <1>1, <2>3, <2>4 DEF Judge, StillCounts
<1> QED BY <1>3, <1>4, <1>5

\* What a pull request is told of the routes through it is fair, for every graph and
\* history: nothing that stood before it is held against it, an arriving commit is judged
\* as the gate would, and no new route is nobody's (LedgerIsFair).
THEOREM LedgerStaysFair == LedgerSpec => LedgerIsFair
<1>1. LedgerInv => PreexistingNeverCounts
  BY DEF LedgerInv, StandingIsNobodys, PreexistingNeverCounts, Judge
<1> DEFINE Agrees ==
             watched /\ watched' =>
               \A c \in DOMAIN commits' \ DOMAIN commits : \A k \in DOMAIN current'.paths :
                 c \in current'.paths[k].on
                   => (Judge(c, k)' <=> Compare(current.paths, current'.paths, FALSE, k))
           Counts ==
             watched /\ watched' =>
               \A k \in DOMAIN current'.paths \ DOMAIN current.paths :
                 \A c \in current'.paths[k].on :
                   c \notin DOMAIN commits \/ current'.paths[k].on \subseteq DOMAIN commits
                     => Judge(c, k)' \/ (c \in DOMAIN commits /\ k \in DOMAIN commits[c].routes)
<1>2. LedgerInv /\ [LedgerNext]_ledgerVars => [Agrees]_ledgerVars /\ [Counts]_ledgerVars
  <2> SUFFICES ASSUME LedgerInv, LedgerNext PROVE Agrees /\ Counts
    OBVIOUS
  <2>1. ASSUME NEW present \in SUBSET Commits, NEW ks \in SUBSET PathKeys,
               NEW paths \in [ks -> [score : 1..MaxScore, on : SUBSET present]],
               ObservePass(present, paths)
        PROVE  Agrees /\ Counts
    <3>1. Observed(present, paths)
      BY LedgerAssumption DEF Observed
    <3>2. current'.paths = paths /\ DOMAIN commits' = present
      BY <2>1, PassMoves
    <3>3. Agrees
      BY <2>1, <3>1, <3>2, ArrivalAgrees
    <3>4. Counts
      BY <2>1, <3>1, <3>2, NewRouteCounts
    <3> QED BY <3>3, <3>4
  <2>2. CASE Restart
    BY <2>2 DEF Restart
  <2> QED BY <2>1, <2>2 DEF LedgerNext
<1> QED BY <1>1, <1>2, LedgerInvariant, PTL DEF LedgerSpec, LedgerIsFair, AgreesWithGate, NewRoutesCount

---------------------------------------------------------------------------
(***************************************************************************)
(* The heap, for every set of distances and every number of items.  A sift *)
(* is a recursion over the turns of its loop, so the argument starts from  *)
(* an induction over the naturals.                                         *)
(***************************************************************************)

\* How many numbers there are from none to k.
LEMMA UpTo ==
  ASSUME NEW k \in Int, k >= 0 - 1
  PROVE  IsFiniteSet(0..k) /\ Cardinality(0..k) = k + 1
<1>1. IsFiniteSet(0..k) /\ Cardinality(0..k) = IF 0 > k THEN 0 ELSE k - 0 + 1
  BY FS_Interval
<1> QED BY <1>1

\* Induction over the naturals, for a set: what the recursions need.
LEMMA NatSetInduction ==
  ASSUME NEW S, 0 \in S, \A n \in Nat : n \in S => n + 1 \in S
  PROVE  Nat \subseteq S
<1> SUFFICES ASSUME NEW N \in Nat, N \notin S PROVE FALSE
  OBVIOUS
<1> DEFINE Good == {n \in 0..N : \A m \in 0..n : m \in S}
           c == Cardinality(Good)
<1>1. IsFiniteSet(Good) /\ c \in Nat
  <2>1. IsFiniteSet(0..N)
    BY FS_Interval
  <2>2. Good \in SUBSET (0..N)
    OBVIOUS
  <2>3. IsFiniteSet(Good)
    BY <2>1, <2>2, FS_Subset
  <2> QED BY <2>3, FS_CardinalityType
<1>2. \A n \in Good : 0..n \subseteq Good
  OBVIOUS
<1>3. \A n \in Good : n + 1 <= c
  <2> TAKE n \in Good
  <2>1. n \in Nat /\ 0..n \in SUBSET Good
    BY <1>2
  <2>2. Cardinality(0..n) = n + 1
    BY <2>1, FS_Interval
  <2>3. Cardinality(0..n) <= c
    BY <2>1, <1>1, FS_Subset
  <2> QED BY <2>2, <2>3
<1>4. 0 \in Good
  OBVIOUS
<1>5. c - 1 \in Good
  <2> SUFFICES ASSUME c - 1 \notin Good PROVE FALSE
    OBVIOUS
  <2>0. c >= 1
    BY <1>1, <1>3, <1>4
  <2>1. Good \in SUBSET (0..(c - 2))
    <3> SUFFICES ASSUME NEW n \in Good PROVE n \in 0..(c-2)
      OBVIOUS
    <3>1. n \in Nat /\ n + 1 <= c /\ n # c - 1
      BY <1>3
    <3> HIDE DEF c
    <3> QED BY <3>1, <1>1
  <2>2. IsFiniteSet(0..(c-2)) /\ Cardinality(0..(c-2)) = c - 1
    <3> HIDE DEF c
    <3>1. c - 2 \in Int /\ c - 2 >= 0 - 1 /\ (c - 2) + 1 = c - 1
      BY <2>0, <1>1
    <3> QED BY <3>1, UpTo
  <2>3. c <= c - 1
    <3>1. Cardinality(Good) <= Cardinality(0..(c-2))
      BY <2>1, <2>2, FS_Subset
    <3> QED BY <3>1, <2>2
  <2> HIDE DEF c
  <2> QED BY <2>3, <1>1
<1>6. c \in Nat /\ c <= N /\ c \in S /\ \A m \in 0..(c - 1) : m \in S
  <2>1. c - 1 \in 0..N /\ \A m \in 0..(c - 1) : m \in S
    BY <1>5
  <2>2. c - 1 \in S /\ c - 1 \in Nat
    <3> HIDE DEF c
    <3> QED BY <2>1, <1>1
  <2>3. c \in S
    <3>1. (c - 1) + 1 \in S
      BY <2>2
    <3> HIDE DEF c
    <3> QED BY <3>1, <1>1
  <2>4. c - 1 # N
    BY <2>2
  <2> HIDE DEF c
  <2> QED BY <2>1, <2>3, <2>4, <1>1
<1>7. c \in Good
  <2>1. \A m \in 0..c : m \in S
    <3> HIDE DEF c
    <3> QED BY <1>6
  <2> QED BY <2>1, <1>6
<1> HIDE DEF c, Good
<1> QED BY <1>1, <1>3, <1>7

\* A loop of k turns, from s, whose turns are f.
Iterates(g, f, s, k) == g = [i \in 0..k |-> IF i = 0 THEN s ELSE f[g[i - 1]]]

\* The recursion of a loop has a solution, and stays where a turn stays.
LEMMA LoopRuns ==
  ASSUME NEW D, NEW f, \A d \in D : f[d] \in D, NEW s \in D, NEW k \in Nat
  PROVE  /\ \E g : Iterates(g, f, s, k)
         /\ \A g : Iterates(g, f, s, k) => g \in [0..k -> D]
<1> DEFINE S == {m \in Nat : \E g : Iterates(g, f, s, m)}
<1>1. 0 \in S
  <2>1. PICK g : g = [i \in 0..0 |-> s]
    OBVIOUS
  <2>2. g = [i \in 0..0 |-> IF i = 0 THEN s ELSE f[g[i - 1]]]
    BY <2>1
  <2> QED
    BY <2>2 DEF Iterates
<1>2. ASSUME NEW m \in Nat, m \in S
      PROVE  m + 1 \in S
  <2>1. PICK g : Iterates(g, f, s, m)
    BY <1>2
  <2>2. PICK h : h = [i \in 0..(m + 1) |-> IF i <= m THEN g[i] ELSE f[g[m]]]
    OBVIOUS
  <2>3. \A i \in 0..m : g[i] = IF i = 0 THEN s ELSE f[g[i - 1]]
    BY <2>1 DEF Iterates
  <2>4. \A i \in 0..(m + 1) : h[i] = IF i = 0 THEN s ELSE f[h[i - 1]]
    <3> TAKE i \in 0..(m + 1)
    <3>1. CASE i = 0
      BY <2>2, <2>3, <3>1
    <3>2. CASE i \in 1..m
      <4>1. i - 1 \in 0..m /\ h[i - 1] = g[i - 1] /\ h[i] = g[i] /\ i \in 0..m
        BY <2>2, <3>2
      <4> QED
        BY <2>3, <3>2, <4>1
    <3>3. CASE i = m + 1
      <4>1. h[i - 1] = g[m] /\ h[i] = f[g[m]]
        BY <2>2, <3>3
      <4> QED
        BY <3>3, <4>1
    <3> QED
      BY <3>1, <3>2, <3>3
  <2>5. h = [i \in 0..(m + 1) |-> IF i = 0 THEN s ELSE f[h[i - 1]]]
    BY <2>2, <2>4
  <2> QED
    BY <2>5 DEF Iterates
<1>3. k \in S
  <2> HIDE DEF S
  <2> QED
    BY <1>1, <1>2, NatSetInduction
<1>4. ASSUME NEW g, Iterates(g, f, s, k)
      PROVE  g \in [0..k -> D]
  <2> DEFINE T == {i \in Nat : i <= k => g[i] \in D}
  <2>1. g = [i \in 0..k |-> IF i = 0 THEN s ELSE f[g[i - 1]]]
    BY <1>4 DEF Iterates
  <2>2. \A i \in 0..k : g[i] = IF i = 0 THEN s ELSE f[g[i - 1]]
    BY <2>1
  <2>3. 0 \in T
    BY <2>2
  <2>4. ASSUME NEW i \in Nat, i \in T
        PROVE  i + 1 \in T
    <3> SUFFICES ASSUME i + 1 <= k
                 PROVE  g[i + 1] \in D
      OBVIOUS
    <3>1. i + 1 \in 0..k /\ (i + 1) - 1 = i /\ i + 1 # 0 /\ i <= k
      OBVIOUS
    <3>2. g[i + 1] = f[g[i]]
      BY <2>2, <3>1
    <3> QED
      BY <2>4, <3>1, <3>2
  <2>5. Nat \subseteq T
    <3> HIDE DEF T
    <3> QED
      BY <2>3, <2>4, NatSetInduction
  <2>6. \A i \in 0..k : g[i] \in D
    BY <2>5
  <2>7. DOMAIN g = 0..k /\ g = [i \in DOMAIN g |-> g[i]]
    BY <2>1
  <2> QED
    BY <2>6, <2>7
<1> QED
  BY <1>3, <1>4

\* A loop whose every turn brings it nearer to where it stays is there after so many turns.
LEMMA LoopSettles ==
  ASSUME NEW D, NEW f, \A d \in D : f[d] \in D, NEW s \in D, NEW k \in Nat,
         NEW rank, \A d \in D : rank[d] \in 0..k,
         \A d \in D : f[d] = d \/ rank[f[d]] < rank[d],
         NEW g, Iterates(g, f, s, k)
  PROVE  g[k] \in D /\ f[g[k]] = g[k]
<1>1. g \in [0..k -> D]
  BY LoopRuns
<1>2. \A i \in 0..k : g[i] = IF i = 0 THEN s ELSE f[g[i - 1]]
  BY DEF Iterates
<1> DEFINE T == {i \in Nat : i <= k => f[g[i]] = g[i] \/ rank[g[i]] <= k - i}
<1>3. 0 \in T
  BY <1>1
<1>4. ASSUME NEW i \in Nat, i \in T
      PROVE  i + 1 \in T
  <2> SUFFICES ASSUME i + 1 <= k
               PROVE  f[g[i + 1]] = g[i + 1] \/ rank[g[i + 1]] <= k - (i + 1)
    OBVIOUS
  <2>1. i \in 0..k /\ i + 1 \in 0..k /\ (i + 1) - 1 = i /\ i + 1 # 0 /\ i <= k
    OBVIOUS
  <2>2. g[i + 1] = f[g[i]] /\ g[i] \in D /\ g[i + 1] \in D
    BY <1>1, <1>2, <2>1
  <2>3. CASE f[g[i]] = g[i]
    BY <2>2, <2>3
  <2>4. CASE f[g[i]] # g[i]
    <3>1. rank[g[i]] <= k - i /\ rank[g[i + 1]] < rank[g[i]]
      BY <1>4, <2>1, <2>2, <2>4
    <3>2. rank[g[i]] \in Int /\ rank[g[i + 1]] \in Int
      BY <2>2
    <3> QED
      BY <3>1, <3>2
  <2> QED
    BY <2>3, <2>4
<1>5. Nat \subseteq T
  <2> HIDE DEF T
  <2> QED
    BY <1>3, <1>4, NatSetInduction
<1>6. k \in 0..k /\ g[k] \in D /\ f[g[k]] \in D
  BY <1>1
<1>7. f[g[k]] = g[k] \/ rank[g[k]] <= 0
  BY <1>5
<1>8. rank[g[k]] \in Nat /\ rank[f[g[k]]] \in Nat
  BY <1>6
<1> QED
  BY <1>6, <1>7, <1>8

---------------------------------------------------------------------------

\* How often a distance is in an array; and no item is less than its parent.
Count(a, key) == Cardinality({m \in DOMAIN a : a[m] = key})
Ordered(a) == \A m \in 2..Len(a) : a[Parent(m)] <= a[m]

LEMMA Halves ==
  \A m \in Nat : m > 1 => /\ Parent(m) \in Nat /\ Parent(m) >= 1 /\ Parent(m) < m
                          /\ (m = 2 * Parent(m) \/ m = 2 * Parent(m) + 1)
BY DEF Parent

LEMMA Doubles == \A m \in Nat : Parent(2 * m) = m /\ Parent(2 * m + 1) = m
BY DEF Parent

LEMMA ArraysAreFinite ==
  ASSUME NEW a \in Seq(Distances), NEW key
  PROVE  /\ DOMAIN a = 1..Len(a) /\ Len(a) \in Nat
         /\ IsFiniteSet({m \in DOMAIN a : a[m] = key})
         /\ Count(a, key) \in Nat
<1>1. DOMAIN a = 1..Len(a) /\ Len(a) \in Nat
  OBVIOUS
<1>2. IsFiniteSet(1..Len(a))
  BY <1>1, FS_Interval
<1>3. {m \in DOMAIN a : a[m] = key} \in SUBSET (1..Len(a))
  BY <1>1
<1>4. IsFiniteSet({m \in DOMAIN a : a[m] = key})
  BY <1>2, <1>3, FS_Subset
<1> QED
  BY <1>1, <1>4, FS_CardinalityType DEF Count

LEMMA SwapMoves ==
  ASSUME NEW a \in Seq(Distances), NEW i \in 1..Len(a), NEW j \in 1..Len(a), i # j
  PROVE  /\ Swapped(a, i, j) \in Seq(Distances) /\ Len(Swapped(a, i, j)) = Len(a)
         /\ Swapped(a, i, j)[i] = a[j] /\ Swapped(a, i, j)[j] = a[i]
         /\ \A m \in 1..Len(a) : m # i /\ m # j => Swapped(a, i, j)[m] = a[m]
BY DEF Swapped

\* A swap loses and repeats nothing.
LEMMA SwapKeeps ==
  ASSUME NEW a \in Seq(Distances), NEW i \in 1..Len(a), NEW j \in 1..Len(a), i # j
  PROVE  \A key : Count(Swapped(a, i, j), key) = Count(a, key)
<1> TAKE key
<1> DEFINE b == Swapped(a, i, j)
           S == {m \in DOMAIN a : a[m] = key}
           T == {m \in DOMAIN b : b[m] = key}
           f == [m \in S |-> IF m = i THEN j ELSE IF m = j THEN i ELSE m]
<1>1. /\ b \in Seq(Distances) /\ Len(b) = Len(a) /\ b[i] = a[j] /\ b[j] = a[i]
      /\ \A m \in 1..Len(a) : m # i /\ m # j => b[m] = a[m]
  BY SwapMoves
<1>2. DOMAIN a = 1..Len(a) /\ DOMAIN b = 1..Len(a)
  BY <1>1
<1> HIDE DEF b
<1>3. f \in [S -> T] /\ \A m, n \in S : f[m] = f[n] => m = n
  BY <1>1, <1>2
<1>4. \A n \in T : \E m \in S : f[m] = n
  <2> TAKE n \in T
  <2>1. CASE n = i
    BY <1>1, <1>2, <2>1
  <2>2. CASE n = j
    BY <1>1, <1>2, <2>2
  <2>3. CASE n # i /\ n # j
    BY <1>1, <1>2, <2>3
  <2> QED
    BY <2>1, <2>2, <2>3
<1>5. ExistsBijection(S, T)
  <2> HIDE DEF f, S, T
  <2>1. f \in Bijection(S, T)
    BY <1>3, <1>4, Fun_IsBij
  <2> QED
    BY <2>1 DEF ExistsBijection
<1>6. IsFiniteSet(S)
  BY ArraysAreFinite
<1>7. Cardinality(T) = Cardinality(S)
  <2> HIDE DEF S, T
  <2> QED
    BY <1>5, <1>6, FS_Bijection
<1> QED
  BY <1>7 DEF Count, b

\* In an ordered array the root is the least.
LEMMA RootIsLeast ==
  ASSUME NEW a \in Seq(Distances), Ordered(a)
  PROVE  \A i \in 1..Len(a) : a[1] <= a[i]
<1> DEFINE S == {n \in Nat : \A i \in 1..Len(a) : i <= n => a[1] <= a[i]}
<1>0. \A i \in 1..Len(a) : a[i] \in Nat
  <2>1. \A i \in 1..Len(a) : a[i] \in Distances
    OBVIOUS
  <2> QED
    BY <2>1, HeapAssumption
<1>1. 0 \in S
  OBVIOUS
<1>2. ASSUME NEW n \in Nat, n \in S
      PROVE  n + 1 \in S
  <2> SUFFICES ASSUME NEW i \in 1..Len(a), i = n + 1
               PROVE  a[1] <= a[i]
    BY <1>2
  <2>1. CASE i = 1
    BY <1>0, <2>1
  <2>2. CASE i > 1
    <3>1. Parent(i) \in 1..Len(a) /\ Parent(i) <= n
      BY <2>2, Halves
    <3>2. a[1] <= a[Parent(i)] /\ a[Parent(i)] <= a[i]
      BY <1>2, <2>2, <3>1 DEF Ordered
    <3>3. 1 \in 1..Len(a)
      BY <2>2
    <3> QED
      BY <1>0, <3>1, <3>2, <3>3
  <2> QED
    BY <2>1, <2>2
<1>3. Nat \subseteq S
  <2> HIDE DEF S
  <2> QED
    BY <1>1, <1>2, NatSetInduction
<1> QED
  BY <1>3

---------------------------------------------------------------------------

\* The arrays of n items that hold what h holds, and where push's loop is in them: the
\* item there may be less than its parent, but no other is, nor its children than that.
Rising(h, n) ==
  {s \in Sifting :
     /\ Len(s.items) = n /\ s.at \in 1..n
     /\ \A key \in Distances : Count(s.items, key) = Count(h, key)
     /\ \A m \in 2..n : m # s.at => s.items[Parent(m)] <= s.items[m]
     /\ \A m \in 2..n : Parent(m) = s.at /\ s.at > 1 => s.items[Parent(s.at)] <= s.items[m]}

\* The same for pop's loop, where the item may be greater than its children.
Sinking(h, n) ==
  {s \in Sifting :
     /\ Len(s.items) = n /\ s.at \in 1..n
     /\ \A key \in Distances : Count(s.items, key) = Count(h, key)
     /\ \A m \in 2..n : Parent(m) # s.at => s.items[Parent(m)] <= s.items[m]
     /\ \A m \in 2..n : Parent(m) = s.at /\ s.at > 1 => s.items[Parent(s.at)] <= s.items[m]}

\* A turn of push's loop keeps to that, and ends higher up unless all is in order.
LEMMA RiseKeeps ==
  ASSUME NEW h, NEW n \in Nat, NEW s \in Rising(h, n)
  PROVE  /\ Rise[s] \in Rising(h, n)
         /\ Rise[s] = s \/ Rise[s].at < s.at
         /\ Rise[s] = s => Ordered(s.items)
<1> DEFINE i == s.at
           p == Parent(s.at)
           a == s.items
           b == Swapped(a, p, i)
<1>1. /\ s \in Sifting /\ a \in Seq(Distances) /\ Len(a) = n /\ i \in 1..n
      /\ \A key \in Distances : Count(a, key) = Count(h, key)
      /\ \A m \in 2..n : m # i => a[Parent(m)] <= a[m]
      /\ \A m \in 2..n : Parent(m) = i /\ i > 1 => a[p] <= a[m]
  BY DEF Rising, Sifting
<1>2. \A m \in 1..n : a[m] \in Nat
  <2>1. \A m \in 1..n : a[m] \in Distances
    BY <1>1
  <2> QED
    BY <2>1, HeapAssumption
<1>3. Rise[s] = IF i = 1 \/ ~(a[i] < a[p]) THEN s ELSE [at |-> p, items |-> b]
  BY <1>1 DEF Rise
<1>4. CASE i = 1 \/ ~(a[i] < a[p])
  <2>1. Rise[s] = s
    BY <1>3, <1>4
  <2>2. ASSUME NEW m \in 2..n
        PROVE  a[Parent(m)] <= a[m]
    <3>1. CASE m # i
      BY <1>1, <3>1
    <3>2. CASE m = i
      <4>1. p \in 1..n /\ i # 1
        BY <1>1, <3>2, Halves
      <4> QED
        BY <1>1, <1>2, <1>4, <3>2, <4>1
    <3> QED
      BY <3>1, <3>2
  <2> QED
    BY <1>1, <2>1, <2>2 DEF Ordered
<1>5. CASE i # 1 /\ a[i] < a[p]
  <2>1. p \in 1..n /\ p < i /\ p # i
    BY <1>1, <1>5, Halves
  <2>2. /\ b \in Seq(Distances) /\ Len(b) = n /\ b[p] = a[i] /\ b[i] = a[p]
        /\ \A m \in 1..n : m # p /\ m # i => b[m] = a[m]
    BY <1>1, <2>1, SwapMoves
  <2>3. \A key \in Distances : Count(b, key) = Count(h, key)
    BY <1>1, <2>1, SwapKeeps
  <2>4. Rise[s] = [at |-> p, items |-> b]
    BY <1>3, <1>5
  <2> HIDE DEF b
  <2>5. ASSUME NEW m \in 2..n, m # p
        PROVE  b[Parent(m)] <= b[m]
    <3>1. Parent(m) \in 1..n /\ Parent(m) < m
      BY Halves
    <3>2. CASE m = i
      BY <1>2, <1>5, <2>1, <2>2, <3>2
    <3>3. CASE m # i /\ Parent(m) = i
      BY <1>1, <1>5, <2>1, <2>2, <2>5, <3>3
    <3>4. CASE m # i /\ Parent(m) = p
      <4>1. a[p] <= a[m] /\ a[i] \in Nat /\ a[p] \in Nat /\ a[m] \in Nat
        BY <1>1, <1>2, <2>1, <3>4
      <4> QED
        BY <1>5, <2>2, <2>5, <3>4, <4>1
    <3>5. CASE m # i /\ Parent(m) # i /\ Parent(m) # p
      BY <1>1, <2>2, <2>5, <3>1, <3>5
    <3> QED
      BY <3>2, <3>3, <3>4, <3>5
  <2>6. ASSUME NEW m \in 2..n, Parent(m) = p, p > 1
        PROVE  b[Parent(p)] <= b[m]
    <3>1. Parent(p) \in 1..n /\ Parent(p) < p
      BY <2>1, <2>6, Halves
    <3>2. b[Parent(p)] = a[Parent(p)] /\ a[Parent(p)] <= a[p]
      BY <1>1, <2>1, <2>2, <2>6, <3>1
    <3>3. CASE m = i
      BY <2>2, <3>2, <3>3
    <3>4. CASE m # i
      <4>1. a[p] <= a[m] /\ a[p] \in Nat /\ a[m] \in Nat /\ a[Parent(p)] \in Nat
        BY <1>1, <1>2, <2>1, <2>6, <3>1, <3>4
      <4>2. m # p
        BY <2>1, <2>6, Halves
      <4> QED
        BY <2>2, <3>2, <3>4, <4>1, <4>2
    <3> QED
      BY <3>3, <3>4
  <2>7. Rise[s] \in Rising(h, n)
    <3>1. [at |-> p, items |-> b] \in Sifting
      BY <2>1, <2>2 DEF Sifting
    <3> QED
      BY <2>1, <2>2, <2>3, <2>4, <2>5, <2>6, <3>1 DEF Rising
  <2> QED
    BY <2>1, <2>4, <2>7
<1> QED
  BY <1>4, <1>5

\* A pushed item ends where it is in order with its parent, and all others with theirs.
LEMMA SiftUpOrders ==
  ASSUME NEW h \in Seq(Distances), Len(h) > 0, \A m \in 2..(Len(h) - 1) : h[Parent(m)] <= h[m]
  PROVE  /\ SiftUp(h) \in Seq(Distances) /\ Ordered(SiftUp(h))
         /\ \A key \in Distances : Count(SiftUp(h), key) = Count(h, key)
<1> DEFINE n == Len(h)
           s == [at |-> n, items |-> h]
           D == Rising(h, n)
           rank == [d \in D |-> d.at]
           g == CHOOSE x : x = [i \in 0..Len(h) |-> IF i = 0 THEN [at |-> Len(h), items |-> h] ELSE Rise[x[i - 1]]]
<1>1. n \in Nat /\ n \in 1..n
  OBVIOUS
<1>2. s \in D
  <2>1. s \in Sifting
    BY <1>1 DEF Sifting
  <2>2. \A m \in 2..n : m # n => h[Parent(m)] <= h[m]
    OBVIOUS
  <2>3. \A m \in 2..n : Parent(m) # n
    BY <1>1, Halves
  <2> QED
    BY <1>1, <2>1, <2>2, <2>3 DEF Rising
<1>3. \A d \in D : Rise[d] \in D
  BY <1>1, RiseKeeps
<1>4. \A d \in D : d.at \in 0..n
  BY DEF Rising
<1>5. \A d \in D : Rise[d] = d \/ rank[Rise[d]] < rank[d]
  BY <1>1, <1>3, RiseKeeps
<1>6. SiftUp(h) = g[Len(h)].items
  BY Zenon DEF SiftUp
<1> HIDE DEF D
<1>7. \E x : Iterates(x, Rise, s, n)
  BY <1>1, <1>2, <1>3, LoopRuns
<1>8. Iterates(g, Rise, s, n)
  BY <1>7 DEF Iterates
<1> HIDE DEF g
<1>9. \A d \in D : rank[d] \in 0..n
  BY <1>4
<1> HIDE DEF rank, s
<1>10. g[n] \in D /\ Rise[g[n]] = g[n]
  BY <1>1, <1>2, <1>3, <1>5, <1>8, <1>9, LoopSettles
<1>11. Ordered(g[n].items)
  BY <1>1, <1>10, RiseKeeps DEF D
<1>12. g[n].items \in Seq(Distances) /\ \A key \in Distances : Count(g[n].items, key) = Count(h, key)
  BY <1>10 DEF D, Rising, Sifting
<1> QED
  BY <1>6, <1>11, <1>12

\* A turn of pop's loop keeps to that, and ends further down unless all is in order.
LEMMA SinkKeeps ==
  ASSUME NEW h, NEW n \in Nat, NEW s \in Sinking(h, n)
  PROVE  /\ Sink[s] \in Sinking(h, n)
         /\ Sink[s] = s \/ Sink[s].at > s.at
         /\ Sink[s] = s => Ordered(s.items)
<1> DEFINE i == s.at
           a == s.items
           c == LesserChild(a, i)
           b == Swapped(a, i, c)
<1>1. /\ s \in Sifting /\ a \in Seq(Distances) /\ Len(a) = n /\ i \in 1..n
      /\ \A key \in Distances : Count(a, key) = Count(h, key)
      /\ \A m \in 2..n : Parent(m) # i => a[Parent(m)] <= a[m]
      /\ \A m \in 2..n : Parent(m) = i /\ i > 1 => a[Parent(i)] <= a[m]
  BY DEF Sinking, Sifting
<1>2. \A m \in 1..n : a[m] \in Nat
  <2>1. \A m \in 1..n : a[m] \in Distances
    BY <1>1
  <2> QED
    BY <2>1, HeapAssumption
<1>3. Sink[s] = IF 2 * i > n \/ ~(a[c] < a[i]) THEN s ELSE [at |-> c, items |-> b]
  BY <1>1 DEF Sink
<1>4. ASSUME 2 * i <= n
      PROVE  /\ c \in 2..n /\ c > i /\ Parent(c) = i
             /\ \A m \in 2..n : Parent(m) = i => a[c] <= a[m]
  <2>1. 2 * i \in 2..n /\ Parent(2 * i) = i /\ Parent(2 * i + 1) = i
    <3>1. i \in Nat /\ i >= 1
      BY <1>1
    <3>2. Parent(2 * i) = i /\ Parent(2 * i + 1) = i
      BY <3>1, Doubles
    <3> HIDE DEF i
    <3>3. 2 * i \in 2..n
      BY <1>4, <3>1
    <3> QED
      BY <3>2, <3>3
  <2>2. \A m \in 2..n : Parent(m) = i => m = 2 * i \/ m = 2 * i + 1
    <3>1. \A m \in 2..n : m \in Nat /\ m > 1
      OBVIOUS
    <3> QED
      BY <3>1, Halves
  <2> HIDE DEF i, a
  <2>3. CASE 2 * i + 1 <= n /\ a[2 * i + 1] < a[2 * i]
    <3>1. c = 2 * i + 1
      BY <1>1, <2>3 DEF LesserChild
    <3>2. 2 * i + 1 \in 2..n /\ 2 * i + 1 > i /\ i \in Nat
      BY <1>1, <2>1, <2>3
    <3>3. a[2 * i + 1] \in Nat /\ a[2 * i] \in Nat
      BY <1>2, <2>1, <3>2
    <3>4. \A m \in 2..n : Parent(m) = i => a[2 * i + 1] <= a[m]
      <4> TAKE m \in 2..n
      <4> HAVE Parent(m) = i
      <4>1. CASE m = 2 * i
        BY <2>3, <3>3, <4>1
      <4>2. CASE m = 2 * i + 1
        BY <3>3, <4>2
      <4> QED
        BY <2>2, <4>1, <4>2
    <3> HIDE DEF c
    <3> QED
      BY <2>1, <3>1, <3>2, <3>4
  <2>4. CASE ~(2 * i + 1 <= n /\ a[2 * i + 1] < a[2 * i])
    <3>1. c = 2 * i
      BY <1>1, <2>4 DEF LesserChild
    <3>2. \A m \in 2..n : Parent(m) = i => a[2 * i] <= a[m]
      <4> TAKE m \in 2..n
      <4> HAVE Parent(m) = i
      <4>1. a[m] \in Nat /\ a[2 * i] \in Nat
        BY <1>2, <2>1
      <4> QED
        BY <2>2, <2>4, <4>1
    <3> QED
      BY <1>1, <2>1, <3>1, <3>2
  <2> QED
    BY <2>3, <2>4
<1> HIDE DEF c
<1>5. CASE 2 * i > n \/ ~(a[c] < a[i])
  <2>1. Sink[s] = s
    BY <1>3, <1>5
  <2>2. ASSUME NEW m \in 2..n
        PROVE  a[Parent(m)] <= a[m]
    <3>1. CASE Parent(m) # i
      BY <1>1, <3>1
    <3>2. CASE Parent(m) = i
      <4>1. 2 * i <= n
        <5>1. m \in Nat /\ m > 1 /\ m <= n
          BY <1>1
        <5>2. m = 2 * i \/ m = 2 * i + 1
          BY <3>2, <5>1, Halves
        <5>3. i \in Nat
          BY <1>1
        <5> HIDE DEF i
        <5> QED
          BY <5>1, <5>2, <5>3
      <4>2. a[c] <= a[m] /\ a[c] \in Nat /\ a[i] \in Nat /\ a[m] \in Nat
        BY <1>1, <1>2, <1>4, <3>2, <4>1
      <4> QED
        BY <1>1, <1>5, <3>2, <4>1, <4>2
    <3> QED
      BY <3>1, <3>2
  <2> QED
    BY <1>1, <2>1, <2>2 DEF Ordered
<1>6. CASE 2 * i <= n /\ a[c] < a[i]
  <2>1. /\ c \in 2..n /\ c \in 1..n /\ c > i /\ c # i /\ Parent(c) = i
        /\ \A m \in 2..n : Parent(m) = i => a[c] <= a[m]
    BY <1>1, <1>4, <1>6
  <2>2. /\ b \in Seq(Distances) /\ Len(b) = n /\ b[i] = a[c] /\ b[c] = a[i]
        /\ \A m \in 1..n : m # i /\ m # c => b[m] = a[m]
    BY <1>1, <2>1, SwapMoves
  <2>3. \A key \in Distances : Count(b, key) = Count(h, key)
    BY <1>1, <2>1, SwapKeeps
  <2>4. Sink[s] = [at |-> c, items |-> b]
    BY <1>1, <1>3, <1>6
  <2> HIDE DEF b
  <2>5. ASSUME NEW m \in 2..n, Parent(m) # c
        PROVE  b[Parent(m)] <= b[m]
    <3>1. Parent(m) \in 1..n /\ Parent(m) < m
      BY Halves
    <3>2. CASE m = c
      BY <1>1, <1>2, <1>6, <2>1, <2>2, <3>2
    <3>3. CASE m # c /\ Parent(m) = i
      BY <1>1, <2>1, <2>2, <3>1, <3>3
    <3>4. CASE m # c /\ Parent(m) # i /\ m = i
      BY <1>1, <2>1, <2>2, <2>5, <3>1, <3>4
    <3>5. CASE m # c /\ Parent(m) # i /\ m # i
      BY <1>1, <2>2, <2>5, <3>1, <3>5
    <3> QED
      BY <3>2, <3>3, <3>4, <3>5
  <2>6. ASSUME NEW m \in 2..n, Parent(m) = c
        PROVE  b[Parent(c)] <= b[m]
    <3>1. m # c /\ m # i
      BY <2>1, <2>6, Halves
    <3>2. a[c] <= a[m]
      BY <1>1, <2>1, <2>6
    <3> QED
      BY <2>1, <2>2, <3>1, <3>2
  <2>7. Sink[s] \in Sinking(h, n)
    <3>1. [at |-> c, items |-> b] \in Sifting
      BY <2>1, <2>2 DEF Sifting
    <3> QED
      BY <2>1, <2>2, <2>3, <2>4, <2>5, <2>6, <3>1 DEF Sinking
  <2> QED
    BY <1>1, <2>1, <2>4, <2>7
<1> QED
  BY <1>1, <1>5, <1>6

\* An array that is in order but for its root comes to be in order.
LEMMA SiftDownOrders ==
  ASSUME NEW h \in Seq(Distances), \A m \in 2..Len(h) : Parent(m) # 1 => h[Parent(m)] <= h[m]
  PROVE  /\ SiftDown(h) \in Seq(Distances) /\ Ordered(SiftDown(h)) /\ Len(SiftDown(h)) = Len(h)
         /\ \A key \in Distances : Count(SiftDown(h), key) = Count(h, key)
<1> DEFINE n == Len(h)
           s == [at |-> 1, items |-> h]
           D == IF n = 0 THEN {s} ELSE Sinking(h, n)
           rank == [d \in D |-> IF n = 0 THEN 0 ELSE n - d.at]
           g == CHOOSE x : x = [i \in 0..Len(h) |-> IF i = 0 THEN [at |-> 1, items |-> h] ELSE Sink[x[i - 1]]]
<1>1. n \in Nat /\ s \in Sifting
  BY DEF Sifting
<1>2. s \in D
  <2>1. CASE n # 0
    <3>1. 1 \in 1..n
      BY <1>1, <2>1
    <3> QED
      BY <1>1, <2>1, <3>1 DEF Sinking
  <2> QED
    BY <2>1
<1>3. \A d \in D : /\ Sink[d] \in D /\ rank[d] \in 0..n
                   /\ Sink[d] = d \/ rank[Sink[d]] < rank[d]
                   /\ d.items \in Seq(Distances) /\ Len(d.items) = n
                   /\ \A key \in Distances : Count(d.items, key) = Count(h, key)
                   /\ Sink[d] = d => Ordered(d.items)
  <2>1. CASE n = 0
    <3>1. Sink[s] = s
      BY <1>1, <2>1 DEF Sink
    <3>2. Ordered(h) /\ s.items = h
      BY <2>1 DEF Ordered
    <3>3. D = {s} /\ rank[s] = 0
      BY <2>1
    <3>4. s \in D /\ rank[s] \in 0..n /\ Len(h) = n
      BY <2>1, <3>3
    <3> HIDE DEF s, D, rank, n
    <3>5. \A d \in D : d = s
      BY <3>3
    <3> QED
      BY <3>1, <3>2, <3>4, <3>5
  <2>2. CASE n # 0
    <3>1. D = Sinking(h, n)
      BY <2>2
    <3>2. ASSUME NEW d \in Sinking(h, n)
          PROVE  /\ Sink[d] \in Sinking(h, n) /\ n - d.at \in 0..n
                 /\ Sink[d] = d \/ n - Sink[d].at < n - d.at
                 /\ d.items \in Seq(Distances) /\ Len(d.items) = n
                 /\ \A key \in Distances : Count(d.items, key) = Count(h, key)
                 /\ Sink[d] = d => Ordered(d.items)
      <4>1. /\ Sink[d] \in Sinking(h, n) /\ (Sink[d] = d \/ Sink[d].at > d.at)
            /\ Sink[d] = d => Ordered(d.items)
        BY <1>1, SinkKeeps
      <4>2. d.at \in 1..n /\ Sink[d].at \in 1..n
        BY <4>1 DEF Sinking
      <4>3. /\ d.items \in Seq(Distances) /\ Len(d.items) = n
            /\ \A key \in Distances : Count(d.items, key) = Count(h, key)
        BY DEF Sinking, Sifting
      <4>4. n - d.at \in 0..n /\ (Sink[d] = d \/ n - Sink[d].at < n - d.at)
        BY <1>1, <4>1, <4>2
      <4> QED
        BY <4>1, <4>3, <4>4
    <3>3. \A d \in D : rank[d] = n - d.at
      BY <2>2
    <3> HIDE DEF D, rank
    <3> QED
      BY <3>1, <3>2, <3>3
  <2> QED
    BY <2>1, <2>2
<1>5. SiftDown(h) = g[Len(h)].items
  BY Zenon DEF SiftDown
<1> HIDE DEF D, rank
<1>5a. /\ \A d \in D : Sink[d] \in D
       /\ \A d \in D : rank[d] \in 0..n
       /\ \A d \in D : Sink[d] = d \/ rank[Sink[d]] < rank[d]
  BY <1>3
<1>6. \E x : Iterates(x, Sink, s, n)
  BY <1>1, <1>2, <1>5a, LoopRuns
<1>7. Iterates(g, Sink, s, n)
  BY <1>6 DEF Iterates
<1> HIDE DEF g, s
<1>8. g[n] \in D /\ Sink[g[n]] = g[n]
  BY <1>1, <1>2, <1>7, <1>5a, LoopSettles
<1> QED
  BY <1>3, <1>5, <1>8

---------------------------------------------------------------------------

HeapInv == heap \in Seq(Distances) /\ Ordered(heap)

\* A push queues its key once more.
LEMMA PushPuts ==
  ASSUME HeapInv, NEW key \in Distances, Push(key)
  PROVE  HeapInv' /\ Queue!Put(key)
<1> DEFINE n == Len(heap)
           h == Append(heap, key)
<1>1. heap \in Seq(Distances) /\ Ordered(heap) /\ n \in Nat
  BY DEF HeapInv
<1>2. /\ h \in Seq(Distances) /\ Len(h) = n + 1 /\ h[n + 1] = key
      /\ \A m \in 1..n : h[m] = heap[m]
  BY <1>1
<1>3. heap' = SiftUp(h) /\ popped' = -1
  BY DEF Push
<1> HIDE DEF h
<1>4. ASSUME NEW m \in 2..(Len(h) - 1)
      PROVE  h[Parent(m)] <= h[m]
  <2>1. m \in 2..n /\ Parent(m) \in 1..n
    BY <1>1, <1>2, Halves
  <2> QED
    BY <1>1, <1>2, <2>1 DEF Ordered
<1>5. /\ heap' \in Seq(Distances) /\ Ordered(heap')
      /\ \A k \in Distances : Count(heap', k) = Count(h, k)
  <2>1. Len(h) > 0
    BY <1>1, <1>2
  <2> QED
    BY <1>2, <1>3, <1>4, <2>1, SiftUpOrders
<1>6. \A k \in Distances : Count(h, k) = IF k = key THEN Count(heap, k) + 1 ELSE Count(heap, k)
  <2> TAKE k \in Distances
  <2> DEFINE S == {m \in DOMAIN heap : heap[m] = k}
             T == {m \in DOMAIN h : h[m] = k}
  <2>1. DOMAIN heap = 1..n /\ DOMAIN h = 1..(n + 1)
    BY <1>1, <1>2
  <2>2. IsFiniteSet(S)
    BY <1>1, ArraysAreFinite
  <2>2a. n + 1 \notin S
    BY <1>1, <2>1
  <2>3. CASE k = key
    <3>1. T = S \cup {n + 1}
      BY <1>1, <1>2, <2>1, <2>3
    <3>2. Cardinality(T) = Cardinality(S) + 1
      <4> HIDE DEF S, T
      <4> QED
        BY <2>2, <2>2a, <3>1, FS_AddElement
    <3> QED
      BY <2>3, <3>2 DEF Count
  <2>4. CASE k # key
    <3>1. T = S
      BY <1>1, <1>2, <2>1, <2>4
    <3> QED
      BY <2>4, <3>1 DEF Count
  <2> QED
    BY <2>3, <2>4
<1>7. Content = [k \in Distances |-> Count(heap, k)] /\ Content' = [k \in Distances |-> Count(heap', k)]
  BY DEF Content, Count
<1>8. Content' = [Content EXCEPT ![key] = @ + 1]
  BY <1>5, <1>6, <1>7
<1> QED
  BY <1>3, <1>5, <1>8 DEF HeapInv, Queue!Put

\* A pop takes the least.
LEMMA PopTakes ==
  ASSUME HeapInv, PopLeast
  PROVE  HeapInv' /\ heap[1] \in Distances /\ Queue!TakeLeast(heap[1])
<1> DEFINE n == Len(heap)
           key == heap[1]
           h == SubSeq([heap EXCEPT ![1] = heap[n]], 1, n - 1)
<1>1. heap \in Seq(Distances) /\ Ordered(heap) /\ n \in Nat /\ n >= 1
  BY DEF HeapInv, PopLeast
<1>2. /\ h \in Seq(Distances) /\ Len(h) = n - 1
      /\ n > 1 => h[1] = heap[n]
      /\ \A m \in 2..(n - 1) : h[m] = heap[m]
  <2> DEFINE e == [heap EXCEPT ![1] = heap[n]]
  <2>1. /\ e \in Seq(Distances) /\ Len(e) = n
        /\ \A m \in 2..n : e[m] = heap[m]
        /\ e[1] = heap[n]
    BY <1>1
  <2> HIDE DEF e
  <2>2. /\ SubSeq(e, 1, n - 1) \in Seq(Distances) /\ Len(SubSeq(e, 1, n - 1)) = n - 1
        /\ \A m \in 1..(n - 1) : SubSeq(e, 1, n - 1)[m] = e[m]
    BY <1>1, <2>1
  <2> QED
    BY <1>1, <2>1, <2>2 DEF e
<1>3. heap' = SiftDown(h) /\ popped' = key
  BY DEF PopLeast
<1>4. key \in Distances
  BY <1>1
<1> HIDE DEF h
<1>5. ASSUME NEW m \in 2..Len(h), Parent(m) # 1
      PROVE  h[Parent(m)] <= h[m]
  <2>1. m \in 2..(n - 1) /\ m \in 2..n /\ Parent(m) \in 2..(n - 1)
    BY <1>1, <1>2, <1>5, Halves
  <2> QED
    BY <1>1, <1>2, <2>1 DEF Ordered
<1>6. /\ heap' \in Seq(Distances) /\ Ordered(heap')
      /\ \A k \in Distances : Count(heap', k) = Count(h, k)
  BY <1>2, <1>3, <1>5, SiftDownOrders
<1>7. \A k \in Distances : Count(h, k) = IF k = key THEN Count(heap, k) - 1 ELSE Count(heap, k)
  <2> TAKE k \in Distances
  <2> DEFINE S == {m \in DOMAIN heap : heap[m] = k}
             T == {m \in DOMAIN h : h[m] = k}
             R == S \ {1}
             f == [m \in R |-> IF m = n THEN 1 ELSE m]
  <2>1. DOMAIN heap = 1..n /\ DOMAIN h = 1..(n - 1)
    BY <1>1, <1>2
  <2>2. IsFiniteSet(S)
    BY <1>1, ArraysAreFinite
  <2>3. IsFiniteSet(R) /\ Cardinality(R) = IF 1 \in S THEN Cardinality(S) - 1 ELSE Cardinality(S)
    <3> HIDE DEF S
    <3> QED
      BY <2>2, FS_RemoveElement
  <2>4. 1 \in S <=> k = key
    BY <1>1, <2>1
  <2>5. \A m \in R : m \in 2..n /\ heap[m] = k
    BY <1>1, <2>1
  <2>6. ASSUME NEW m \in R
        PROVE  f[m] \in T
    <3>1. CASE m = n
      BY <1>1, <1>2, <2>1, <2>5, <3>1
    <3>2. CASE m # n
      BY <1>1, <1>2, <2>1, <2>5, <3>2
    <3> QED
      BY <3>1, <3>2
  <2>7. \A l, m \in R : f[l] = f[m] => l = m
    BY <2>5
  <2>8. ASSUME NEW m \in T
        PROVE  \E l \in R : f[l] = m
    <3>1. CASE m = 1
      <4>1. n \in R /\ f[n] = 1
        BY <1>1, <1>2, <2>1, <3>1
      <4> QED
        BY <3>1, <4>1
    <3>2. CASE m # 1
      <4>1. m \in R /\ f[m] = m
        BY <1>1, <1>2, <2>1, <3>2
      <4> QED
        BY <4>1
    <3> QED
      BY <3>1, <3>2
  <2>9. f \in [R -> T]
    BY <2>6
  <2>10. Cardinality(T) = Cardinality(R)
    <3> HIDE DEF f, R, T
    <3>1. f \in Bijection(R, T)
      BY <2>7, <2>8, <2>9, Fun_IsBij
    <3>2. ExistsBijection(R, T)
      BY <3>1 DEF ExistsBijection
    <3> QED
      BY <2>3, <3>2, FS_Bijection
  <2> QED
    BY <2>3, <2>4, <2>10 DEF Count
<1>8. Content = [k \in Distances |-> Count(heap, k)] /\ Content' = [k \in Distances |-> Count(heap', k)]
  BY DEF Content, Count
<1>9. Content' = [Content EXCEPT ![key] = @ - 1]
  BY <1>4, <1>6, <1>7, <1>8
<1>10. \A k \in Distances : Count(heap, k) > 0 <=> \E m \in 1..n : heap[m] = k
  <2> TAKE k \in Distances
  <2> DEFINE S == {m \in DOMAIN heap : heap[m] = k}
  <2>1. IsFiniteSet(S) /\ Count(heap, k) \in Nat /\ DOMAIN heap = 1..n
    BY <1>1, ArraysAreFinite
  <2>2. Cardinality(S) = 0 <=> S = {}
    <3> HIDE DEF S
    <3> QED
      BY <2>1, FS_EmptySet
  <2> QED
    BY <2>1, <2>2 DEF Count
<1>11. Content[key] > 0
  BY <1>1, <1>4, <1>8, <1>10
<1>12. \A k \in Distances : Content[k] > 0 => key <= k
  BY <1>1, <1>8, <1>10, RootIsLeast
<1> HIDE DEF key
<1> QED
  BY <1>3, <1>4, <1>6, <1>9, <1>11, <1>12 DEF HeapInv, Queue!TakeLeast, key

\* The array is a queue: what is pushed leaves it once, and nothing leaves before what is
\* less (minHeap.push, minHeap.pop): for any distances and any number of items.
THEOREM HeapKeepsTheQueue == HeapSpec => KeepsTheQueue
<1>1. HeapInit => HeapInv /\ Queue!QueueInit
  <2> SUFFICES ASSUME HeapInit
               PROVE  HeapInv /\ Queue!QueueInit
    OBVIOUS
  <2>1. heap = << >> /\ popped = -1
    BY DEF HeapInit
  <2>2. heap \in Seq(Distances) /\ Len(heap) = 0 /\ DOMAIN heap = {}
    BY <2>1
  <2>3. \A k : {m \in DOMAIN heap : heap[m] = k} = {}
    BY <2>2
  <2>4. Content = [k \in Distances |-> 0]
    BY <2>3, FS_EmptySet DEF Content
  <2> QED
    BY <2>1, <2>2, <2>4 DEF HeapInv, Ordered, Queue!QueueInit
<1>2. HeapInv /\ [HeapNext]_heapVars => HeapInv' /\ [Queue!QueueNext]_<<Content, popped>>
  <2> SUFFICES ASSUME HeapInv, [HeapNext]_heapVars
               PROVE  HeapInv' /\ [Queue!QueueNext]_<<Content, popped>>
    OBVIOUS
  <2>1. ASSUME NEW key \in Distances, Push(key)
        PROVE  HeapInv' /\ Queue!QueueNext
    BY <2>1, PushPuts DEF Queue!QueueNext
  <2>2. CASE PopLeast
    BY <2>2, PopTakes DEF Queue!QueueNext
  <2>3. CASE UNCHANGED heapVars
    BY <2>3 DEF heapVars, HeapInv, Content
  <2> QED
    BY <2>1, <2>2, <2>3 DEF HeapNext
<1> QED
  BY <1>1, <1>2, PTL DEF HeapSpec, KeepsTheQueue, Queue!QueueSpec

---------------------------------------------------------------------------
(***************************************************************************)
(* The trials, for every graph, every draw and any number of stamps.       *)
(***************************************************************************)

\* What is reached contains where it starts, is closed, and is in every closed set around it.
LEMMA ReachableIsLeast ==
  ASSUME NEW E, NEW S \in SUBSET Nodes, \A e \in E : e.from \in Nodes /\ e.to \in Nodes
  PROVE  /\ S \subseteq ReachableFrom(E, S)
         /\ ReachableFrom(E, S) \subseteq Nodes
         /\ Closed(E, ReachableFrom(E, S))
         /\ \A R \in SUBSET Nodes : S \subseteq R /\ Closed(E, R) => ReachableFrom(E, S) \subseteq R
<1>1. S \subseteq ReachableFrom(E, S) /\ ReachableFrom(E, S) \subseteq Nodes
  BY DEF ReachableFrom
<1>2. ASSUME NEW e \in E, e.from \in ReachableFrom(E, S)
      PROVE  e.to \in ReachableFrom(E, S)
  <2>1. ASSUME NEW R \in SUBSET Nodes, S \subseteq R, Closed(E, R)
        PROVE  e.to \in R
    <3>1. e.from \in R
      BY <1>2, <2>1 DEF ReachableFrom
    <3> QED
      BY <2>1, <3>1 DEF Closed
  <2> QED
    BY <2>1 DEF ReachableFrom
<1>3. \A R \in SUBSET Nodes : S \subseteq R /\ Closed(E, R) => ReachableFrom(E, S) \subseteq R
  BY DEF ReachableFrom
<1> QED
  BY <1>1, <1>2, <1>3 DEF Closed

\* Fewer edges reach no more.
LEMMA ReachableIsMonotone ==
  ASSUME NEW E, NEW F, E \subseteq F, NEW S \in SUBSET Nodes
  PROVE  ReachableFrom(E, S) \subseteq ReachableFrom(F, S)
<1>1. \A R : Closed(F, R) => Closed(E, R)
  BY DEF Closed
<1> QED
  BY <1>1 DEF ReachableFrom

\* A node that is reached and no start is led to from another that is reached.
LEMMA ReachedByALink ==
  ASSUME NEW E, NEW S \in SUBSET Nodes, \A e \in E : e.from \in Nodes /\ e.to \in Nodes,
         NEW n \in ReachableFrom(E, S), n \notin S
  PROVE  \E e \in E : e.to = n /\ e.from \in ReachableFrom(E, S) \ {n}
<1> SUFFICES ASSUME \A e \in E : e.to = n => e.from \notin ReachableFrom(E, S) \ {n}
             PROVE  FALSE
  OBVIOUS
<1> DEFINE R == ReachableFrom(E, S) \ {n}
<1>1. R \in SUBSET Nodes /\ S \subseteq R
  BY ReachableIsLeast
<1>2. Closed(E, R)
  <2>1. Closed(E, ReachableFrom(E, S))
    BY ReachableIsLeast
  <2> QED
    BY <2>1 DEF Closed
<1>3. ReachableFrom(E, S) \subseteq R
  <2> HIDE DEF R
  <2> QED
    BY <1>1, <1>2, ReachableIsLeast
<1> QED
  BY <1>3

---------------------------------------------------------------------------

\* The links that this trial realizes, and the nodes reached so far.
Now == Realized(Sim, trial)
Marked == {n \in Nodes : visited[n] = gen}

\* The parts of the state.  A stamp is never ahead of the trial's.
RiskTypes ==
  /\ world \in Worlds
  /\ draws \in [1..Trials -> [DrawKeys -> 0..(Levels - 1)]]
  /\ sim \in 1..3 /\ trial \in Nat /\ gen \in 0..(Stamps - 1)
  /\ visited \in [Nodes -> 0..gen] /\ hit \in [Nodes -> 0..gen]
  /\ stack \in SUBSET Nodes
  /\ outcome \in [{"whole", "capable", "cut"} -> Seq(SUBSET Nodes)]

\* A trial is under way, or the last one is noted; the simulations to come have none.
Progress ==
  /\ trial \in {Len(outcome[Sim]), Len(outcome[Sim]) + 1}
  /\ trial = Len(outcome[Sim]) => stack = {}
  /\ trial <= Trials
  /\ \A i \in 1..3 : i > sim => outcome[Sims[i]] = << >>
  /\ \A i \in 1..3 : i < sim => Len(outcome[Sims[i]]) = Trials
  /\ \A s \in {"whole", "capable", "cut"} : Len(outcome[s]) <= Trials

\* A trial has marked what it can reach, and crossed all links of what it has taken off
\* the stack.
Underway ==
  trial = Len(outcome[Sim]) + 1 =>
    /\ gen # 0
    /\ world.seeds \subseteq Marked /\ stack \subseteq Marked
    /\ Marked \subseteq ReachableFrom(Now, world.seeds)
    /\ \A e \in Now : e.from \in Marked \ stack => e.to \in Marked
    /\ \A n \in ByEdgeOnly : hit[n] = gen <=> \E e \in Now : e.to = n /\ e.from \in (Marked \ stack) \ {n}

RiskInv == RiskTypes /\ Progress /\ Underway /\ TrialsTellTheTruth

LEMMA WorldIsGiven ==
  ASSUME RiskTypes
  PROVE  /\ world.links \subseteq Link /\ world.cut \subseteq world.links
         /\ world.seeds \in SUBSET Nodes /\ world.jewels \in SUBSET Nodes
         /\ world.held \subseteq world.seeds
         /\ \A e \in world.links : e.from \in Nodes /\ e.to \in Nodes /\ e.key \in DrawKeys /\ e.level \in 1..Levels
         /\ \A s : LinksOf(s) \subseteq world.links
         /\ \A s, t : \A e \in Realized(s, t) : e.from \in Nodes /\ e.to \in Nodes
<1>1. world \in World /\ world.cut \subseteq world.links /\ world.held \subseteq world.seeds
  BY RiskAssumption DEF RiskTypes
<1>2. /\ world.links \subseteq Link
      /\ world.seeds \in SUBSET Nodes /\ world.jewels \in SUBSET Nodes
  BY <1>1 DEF World
<1>3. \A e \in world.links : e.from \in Nodes /\ e.to \in Nodes /\ e.key \in DrawKeys /\ e.level \in 1..Levels
  BY <1>2 DEF Link
<1>4. \A s : LinksOf(s) \subseteq world.links
  BY DEF LinksOf
<1> QED
  BY <1>1, <1>2, <1>3, <1>4 DEF Realized

LEMMA SimIsOne ==
  ASSUME sim \in 1..3
  PROVE  Sim \in {"whole", "capable", "cut"} /\ Len(Sims) = 3
BY DEF Sim, Sims

LEMMA RiskStarts == RiskInit => RiskInv
<1> SUFFICES ASSUME RiskInit
             PROVE  RiskInv
  OBVIOUS
<1>1. Range(Sims) = {"whole", "capable", "cut"}
  BY DEF Sims, Range
<1>2. outcome = [s \in {"whole", "capable", "cut"} |-> << >>]
  BY <1>1 DEF RiskInit
<1>3. Stamps \in Nat \ {0, 1} /\ Trials \in Nat
  BY RiskAssumption
<1>4. RiskTypes
  BY <1>2, <1>3 DEF RiskInit, RiskTypes, Unstamped
<1>5. \A s \in {"whole", "capable", "cut"} : outcome[s] = << >> /\ Len(outcome[s]) = 0
  BY <1>2
<1>6. \A i \in 1..3 : Sims[i] \in {"whole", "capable", "cut"}
  BY DEF Sims
<1>7. sim = 1 /\ trial = 0 /\ stack = {} /\ Sim \in {"whole", "capable", "cut"}
  BY <1>6 DEF RiskInit, Sim
<1>8. Progress
  BY <1>3, <1>5, <1>6, <1>7 DEF Progress
<1>9. Underway
  BY <1>5, <1>7 DEF Underway
<1>10. TrialsTellTheTruth
  BY <1>2, <1>5 DEF TrialsTellTheTruth
<1> QED
  BY <1>4, <1>8, <1>9, <1>10 DEF RiskInv

\* What is over stays as it was judged.
LEMMA NowUnchanged ==
  ASSUME UNCHANGED <<world, draws>>
  PROVE  /\ \A s, t : Realized(s, t)' = Realized(s, t)
         /\ ByEdgeOnly' = ByEdgeOnly
BY DEF Realized, LinksOf, Crossed, DrawFor, LevelFor, ByEdgeOnly

\* The jewels that a trial compromises.
Compromised(s, t) ==
  LET links == Realized(s, t)
      from == ReachableFrom(links, world.seeds)
  IN {n \in world.jewels : n \in world.held \/ \E e \in links : e.to = n /\ e.from \in from \ {n}}

LEMMA CompromisedStays ==
  ASSUME UNCHANGED <<world, draws>>
  PROVE  \A s, t : Compromised(s, t)' = Compromised(s, t)
BY DEF Compromised, Realized, LinksOf, Crossed, DrawFor, LevelFor, ReachableFrom, Closed

LEMMA TruthIs ==
  TrialsTellTheTruth <=> \A s \in DOMAIN outcome : \A t \in DOMAIN outcome[s] : outcome[s][t] = Compromised(s, t)
BY DEF TrialsTellTheTruth, Compromised

LEMMA TruthStays ==
  ASSUME TrialsTellTheTruth, UNCHANGED <<world, draws, outcome>>
  PROVE  TrialsTellTheTruth'
<1>1. (TrialsTellTheTruth <=> \A s \in DOMAIN outcome : \A t \in DOMAIN outcome[s] : outcome[s][t] = Compromised(s, t))'
  BY TruthIs, PTL
<1> QED
  BY <1>1, TruthIs, CompromisedStays

LEMMA StartTrialKeeps ==
  ASSUME RiskInv, StartTrial
  PROVE  RiskInv'
<1> USE DEF RiskInv
<1>0. Stamps \in Nat \ {0, 1} /\ Trials \in Nat
  BY RiskAssumption
<1>1. /\ trial < Trials /\ trial' = trial + 1 /\ stack' = world.seeds
      /\ trial = Len(outcome[Sim])
      /\ world' = world /\ draws' = draws /\ sim' = sim /\ outcome' = outcome
  BY DEF StartTrial
<1>2. gen \in 0..(Stamps - 1) /\ NextStamp = IF gen = Stamps - 1 THEN 0 ELSE gen + 1
  <2>1. gen \in 0..(Stamps - 1)
    BY DEF RiskTypes
  <2>2. \A x, m \in Nat : x < m => x % m = x
    OBVIOUS
  <2>3. \A m \in Nat \ {0} : m % m = 0
    OBVIOUS
  <2>4. CASE gen = Stamps - 1
    <3>1. gen + 1 = Stamps
      BY <1>0, <2>4
    <3>2. NextStamp = Stamps % Stamps
      BY <3>1 DEF NextStamp
    <3> QED
      BY <1>0, <2>1, <2>3, <2>4, <3>2
  <2>5. CASE gen # Stamps - 1
    BY <1>0, <2>1, <2>2, <2>5 DEF NextStamp
  <2> QED
    BY <2>1, <2>4, <2>5
<1>3. gen' \in 1..(Stamps - 1) /\ (NextStamp # 0 => gen' = gen + 1)
  BY <1>0, <1>2 DEF StartTrial
<1>3a. PICK g \in Nat : gen' = g + 1 /\ (NextStamp # 0 => g = gen)
  <2>1. CASE NextStamp = 0
    <3>1. gen' = 0 + 1
      BY <2>1 DEF StartTrial
    <3> QED
      BY <2>1, <3>1
  <2>2. CASE NextStamp # 0
    BY <1>2, <1>3, <2>2
  <2> QED
    BY <2>1, <2>2
<1>4. /\ \A n \in Nodes : Wiped(visited, NextStamp)[n] \in 0..g
      /\ \A n \in Nodes : Wiped(hit, NextStamp)[n] \in 0..g
      /\ Wiped(hit, NextStamp) \in [Nodes -> 0..g]
  <2>1. visited \in [Nodes -> 0..gen] /\ hit \in [Nodes -> 0..gen]
    BY DEF RiskTypes
  <2>2. CASE NextStamp = 0
    <3>1. Wiped(visited, NextStamp) = Unstamped /\ Wiped(hit, NextStamp) = Unstamped
      BY <2>2 DEF Wiped
    <3>2. 0 \in 0..g
      BY <1>3a
    <3> QED
      BY <3>1, <3>2 DEF Unstamped
  <2>3. CASE NextStamp # 0
    <3>1. Wiped(visited, NextStamp) = visited /\ Wiped(hit, NextStamp) = hit
      BY <2>3 DEF Wiped
    <3>2. g = gen
      BY <1>3a, <2>3
    <3> QED
      BY <2>1, <3>1, <3>2
  <2> QED
    BY <2>2, <2>3
<1>5. /\ visited' \in [Nodes -> 0..gen']
      /\ \A n \in Nodes : visited'[n] = gen' <=> n \in world.seeds
  BY <1>3a, <1>4 DEF StartTrial
<1>6. /\ hit' \in [Nodes -> 0..gen']
      /\ \A n \in Nodes : hit'[n] # gen'
  BY <1>3a, <1>4 DEF StartTrial
<1>7. world.seeds \in SUBSET Nodes
  BY WorldIsGiven
<1>8. RiskTypes'
  BY <1>0, <1>1, <1>3, <1>5, <1>6, <1>7 DEF RiskTypes
<1>9. Sim' = Sim
  BY <1>1 DEF Sim
<1>10. Progress'
  BY <1>0, <1>1, <1>9, SimIsOne DEF Progress, RiskTypes
<1>11. Marked' = world.seeds
  BY <1>5, <1>7 DEF Marked
<1>12. Underway'
  <2>1. world.seeds \subseteq ReachableFrom(Now', world.seeds)
    BY <1>7 DEF ReachableFrom
  <2>2. ByEdgeOnly' = ByEdgeOnly /\ ByEdgeOnly \subseteq Nodes
    BY <1>1, NowUnchanged, WorldIsGiven DEF ByEdgeOnly
  <2>3. (ReachableFrom(Now, world.seeds))' = ReachableFrom(Now', world.seeds)
    BY <1>1 DEF ReachableFrom, Closed
  <2> QED
    BY <1>1, <1>3, <1>6, <1>11, <2>1, <2>2, <2>3 DEF Underway
<1>13. TrialsTellTheTruth'
  BY <1>1, TruthStays
<1> QED
  BY <1>8, <1>10, <1>12, <1>13

\* A node taken off the stack has its links crossed: what they lead to is marked, and no more.
LEMMA VisitKeeps ==
  ASSUME RiskInv, NEW n \in stack, Visit(n)
  PROVE  RiskInv'
<1> USE DEF RiskInv
<1> DEFINE to == CrossedFrom(n)
           new == {m \in to : visited[m] # gen}
<1>1. /\ stack' = (stack \ {n}) \cup new
      /\ visited' = [m \in Nodes |-> IF m \in to THEN gen ELSE visited[m]]
      /\ hit' = [m \in Nodes |-> IF m \in to \cap ByEdgeOnly THEN gen ELSE hit[m]]
      /\ world' = world /\ draws' = draws /\ sim' = sim /\ trial' = trial
      /\ gen' = gen /\ outcome' = outcome
  BY DEF Visit
<1>2. /\ sim \in 1..3 /\ trial \in Nat /\ gen \in Nat /\ stack \in SUBSET Nodes
      /\ visited \in [Nodes -> 0..gen] /\ hit \in [Nodes -> 0..gen]
  BY RiskAssumption DEF RiskTypes
<1>3. /\ \A e \in Now : e.from \in Nodes /\ e.to \in Nodes
      /\ world.seeds \in SUBSET Nodes
  BY WorldIsGiven DEF Now
<1>4. \A m : m \in to <=> \E e \in Now : e.from = n /\ e.to = m /\ m # n
  BY DEF CrossedFrom, EdgesFrom, Now, Realized
<1>5. to \subseteq Nodes /\ n \in Nodes /\ n \notin to
  BY <1>2, <1>3, <1>4
<1> HIDE DEF to
<1>6. RiskTypes'
  <2>1. gen \in 0..gen
    BY <1>2
  <2>2. visited' \in [Nodes -> 0..gen] /\ hit' \in [Nodes -> 0..gen]
    BY <1>1, <1>2, <2>1
  <2>3. stack' \in SUBSET Nodes
    BY <1>1, <1>2, <1>5
  <2> QED
    BY <1>1, <2>2, <2>3 DEF RiskTypes
<1>7. Sim' = Sim
  BY <1>1 DEF Sim
<1>8. trial = Len(outcome[Sim]) + 1
  BY DEF Progress
<1>9. Progress'
  <2>1. trial # Len(outcome[Sim])
    <3>1. Sim \in {"whole", "capable", "cut"}
      BY <1>2, SimIsOne
    <3>2. outcome[Sim] \in Seq(SUBSET Nodes)
      BY <3>1 DEF RiskTypes
    <3>3. Len(outcome[Sim]) \in Nat
      BY <3>2
    <3> QED
      BY <1>8, <3>3
  <2> QED
    BY <1>1, <1>7, <1>8, <2>1 DEF Progress
<1>10. TrialsTellTheTruth'
  BY <1>1, TruthStays
<1>11. /\ gen # 0
       /\ world.seeds \subseteq Marked /\ stack \subseteq Marked
       /\ Marked \subseteq ReachableFrom(Now, world.seeds)
       /\ \A e \in Now : e.from \in Marked \ stack => e.to \in Marked
       /\ \A m \in ByEdgeOnly : hit[m] = gen <=> \E e \in Now : e.to = m /\ e.from \in (Marked \ stack) \ {m}
  BY <1>8 DEF Underway
<1>12. Marked' = Marked \cup to
  BY <1>1, <1>5 DEF Marked
<1>13. Marked' \ stack' = (Marked \ stack) \cup {n}
  <2>1. \A m \in to : m \in new \/ m \in Marked
    BY <1>5 DEF Marked
  <2>2. \A m \in new : m \in to /\ m \notin Marked
    BY DEF Marked
  <2>3. n \in Marked
    BY <1>11
  <2> HIDE DEF new
  <2> QED
    BY <1>1, <1>5, <1>11, <1>12, <2>1, <2>2, <2>3
<1>14. Now' = Now /\ ByEdgeOnly' = ByEdgeOnly
  <2>1. \A s, t : Realized(s, t)' = Realized(s, t)
    BY <1>1, NowUnchanged
  <2>2. ByEdgeOnly' = ByEdgeOnly
    BY <1>1, NowUnchanged
  <2>3. Now' = Now
    BY <1>1, <1>7 DEF Now, Realized, LinksOf, Crossed, DrawFor, LevelFor
  <2> QED
    BY <2>2, <2>3
<1>15. (ReachableFrom(Now, world.seeds))' = ReachableFrom(Now, world.seeds)
  BY <1>1, <1>14 DEF ReachableFrom, Closed
<1>16. to \subseteq ReachableFrom(Now, world.seeds)
  <2>1. Closed(Now, ReachableFrom(Now, world.seeds))
    BY <1>3, ReachableIsLeast
  <2>2. n \in ReachableFrom(Now, world.seeds)
    BY <1>11
  <2> QED
    BY <1>4, <2>1, <2>2 DEF Closed
<1>17. \A e \in Now : e.from = n => e.to \in Marked \cup to
  <2>1. n \in Marked
    BY <1>11
  <2> QED
    BY <1>4, <2>1
<1>18. stack' \subseteq Marked'
  BY <1>1, <1>11, <1>12
<1>19. \A m \in ByEdgeOnly : hit'[m] = gen <=> \E e \in Now : e.to = m /\ e.from \in ((Marked \ stack) \cup {n}) \ {m}
  <2> SUFFICES ASSUME NEW m \in ByEdgeOnly
               PROVE  hit'[m] = gen <=> \E e \in Now : e.to = m /\ e.from \in ((Marked \ stack) \cup {n}) \ {m}
    OBVIOUS
  <2>1. m \in Nodes
    BY WorldIsGiven DEF ByEdgeOnly
  <2>2. hit'[m] = IF m \in to THEN gen ELSE hit[m]
    BY <1>1, <2>1
  <2>3. CASE m \in to
    BY <1>4, <2>2, <2>3
  <2>4. CASE m \notin to
    BY <1>4, <1>11, <2>2, <2>4
  <2> QED
    BY <2>3, <2>4
<1>20. Underway'
  <2>1. /\ gen' # 0
        /\ world.seeds' \subseteq Marked' /\ stack' \subseteq Marked'
    BY <1>1, <1>11, <1>12, <1>18
  <2>2. Marked' \subseteq (ReachableFrom(Now, world.seeds))'
    BY <1>11, <1>12, <1>15, <1>16
  <2>3. \A e \in Now' : e.from \in Marked' \ stack' => e.to \in Marked'
    BY <1>11, <1>12, <1>13, <1>14, <1>17
  <2>4. \A m \in ByEdgeOnly' : hit'[m] = gen' <=> \E e \in Now' : e.to = m /\ e.from \in (Marked' \ stack') \ {m}
    BY <1>1, <1>13, <1>14, <1>19
  <2> QED
    BY <2>1, <2>2, <2>3, <2>4 DEF Underway
<1> QED
  BY <1>6, <1>9, <1>10, <1>20

\* With nothing left to cross, what is marked is what the trial reaches.
LEMMA ReachedIsCompromised ==
  ASSUME RiskInv, trial = Len(outcome[Sim]) + 1, stack = {}
  PROVE  {n \in world.jewels : Reached(n)} = Compromised(Sim, trial)
<1> USE DEF RiskInv
<1>1. /\ world.seeds \subseteq Marked
      /\ Marked \subseteq ReachableFrom(Now, world.seeds)
      /\ \A e \in Now : e.from \in Marked => e.to \in Marked
      /\ \A n \in ByEdgeOnly : hit[n] = gen <=> \E e \in Now : e.to = n /\ e.from \in Marked \ {n}
  BY DEF Underway
<1>2. /\ \A e \in Now : e.from \in Nodes /\ e.to \in Nodes
      /\ world.seeds \in SUBSET Nodes /\ world.jewels \in SUBSET Nodes
      /\ world.held \subseteq world.seeds
  BY WorldIsGiven DEF Now
<1>3. Marked = ReachableFrom(Now, world.seeds)
  <2>1. Closed(Now, Marked) /\ Marked \in SUBSET Nodes
    BY <1>1 DEF Closed, Marked
  <2> QED
    BY <1>1, <1>2, <2>1, ReachableIsLeast
<1> DEFINE Led(n) == \E e \in Now : e.to = n /\ e.from \in Marked \ {n}
<1>4. Compromised(Sim, trial) = {n \in world.jewels : n \in world.held \/ Led(n)}
  BY <1>3 DEF Compromised, Now
<1>5. ASSUME NEW n \in world.jewels
      PROVE  Reached(n) <=> n \in world.held \/ Led(n)
  <2>1. CASE n \in ByEdgeOnly
    <3>1. n \notin world.held
      BY <2>1 DEF ByEdgeOnly
    <3>2. Reached(n) <=> hit[n] = gen
      BY <2>1 DEF Reached
    <3> QED
      BY <1>1, <2>1, <3>1, <3>2
  <2>2. CASE n \notin ByEdgeOnly
    <3>1. Reached(n) <=> n \in Marked
      BY <1>2, <2>2 DEF Reached, Marked
    <3>2. CASE n \in world.seeds
      BY <1>1, <1>2, <2>2, <3>1, <3>2 DEF ByEdgeOnly
    <3>3. CASE n \notin world.seeds
      <4>1. n \in Marked => Led(n)
        BY <1>2, <1>3, <3>3, ReachedByALink
      <4>2. Led(n) => n \in Marked
        BY <1>1
      <4> QED
        BY <1>2, <3>1, <3>3, <4>1, <4>2
    <3> QED
      BY <3>2, <3>3
  <2> QED
    BY <2>1, <2>2
<1> QED
  BY <1>4, <1>5

LEMMA EndTrialKeeps ==
  ASSUME RiskInv, EndTrial
  PROVE  RiskInv'
<1> USE DEF RiskInv
<1> DEFINE got == {n \in world.jewels : Reached(n)}
<1>1. /\ trial = Len(outcome[Sim]) + 1 /\ stack = {}
      /\ outcome' = [outcome EXCEPT ![Sim] = Append(outcome[Sim], got)]
      /\ world' = world /\ draws' = draws /\ sim' = sim /\ trial' = trial
      /\ gen' = gen /\ visited' = visited /\ hit' = hit /\ stack' = stack
  BY DEF EndTrial
<1>2. Sim \in {"whole", "capable", "cut"} /\ sim \in 1..3
  BY SimIsOne DEF RiskTypes
<1>3. got = Compromised(Sim, trial)
  BY <1>1, ReachedIsCompromised
<1>4. got \in SUBSET Nodes
  BY WorldIsGiven
<1> HIDE DEF got
<1>5. outcome \in [{"whole", "capable", "cut"} -> Seq(SUBSET Nodes)] /\ trial <= Trials /\ trial \in Nat
  BY DEF RiskTypes, Progress
<1>6. outcome[Sim] \in Seq(SUBSET Nodes)
  BY <1>2, <1>5
<1>7. /\ Append(outcome[Sim], got) \in Seq(SUBSET Nodes)
      /\ Len(Append(outcome[Sim], got)) = Len(outcome[Sim]) + 1
      /\ DOMAIN Append(outcome[Sim], got) = 1..(Len(outcome[Sim]) + 1)
      /\ Append(outcome[Sim], got)[Len(outcome[Sim]) + 1] = got
      /\ \A t \in 1..Len(outcome[Sim]) : Append(outcome[Sim], got)[t] = outcome[Sim][t]
  BY <1>4, <1>6
<1>8. /\ outcome' \in [{"whole", "capable", "cut"} -> Seq(SUBSET Nodes)]
      /\ outcome'[Sim] = Append(outcome[Sim], got)
      /\ \A s \in {"whole", "capable", "cut"} \ {Sim} : outcome'[s] = outcome[s]
  BY <1>1, <1>2, <1>5, <1>7
<1>9. Sim' = Sim
  BY <1>1 DEF Sim
<1>10. RiskTypes'
  BY <1>1, <1>8 DEF RiskTypes
<1>11. trial = Len(outcome'[Sim]) /\ Len(outcome'[Sim]) \in Nat
  BY <1>1, <1>6, <1>7, <1>8
<1>12. \A i \in 1..3 : i # sim => Sims[i] \in {"whole", "capable", "cut"} \ {Sim}
  BY <1>2 DEF Sims, Sim
<1>13. Progress'
  <2>1. trial' \in {Len(outcome'[Sim]), Len(outcome'[Sim]) + 1} /\ stack' = {} /\ trial' <= Trials
    BY <1>1, <1>5, <1>11
  <2>2. \A i \in 1..3 : i > sim => outcome'[Sims[i]] = << >>
    <3>1. ASSUME NEW i \in 1..3, i > sim
          PROVE  outcome'[Sims[i]] = << >>
      <4>1. i # sim
        BY <1>2, <3>1
      <4> QED
        BY <1>8, <1>12, <3>1, <4>1 DEF Progress
    <3> QED
      BY <3>1
  <2>3. \A i \in 1..3 : i < sim => Len(outcome'[Sims[i]]) = Trials
    <3>1. ASSUME NEW i \in 1..3, i < sim
          PROVE  Len(outcome'[Sims[i]]) = Trials
      <4>1. i # sim
        BY <1>2, <3>1
      <4> QED
        BY <1>8, <1>12, <3>1, <4>1 DEF Progress
    <3> QED
      BY <3>1
  <2>4. \A s \in {"whole", "capable", "cut"} : Len(outcome'[s]) <= Trials
    <3>1. \A s \in {"whole", "capable", "cut"} : Len(outcome[s]) <= Trials
      BY DEF Progress
    <3>2. Len(outcome'[Sim]) <= Trials
      BY <1>5, <1>11
    <3> QED
      BY <1>8, <3>1, <3>2
  <2> QED
    BY <1>1, <1>9, <2>1, <2>2, <2>3, <2>4 DEF Progress
<1>14. Underway'
  <2>1. trial' # Len(outcome'[Sim]) + 1
    BY <1>1, <1>11
  <2> QED
    BY <1>9, <2>1 DEF Underway
<1>15. \A s \in DOMAIN outcome' : \A t \in DOMAIN outcome'[s] : outcome'[s][t] = Compromised(s, t)
  <2>1. \A s \in DOMAIN outcome : \A t \in DOMAIN outcome[s] : outcome[s][t] = Compromised(s, t)
    BY TruthIs
  <2>2. ASSUME NEW s \in {"whole", "capable", "cut"}, NEW t \in DOMAIN outcome'[s]
        PROVE  outcome'[s][t] = Compromised(s, t)
    <3>1. CASE s # Sim
      BY <1>5, <1>8, <2>1, <3>1
    <3>2. CASE s = Sim /\ t = Len(outcome[Sim]) + 1
      BY <1>1, <1>3, <1>7, <1>8, <3>2
    <3>3. CASE s = Sim /\ t # Len(outcome[Sim]) + 1
      <4>1. t \in 1..Len(outcome[Sim])
        <5>1. Len(outcome[Sim]) \in Nat
          BY <1>6
        <5> QED
          BY <1>7, <1>8, <3>3, <5>1
      <4>2. t \in DOMAIN outcome[Sim]
        BY <1>6, <4>1
      <4> QED
        BY <1>2, <1>5, <1>7, <1>8, <2>1, <3>3, <4>1, <4>2
    <3> QED
      BY <3>1, <3>2, <3>3
  <2> QED
    BY <1>8, <2>2
<1>16. TrialsTellTheTruth'
  <2>1. (TrialsTellTheTruth <=> \A s \in DOMAIN outcome : \A t \in DOMAIN outcome[s] : outcome[s][t] = Compromised(s, t))'
    BY TruthIs, PTL
  <2> QED
    BY <1>1, <1>15, <2>1, CompromisedStays
<1> QED
  BY <1>10, <1>13, <1>14, <1>16

LEMMA NextSimKeeps ==
  ASSUME RiskInv, NextSim
  PROVE  RiskInv'
<1> USE DEF RiskInv
<1>1. /\ Len(outcome[Sim]) = Trials /\ sim < 3 /\ sim' = sim + 1 /\ trial' = 0
      /\ world' = world /\ draws' = draws /\ stack' = stack /\ outcome' = outcome
  BY SimIsOne DEF NextSim, RiskTypes
<1>2. sim \in 1..2 /\ sim' \in 1..3 /\ trial \in Nat /\ Trials \in Nat /\ Stamps \in Nat \ {0, 1}
  BY <1>1, RiskAssumption DEF RiskTypes
<1>3. stack = {}
  <2>1. trial \in {Len(outcome[Sim]), Len(outcome[Sim]) + 1} /\ trial <= Trials
    BY DEF Progress
  <2>2. trial = Len(outcome[Sim])
    BY <1>1, <1>2, <2>1
  <2> QED
    BY <2>2 DEF Progress
<1>4. /\ gen' \in 0..(Stamps - 1)
      /\ visited' \in [Nodes -> 0..gen'] /\ hit' \in [Nodes -> 0..gen']
  <2>1. CASE Sims[sim + 1] = "cut"
    <3>1. gen' = 0 /\ visited' = Unstamped /\ hit' = Unstamped
      BY <2>1 DEF NextSim
    <3>2. 0 \in 0..0
      OBVIOUS
    <3> QED
      BY <1>2, <3>1, <3>2 DEF Unstamped
  <2>2. CASE Sims[sim + 1] # "cut"
    BY <2>2 DEF NextSim, RiskTypes
  <2> QED
    BY <2>1, <2>2
<1>5. RiskTypes'
  BY <1>1, <1>2, <1>4 DEF RiskTypes
<1>6. Sim' = Sims[sim + 1] /\ sim + 1 \in 1..3 /\ sim + 1 > sim
  BY <1>1, <1>2 DEF Sim
<1>7. outcome[Sims[sim + 1]] = << >>
  BY <1>6 DEF Progress
<1>8. outcome'[Sim'] = << >> /\ Len(outcome'[Sim']) = 0
  BY <1>1, <1>6, <1>7
<1>9. \A i \in 1..3 : i < sim + 1 => Len(outcome[Sims[i]]) = Trials
  <2>1. ASSUME NEW i \in 1..3, i < sim + 1
        PROVE  Len(outcome[Sims[i]]) = Trials
    <3>1. i < sim \/ i = sim
      BY <1>2, <2>1
    <3>2. CASE i < sim
      BY <3>2 DEF Progress
    <3>3. CASE i = sim
      BY <1>1, <3>3 DEF Sim
    <3> QED
      BY <3>1, <3>2, <3>3
  <2> QED
    BY <2>1
<1>10. \A i \in 1..3 : i > sim + 1 => outcome[Sims[i]] = << >>
  <2>1. \A i \in 1..3 : i > sim + 1 => i > sim
    BY <1>2
  <2> QED
    BY <2>1 DEF Progress
<1>11. Progress'
  <2>1. \A x \in {"whole", "capable", "cut"} : Len(outcome[x]) <= Trials
    BY DEF Progress
  <2> QED
    BY <1>1, <1>2, <1>3, <1>8, <1>9, <1>10, <2>1 DEF Progress
<1>12. Underway'
  BY <1>1, <1>8 DEF Underway
<1>13. TrialsTellTheTruth'
  BY <1>1, TruthStays
<1> QED
  BY <1>5, <1>11, <1>12, <1>13

LEMMA IdleTrialKeeps ==
  ASSUME RiskInv, UNCHANGED riskVars
  PROVE  RiskInv'
<1>1. /\ world' = world /\ draws' = draws /\ sim' = sim /\ trial' = trial /\ gen' = gen
      /\ visited' = visited /\ hit' = hit /\ stack' = stack /\ outcome' = outcome
  BY DEF riskVars
<1>2. Sim' = Sim /\ Marked' = Marked /\ ByEdgeOnly' = ByEdgeOnly
  BY <1>1 DEF Sim, Marked, ByEdgeOnly
<1>3. Now' = Now
  BY <1>1, <1>2 DEF Now, Realized, LinksOf, Crossed, DrawFor, LevelFor
<1>4. (ReachableFrom(Now, world.seeds))' = ReachableFrom(Now, world.seeds)
  BY <1>1, <1>3 DEF ReachableFrom, Closed
<1>5. RiskTypes' /\ Progress'
  BY <1>1, <1>2 DEF RiskInv, RiskTypes, Progress
<1>6. Underway'
  BY <1>1, <1>2, <1>3, <1>4 DEF RiskInv, Underway
<1>7. TrialsTellTheTruth'
  BY <1>1, TruthStays DEF RiskInv
<1> QED
  BY <1>5, <1>6, <1>7 DEF RiskInv

LEMMA RiskStepKeeps ==
  ASSUME RiskInv, [RiskNext]_riskVars
  PROVE  RiskInv'
<1>1. CASE StartTrial
  BY <1>1, StartTrialKeeps
<1>2. ASSUME NEW n \in stack, Visit(n)
      PROVE  RiskInv'
  BY <1>2, VisitKeeps
<1>3. CASE EndTrial
  BY <1>3, EndTrialKeeps
<1>4. CASE NextSim
  BY <1>4, NextSimKeeps
<1>5. CASE UNCHANGED riskVars
  BY <1>5, IdleTrialKeeps
<1> QED
  BY <1>1, <1>2, <1>3, <1>4, <1>5 DEF RiskNext

---------------------------------------------------------------------------

\* More links compromise no less.
LEMMA MoreLinksMoreJewels ==
  ASSUME RiskTypes, NEW r, NEW s, NEW t, Realized(r, t) \subseteq Realized(s, t)
  PROVE  Compromised(r, t) \subseteq Compromised(s, t)
<1>1. world.seeds \in SUBSET Nodes
  BY WorldIsGiven
<1>2. ReachableFrom(Realized(r, t), world.seeds) \subseteq ReachableFrom(Realized(s, t), world.seeds)
  BY <1>1, ReachableIsMonotone
<1> QED
  BY <1>2 DEF Compromised

\* What is cut from no way to a jewel takes no jewel out of reach.
LEMMA IdleCut ==
  ASSUME RiskTypes, NEW t, world.cut \cap OnAWay = {}
  PROVE  Compromised("whole", t) \subseteq Compromised("cut", t)
<1> DEFINE E == Realized("cut", t)
           F == Realized("whole", t)
           RE == ReachableFrom(E, world.seeds)
           RF == ReachableFrom(F, world.seeds)
           All == ReachableFrom(world.links, world.seeds)
           After(m) == ReachableFrom(world.links, {m})
           Z == {m \in Nodes : m \in RE \/ After(m) \cap world.jewels = {}}
<1>1. /\ world.seeds \in SUBSET Nodes /\ world.jewels \in SUBSET Nodes
      /\ \A e \in world.links : e.from \in Nodes /\ e.to \in Nodes
      /\ \A e \in E : e.from \in Nodes /\ e.to \in Nodes
      /\ \A e \in F : e.from \in Nodes /\ e.to \in Nodes
  BY WorldIsGiven
<1>2. /\ F \subseteq world.links /\ E \subseteq F
      /\ \A e \in F : e \notin world.cut => e \in E
  BY DEF Realized, LinksOf, Crossed, DrawFor, LevelFor
<1>3. RE \subseteq All /\ RF \subseteq All
  <2>1. E \subseteq world.links
    BY <1>2
  <2> HIDE DEF E, F
  <2> QED
    BY <1>1, <1>2, <2>1, ReachableIsMonotone
<1>4. /\ world.seeds \subseteq RE /\ RE \subseteq Nodes /\ Closed(E, RE)
  <2> HIDE DEF E
  <2> QED
    BY <1>1, ReachableIsLeast
<1>5. \A e \in world.links : e.from \in All /\ After(e.to) \cap world.jewels # {} => e \notin world.cut
  BY DEF OnAWay
<1>6. \A m \in Nodes : m \in After(m) /\ After(m) \in SUBSET Nodes /\ Closed(world.links, After(m))
  <2> TAKE m \in Nodes
  <2>1. {m} \in SUBSET Nodes
    OBVIOUS
  <2> QED
    BY <1>1, <2>1, ReachableIsLeast
<1>7. \A e \in world.links : After(e.to) \subseteq After(e.from)
  <2> TAKE e \in world.links
  <2>1. e.from \in Nodes /\ e.to \in Nodes /\ {e.to} \in SUBSET Nodes
    BY <1>1
  <2>2. /\ e.from \in After(e.from) /\ After(e.from) \in SUBSET Nodes
        /\ Closed(world.links, After(e.from))
    BY <1>6, <2>1
  <2>3. {e.to} \subseteq After(e.from)
    BY <2>2 DEF Closed
  <2> QED
    BY <1>1, <2>1, <2>2, <2>3, ReachableIsLeast
<1> HIDE DEF E, F, RE, RF, All, After
<1>8. Z \in SUBSET Nodes /\ world.seeds \subseteq Z
  BY <1>1, <1>4
<1>9. Closed(F, Z)
  <2> SUFFICES ASSUME NEW f \in F, f.from \in Z
               PROVE  f.to \in Z
    BY DEF Closed
  <2>1. f \in world.links /\ f.to \in Nodes
    BY <1>1, <1>2
  <2>2. CASE After(f.to) \cap world.jewels = {}
    BY <2>1, <2>2
  <2>3. CASE After(f.to) \cap world.jewels # {}
    <3>1. f.from \in RE
      BY <1>7, <2>1, <2>3
    <3>2. f \in E
      BY <1>2, <1>3, <1>5, <2>1, <2>3, <3>1
    <3> QED
      BY <1>4, <2>1, <3>1, <3>2 DEF Closed
  <2> QED
    BY <2>2, <2>3
<1>10. RF \subseteq Z
  <2> HIDE DEF Z
  <2> QED
    BY <1>1, <1>8, <1>9, ReachableIsLeast DEF RF
<1>11. ASSUME NEW n \in world.jewels, NEW e \in F, e.to = n, e.from \in RF \ {n}
       PROVE  e \in E /\ e.from \in RE \ {n}
  <2>1. e \in world.links /\ n \in After(e.to)
    BY <1>1, <1>2, <1>6, <1>11
  <2>2. After(e.to) \cap world.jewels # {} /\ After(e.from) \cap world.jewels # {}
    BY <1>7, <2>1
  <2>3. e \in E
    BY <1>2, <1>3, <1>5, <1>11, <2>1, <2>2
  <2> QED
    BY <1>10, <1>11, <2>2, <2>3
<1> QED
  BY <1>11 DEF Compromised, E, F, RE, RF

\* A more capable attacker crosses what the other does.
LEMMA CapableCrossesNoLess ==
  ASSUME RiskTypes, NEW t \in 1..Trials
  PROVE  Realized("whole", t) \subseteq Realized("capable", t)
<1> SUFFICES ASSUME NEW e \in world.links, Crossed("whole", t, e)
             PROVE  Crossed("capable", t, e)
  BY DEF Realized, LinksOf
<1>1. Levels \in Nat \ {0}
  BY RiskAssumption
<1>2. e.key \in DrawKeys /\ e.level \in 1..Levels
  BY WorldIsGiven
<1>3. draws[t][e.key] \in 0..(Levels - 1)
  <2> DEFINE Draws == [DrawKeys -> 0..(Levels - 1)]
  <2>1. draws \in [1..Trials -> Draws]
    BY DEF RiskTypes
  <2>2. draws[t] \in Draws
    <3> HIDE DEF Draws
    <3> QED
      BY <2>1
  <2> QED
    BY <1>2, <2>2
<1> DEFINE bound == Min({e.level + 1, Levels})
<1>4. bound \in {e.level + 1, Levels}
  <2>1. e.level + 1 <= Levels \/ Levels <= e.level + 1
    BY <1>1, <1>2
  <2>2. \E x \in {e.level + 1, Levels} : \A y \in {e.level + 1, Levels} : x <= y
    BY <1>1, <1>2, <2>1
  <2> QED
    BY <2>2 DEF Min
<1>5. draws[t][e.key] < e.level
  BY DEF Crossed, DrawFor, LevelFor
<1> HIDE DEF bound
<1>6. draws[t][e.key] < bound
  BY <1>1, <1>2, <1>3, <1>4, <1>5
<1> QED
  BY <1>6 DEF Crossed, DrawFor, LevelFor, bound

LEMMA LikeWithLike == RiskInv => TrialsCompareLikeWithLike
<1> SUFFICES ASSUME RiskInv
             PROVE  TrialsCompareLikeWithLike
  OBVIOUS
<1> USE DEF RiskInv
<1>1. /\ sim \in 1..3 /\ Trials \in Nat
      /\ outcome \in [{"whole", "capable", "cut"} -> Seq(SUBSET Nodes)]
  BY RiskAssumption DEF RiskTypes
<1>2. Sims[1] = "whole" /\ Sims[2] = "capable" /\ Sims[3] = "cut"
  BY DEF Sims
<1>3. \A x \in {"whole", "capable", "cut"} :
        Len(outcome[x]) \in Nat /\ DOMAIN outcome[x] = 1..Len(outcome[x]) /\ Len(outcome[x]) <= Trials
  BY <1>1 DEF Progress
<1>4. sim > 1 => DOMAIN outcome["whole"] = 1..Trials
  BY <1>1, <1>2, <1>3 DEF Progress
<1>5. ASSUME NEW t \in DOMAIN outcome["cut"]
      PROVE  t \in 1..Trials /\ sim > 1
  <2>1. t \in 1..Len(outcome["cut"]) /\ t \in 1..Trials /\ outcome["cut"] # << >>
    BY <1>1, <1>3
  <2>2. ~(3 > sim)
    BY <1>2, <2>1 DEF Progress
  <2> QED
    BY <1>1, <2>1, <2>2
<1>6. ASSUME NEW t \in DOMAIN outcome["capable"]
      PROVE  t \in 1..Trials /\ sim > 1
  <2>1. t \in 1..Len(outcome["capable"]) /\ t \in 1..Trials /\ outcome["capable"] # << >>
    BY <1>1, <1>3
  <2>2. ~(2 > sim)
    BY <1>2, <2>1 DEF Progress
  <2> QED
    BY <1>1, <2>1, <2>2
<1>7. \A s \in {"whole", "capable", "cut"} : \A t \in DOMAIN outcome[s] : outcome[s][t] = Compromised(s, t)
  BY <1>1, TruthIs
<1>8. \A t : Realized("cut", t) \subseteq Realized("whole", t)
  BY DEF Realized, LinksOf, Crossed, DrawFor, LevelFor
<1>9. ASSUME NEW t \in DOMAIN outcome["cut"]
      PROVE  /\ outcome["cut"][t] \subseteq outcome["whole"][t]
             /\ world.cut \cap OnAWay = {} => outcome["cut"][t] = outcome["whole"][t]
  <2>1. outcome["cut"][t] = Compromised("cut", t) /\ outcome["whole"][t] = Compromised("whole", t)
    BY <1>4, <1>5, <1>7
  <2>2. Compromised("cut", t) \subseteq Compromised("whole", t)
    BY <1>8, MoreLinksMoreJewels
  <2>3. world.cut \cap OnAWay = {} => Compromised("whole", t) \subseteq Compromised("cut", t)
    BY IdleCut
  <2> QED
    BY <2>1, <2>2, <2>3
<1>10. ASSUME NEW t \in DOMAIN outcome["capable"]
       PROVE  outcome["whole"][t] \subseteq outcome["capable"][t]
  <2>1. outcome["capable"][t] = Compromised("capable", t) /\ outcome["whole"][t] = Compromised("whole", t)
    BY <1>4, <1>6, <1>7
  <2>2. Compromised("whole", t) \subseteq Compromised("capable", t)
    BY <1>6, CapableCrossesNoLess, MoreLinksMoreJewels
  <2> QED
    BY <2>1, <2>2
<1> QED
  BY <1>9, <1>10 DEF TrialsCompareLikeWithLike

\* A trial compromises a jewel exactly when the links it realizes lead to it or the
\* attacker holds it, whatever stamps the trials before have left; and the same trial
\* of a cut graph, or against a more capable attacker, is the same world (SimulateRisk,
\* WhatIfFromWith): for every graph, every draw and any number of stamps.
THEOREM TrialsStaySound == RiskSpec => []TrialsAreSound
<1>1. RiskInit => RiskInv
  BY RiskStarts
<1>2. RiskInv /\ [RiskNext]_riskVars => RiskInv'
  BY RiskStepKeeps
<1>3. RiskInv => TrialsAreSound
  BY LikeWithLike DEF RiskInv, TrialsAreSound
<1> QED
  BY <1>1, <1>2, <1>3, PTL DEF RiskSpec


---------------------------------------------------------------------------
(***************************************************************************)
(* What a report says, for every graph: its routes are routes of the       *)
(* graph, none is likelier, and none is missing.                           *)
(***************************************************************************)

\* The least of some numbers is one of them.
LEMMA LeastExists ==
  ASSUME NEW S \in SUBSET Nat, S # {}
  PROVE  Min(S) \in S /\ \A y \in S : Min(S) <= y
<1> SUFFICES ASSUME \A x \in S : \E y \in S : ~(x <= y)
             PROVE  FALSE
  BY DEF Min
<1> DEFINE T == {m \in Nat : \A y \in S : y > m}
<1>1. 0 \in T
  OBVIOUS
<1>2. ASSUME NEW m \in Nat, m \in T
      PROVE  m + 1 \in T
  <2> SUFFICES ASSUME NEW y \in S, ~(y > m + 1)
               PROVE  FALSE
    OBVIOUS
  <2>1. y = m + 1 /\ \A z \in S : z > m
    BY <1>2
  <2> QED
    BY <2>1
<1>3. Nat \subseteq T
  <2> HIDE DEF T
  <2> QED
    BY <1>1, <1>2, NatSetInduction
<1>4. PICK x \in S : TRUE
  OBVIOUS
<1>5. x \in Nat /\ x \in T
  <2> HIDE DEF T
  <2> QED
    BY <1>3, <1>4
<1>6. x > x
  BY <1>4, <1>5
<1> QED
  BY <1>5, <1>6

\* The sums of the first of k numbers.
Sums(g, a, k) == g = [i \in 0..k |-> IF i = 0 THEN 0 ELSE g[i - 1] + a[i]]

\* Sums exist, and are numbers.
LEMMA SumsRun ==
  ASSUME NEW k \in Nat, NEW a, \A i \in 1..k : a[i] \in Nat
  PROVE  /\ \E g : Sums(g, a, k)
         /\ \A g : Sums(g, a, k) => g \in [0..k -> Nat]
<1> DEFINE S == {m \in Nat : \E g : Sums(g, a, m)}
<1>1. 0 \in S
  <2>1. PICK g : g = [i \in 0..0 |-> 0]
    OBVIOUS
  <2>2. g = [i \in 0..0 |-> IF i = 0 THEN 0 ELSE g[i - 1] + a[i]]
    BY <2>1
  <2> QED
    BY <2>2 DEF Sums
<1>2. ASSUME NEW m \in Nat, m \in S
      PROVE  m + 1 \in S
  <2>1. PICK g : Sums(g, a, m)
    BY <1>2
  <2>2. PICK h : h = [i \in 0..(m + 1) |-> IF i <= m THEN g[i] ELSE g[m] + a[m + 1]]
    OBVIOUS
  <2>3. \A i \in 0..m : g[i] = IF i = 0 THEN 0 ELSE g[i - 1] + a[i]
    BY <2>1 DEF Sums
  <2>4. \A i \in 0..(m + 1) : h[i] = IF i = 0 THEN 0 ELSE h[i - 1] + a[i]
    <3> TAKE i \in 0..(m + 1)
    <3>1. CASE i = 0
      BY <2>2, <2>3, <3>1
    <3>2. CASE i \in 1..m
      <4>1. i - 1 \in 0..m /\ h[i - 1] = g[i - 1] /\ h[i] = g[i] /\ i \in 0..m
        BY <2>2, <3>2
      <4> QED
        BY <2>3, <3>2, <4>1
    <3>3. CASE i = m + 1
      <4>1. h[i - 1] = g[m] /\ h[i] = g[m] + a[i]
        BY <2>2, <3>3
      <4> QED
        BY <3>3, <4>1
    <3> QED
      BY <3>1, <3>2, <3>3
  <2>5. h = [i \in 0..(m + 1) |-> IF i = 0 THEN 0 ELSE h[i - 1] + a[i]]
    BY <2>2, <2>4
  <2> QED
    BY <2>5 DEF Sums
<1>3. k \in S
  <2> HIDE DEF S
  <2> QED
    BY <1>1, <1>2, NatSetInduction
<1>4. ASSUME NEW g, Sums(g, a, k)
      PROVE  g \in [0..k -> Nat]
  <2> DEFINE T == {i \in Nat : i <= k => g[i] \in Nat}
  <2>1. g = [i \in 0..k |-> IF i = 0 THEN 0 ELSE g[i - 1] + a[i]]
    BY <1>4 DEF Sums
  <2>2. \A i \in 0..k : g[i] = IF i = 0 THEN 0 ELSE g[i - 1] + a[i]
    BY <2>1
  <2>3. 0 \in T
    BY <2>2
  <2>4. ASSUME NEW i \in Nat, i \in T
        PROVE  i + 1 \in T
    <3> SUFFICES ASSUME i + 1 <= k
                 PROVE  g[i + 1] \in Nat
      OBVIOUS
    <3>1. i + 1 \in 0..k /\ (i + 1) - 1 = i /\ i + 1 # 0 /\ i <= k /\ i + 1 \in 1..k
      OBVIOUS
    <3>2. g[i + 1] = g[i] + a[i + 1]
      BY <2>2, <3>1
    <3>3. g[i] \in Nat /\ a[i + 1] \in Nat
      BY <2>4, <3>1
    <3> QED
      BY <3>2, <3>3
  <2>5. Nat \subseteq T
    <3> HIDE DEF T
    <3> QED
      BY <2>3, <2>4, NatSetInduction
  <2>6. \A i \in 0..k : g[i] \in Nat
    BY <2>5
  <2>7. DOMAIN g = 0..k /\ g = [i \in DOMAIN g |-> g[i]]
    BY <2>1
  <2> QED
    BY <2>6, <2>7
<1> QED
  BY <1>3, <1>4

---------------------------------------------------------------------------

\* The loopless walks of k hops.
Walk(E, r, src, k) ==
  /\ r \in Seq(Nodes) /\ Len(r) = k + 1 /\ r[1] = src
  /\ \A i \in 1..k : \E e \in E : e.from = r[i] /\ e.to = r[i + 1]
  /\ \A i, m \in 1..(k + 1) : r[i] = r[m] => i = m

Walks(E, src, k) == {r \in Seq(Nodes) : Walk(E, r, src, k)}

Longer(E, R) ==
  UNION {{Append(r, e.to) : e \in {x \in EdgesFrom(E, r[Len(r)]) : x.to \notin Range(r)}} : r \in R}

\* The walks of a hop more are those longer by an edge to a new node.
LEMMA WalksGrow ==
  ASSUME NEW E \in SUBSET Edge, NEW src \in Nodes, NEW k \in Nat
  PROVE  /\ Walks(E, src, 0) = {<<src>>}
         /\ Longer(E, Walks(E, src, k)) = Walks(E, src, k + 1)
<1>1. Walks(E, src, 0) = {<<src>>}
  <2>1. Walk(E, <<src>>, src, 0) /\ <<src>> \in Seq(Nodes)
    BY DEF Walk
  <2>2. ASSUME NEW r, Walk(E, r, src, 0)
        PROVE  r = <<src>>
    BY <2>2 DEF Walk
  <2> QED
    BY <2>1, <2>2 DEF Walks
<1>2. ASSUME NEW r \in Seq(Nodes), Walk(E, r, src, k), NEW e \in E, e.from = r[Len(r)], e.to \notin Range(r)
      PROVE  Walk(E, Append(r, e.to), src, k + 1)
  <2> DEFINE w == Append(r, e.to)
  <2>0. /\ Len(r) = k + 1 /\ r[1] = src
        /\ \A i \in 1..k : \E x \in E : x.from = r[i] /\ x.to = r[i + 1]
        /\ \A i, m \in 1..(k + 1) : r[i] = r[m] => i = m
    BY <1>2, Zenon DEF Walk
  <2>1. DOMAIN r = 1..(k + 1)
    BY <2>0
  <2>2. e.to \in Nodes
    BY DEF Edge
  <2>3. /\ w \in Seq(Nodes) /\ Len(w) = k + 2 /\ w[k + 2] = e.to
        /\ \A i \in 1..(k + 1) : w[i] = r[i]
    BY <2>0, <2>1, <2>2
  <2>4. \A i \in 1..(k + 1) : r[i] # e.to
    BY <1>2, <2>0, <2>1 DEF Range
  <2> HIDE DEF w
  <2>5. ASSUME NEW i \in 1..(k + 1)
        PROVE  \E x \in E : x.from = w[i] /\ x.to = w[i + 1]
    <3>1. CASE i = k + 1
      <4>1. e.from = w[i] /\ e.to = w[i + 1]
        BY <1>2, <2>0, <2>1, <2>3, <3>1
      <4> QED
        BY <4>1
    <3>2. CASE i \in 1..k
      BY <2>0, <2>1, <2>3, <3>2
    <3> QED
      BY <3>1, <3>2
  <2>6. \A i, m \in 1..(k + 2) : w[i] = w[m] => i = m
    BY <2>0, <2>1, <2>3, <2>4
  <2>7. w[1] = src
    BY <2>0, <2>1, <2>3
  <2> QED
    BY <2>3, <2>5, <2>6, <2>7 DEF Walk, w
<1>3. ASSUME NEW w \in Seq(Nodes), Walk(E, w, src, k + 1)
      PROVE  \E r \in Walks(E, src, k) : \E e \in EdgesFrom(E, r[Len(r)]) : e.to \notin Range(r) /\ w = Append(r, e.to)
  <2>1. /\ Len(w) = k + 2 /\ w[1] = src
        /\ \A i \in 1..(k + 1) : \E x \in E : x.from = w[i] /\ x.to = w[i + 1]
        /\ \A i, m \in 1..(k + 2) : w[i] = w[m] => i = m
    BY <1>3 DEF Walk
  <2>2. PICK r : r = SubSeq(w, 1, k + 1)
    OBVIOUS
  <2>3. /\ r \in Seq(Nodes) /\ Len(r) = k + 1 /\ DOMAIN r = 1..(k + 1)
        /\ \A i \in 1..(k + 1) : r[i] = w[i]
    BY <2>1, <2>2
  <2>4. Walk(E, r, src, k)
    <3>1. \A i \in 1..k : \E x \in E : x.from = r[i] /\ x.to = r[i + 1]
      BY <2>1, <2>3
    <3>2. \A i, m \in 1..(k + 1) : r[i] = r[m] => i = m
      BY <2>1, <2>3
    <3>3. r[1] = src
      BY <2>1, <2>3
    <3> QED
      BY <2>3, <3>1, <3>2, <3>3 DEF Walk
  <2>5. PICK e \in E : e.from = w[k + 1] /\ e.to = w[k + 2]
    BY <2>1
  <2>6. e \in EdgesFrom(E, r[Len(r)])
    BY <2>3, <2>5 DEF EdgesFrom
  <2>7. e.to \notin Range(r)
    BY <2>1, <2>3, <2>5 DEF Range
  <2>8. w = Append(r, e.to)
    BY <2>1, <2>3, <2>5
  <2> QED
    BY <2>3, <2>4, <2>6, <2>7, <2>8 DEF Walks
<1>4. Longer(E, Walks(E, src, k)) \subseteq Walks(E, src, k + 1)
  <2> SUFFICES ASSUME NEW w \in Longer(E, Walks(E, src, k))
               PROVE  w \in Walks(E, src, k + 1)
    OBVIOUS
  <2>1. PICK r \in Walks(E, src, k) : \E e \in EdgesFrom(E, r[Len(r)]) : e.to \notin Range(r) /\ w = Append(r, e.to)
    BY DEF Longer
  <2>2. PICK e \in EdgesFrom(E, r[Len(r)]) : e.to \notin Range(r) /\ w = Append(r, e.to)
    BY <2>1
  <2>3. r \in Seq(Nodes) /\ Walk(E, r, src, k) /\ e \in E /\ e.from = r[Len(r)]
    BY DEF Walks, EdgesFrom
  <2>4. Walk(E, w, src, k + 1)
    BY <1>2, <2>2, <2>3
  <2> QED
    BY <2>4 DEF Walks, Walk
<1>5. Walks(E, src, k + 1) \subseteq Longer(E, Walks(E, src, k))
  BY <1>3 DEF Walks, Longer
<1> QED
  BY <1>1, <1>4, <1>5

\* The recursion that gathers the routes gathers the walks.
LEMMA WalksAreGathered ==
  ASSUME NEW E \in SUBSET Edge, NEW src \in Nodes, NEW k \in Nat, NEW g,
         g = [i \in 0..k |-> IF i = 0 THEN {<<src>>}
                             ELSE UNION {{Append(r, e.to) : e \in {x \in EdgesFrom(E, r[Len(r)]) : x.to \notin Range(r)}}
                                           : r \in g[i - 1]}]
  PROVE  \A i \in 0..k : g[i] = Walks(E, src, i)
<1> DEFINE T == {i \in Nat : i <= k => g[i] = Walks(E, src, i)}
<1>1. \A i \in 0..k : g[i] = IF i = 0 THEN {<<src>>} ELSE Longer(E, g[i - 1])
  BY Zenon DEF Longer
<1>2. 0 \in T
  <2>1. g[0] = {<<src>>}
    BY <1>1
  <2> QED
    BY <2>1, WalksGrow
<1>3. ASSUME NEW i \in Nat, i \in T
      PROVE  i + 1 \in T
  <2> SUFFICES ASSUME i + 1 <= k
               PROVE  g[i + 1] = Walks(E, src, i + 1)
    OBVIOUS
  <2>1. i + 1 \in 0..k /\ i + 1 # 0 /\ (i + 1) - 1 = i /\ i <= k
    OBVIOUS
  <2>2. g[i + 1] = Longer(E, g[i])
    BY <1>1, <2>1
  <2>3. g[i] = Walks(E, src, i)
    BY <1>3, <2>1
  <2> QED
    BY <2>2, <2>3, WalksGrow
<1>4. Nat \subseteq T
  <2> HIDE DEF T
  <2> QED
    BY <1>2, <1>3, NatSetInduction
<1> QED
  BY <1>4

\* So it has a solution.
LEMMA WalksSolve ==
  ASSUME NEW E \in SUBSET Edge, NEW src \in Nodes, NEW k \in Nat
  PROVE  \E g : g = [i \in 0..k |-> IF i = 0 THEN {<<src>>}
                             ELSE UNION {{Append(r, e.to) : e \in {x \in EdgesFrom(E, r[Len(r)]) : x.to \notin Range(r)}}
                                           : r \in g[i - 1]}]
<1>1. PICK g : g = [i \in 0..k |-> Walks(E, src, i)]
  OBVIOUS
<1>2. ASSUME NEW i \in 0..k
      PROVE  g[i] = IF i = 0 THEN {<<src>>} ELSE Longer(E, g[i - 1])
  <2>1. CASE i = 0
    BY <1>1, <2>1, WalksGrow
  <2>2. CASE i # 0
    <3>1. i - 1 \in Nat /\ i - 1 \in 0..k /\ (i - 1) + 1 = i
      BY <2>2
    <3>2. Longer(E, Walks(E, src, i - 1)) = Walks(E, src, i)
      BY <3>1, WalksGrow
    <3> QED
      BY <1>1, <2>2, <3>1, <3>2
  <2> QED
    BY <2>1, <2>2
<1>3. g = [i \in 0..k |-> IF i = 0 THEN {<<src>>} ELSE Longer(E, g[i - 1])]
  BY <1>1, <1>2
<1> QED
  BY <1>3, Zenon DEF Longer

\* A loopless walk has no more nodes than there are.
LEMMA WalksAreShort ==
  ASSUME NEW E, NEW src, NEW k \in Nat, NEW r, Walk(E, r, src, k)
  PROVE  k \in 0..Cardinality(Nodes)
<1>1. IsFiniteSet(Nodes) /\ Cardinality(Nodes) \in Nat
  BY GraphAssumption, FS_CardinalityType
<1>2. r \in [1..(k + 1) -> Nodes] /\ \A i, m \in 1..(k + 1) : r[i] = r[m] => i = m
  BY DEF Walk
<1>3. r \in Injection(1..(k + 1), Nodes)
  BY <1>2, SMT DEF Injection, IsInjective
<1>4. IsFiniteSet(1..(k + 1)) /\ Cardinality(1..(k + 1)) = k + 1
  BY FS_Interval
<1>5. k + 1 <= Cardinality(Nodes)
  BY <1>1, <1>3, <1>4, FS_Injection
<1> QED
  BY <1>1, <1>5

\* The routes from src are the loopless walks from it.
LEMMA RoutesAreWalks ==
  ASSUME NEW E \in SUBSET Edge, NEW src \in Nodes, NEW dst, NEW r
  PROVE  r \in Routes(E, src, dst) <=> \E k \in Nat : Walk(E, r, src, k) /\ r[k + 1] = dst
<1> DEFINE N == Cardinality(Nodes)
           g == CHOOSE g : g = [k \in 0..N |-> IF k = 0 THEN {<<src>>}
                             ELSE UNION {{Append(x, e.to) : e \in {y \in EdgesFrom(E, x[Len(x)]) : y.to \notin Range(x)}}
                                           : x \in g[k - 1]}]
<1>1. RoutesFrom(E, src) = UNION {g[k] : k \in 0..N}
  BY Zenon DEF RoutesFrom
<1>2. N \in Nat
  BY GraphAssumption, FS_CardinalityType
<1>3. g = [k \in 0..N |-> IF k = 0 THEN {<<src>>}
                             ELSE UNION {{Append(x, e.to) : e \in {y \in EdgesFrom(E, x[Len(x)]) : y.to \notin Range(x)}}
                                           : x \in g[k - 1]}]
  <2> HIDE DEF N
  <2> QED
    BY <1>2, WalksSolve
<1> HIDE DEF g, N
<1>4. \A k \in 0..N : g[k] = Walks(E, src, k)
  BY <1>2, <1>3, WalksAreGathered
<1>5. r \in RoutesFrom(E, src) <=> \E k \in 0..N : r \in g[k]
  BY <1>1
<1>6. r \in RoutesFrom(E, src) <=> \E k \in 0..N : Walk(E, r, src, k)
  BY <1>4, <1>5 DEF Walks, Walk
<1>7. \A k \in Nat : Walk(E, r, src, k) => k \in 0..N
  BY WalksAreShort DEF N
<1>8. \A k \in Nat : Walk(E, r, src, k) => r[Len(r)] = r[k + 1]
  BY DEF Walk
<1>9. r \in Routes(E, src, dst) <=> r \in RoutesFrom(E, src) /\ r[Len(r)] = dst
  BY DEF Routes
<1> QED
  BY <1>2, <1>6, <1>7, <1>8, <1>9

\* A hop costs what one of its edges does, and none of them less.
LEMMA HopCostIs ==
  ASSUME NEW E \in SUBSET Edge, NEW m, NEW n, \E e \in E : e.from = m /\ e.to = n
  PROVE  /\ HopCost(E, m, n) \in Nat
         /\ \E e \in E : e.from = m /\ e.to = n /\ HopCost(E, m, n) = e.cost
<1> DEFINE S == {e.cost : e \in EdgesBetween(E, m, n)}
<1>1. HopCost(E, m, n) = Min(S)
  BY DEF HopCost
<1>2. S \in SUBSET Nat /\ S # {}
  BY GraphAssumption DEF EdgesBetween, Edge
<1>3. Min(S) \in S
  <2> HIDE DEF S
  <2> QED
    BY <1>2, LeastExists
<1> QED
  BY <1>1, <1>2, <1>3 DEF EdgesBetween

\* What the first of k hops cost together.
HopSums(E, r, k) ==
  {g \in [0..k -> Nat] : g[0] = 0 /\ \A i \in 1..k : g[i] = g[i - 1] + HopCost(E, r[i], r[i + 1])}

\* A walk's cost is the sum of its hops'.
LEMMA RouteCostIs ==
  ASSUME NEW E \in SUBSET Edge, NEW src, NEW k \in Nat, NEW r, Walk(E, r, src, k)
  PROVE  \E g \in HopSums(E, r, k) : RouteCost(E, r) = g[k]
<1> DEFINE g == CHOOSE g : g = [i \in 0..(Len(r) - 1) |-> IF i = 0 THEN 0 ELSE g[i - 1] + HopCost(E, r[i], r[i + 1])]
<1>1. RouteCost(E, r) = g[Len(r) - 1]
  BY Zenon DEF RouteCost
<1>2. Len(r) - 1 = k
  BY DEF Walk
<1>3. PICK a : a = [i \in 1..k |-> HopCost(E, r[i], r[i + 1])]
  OBVIOUS
<1>4. \A i \in 1..k : a[i] \in Nat
  <2> TAKE i \in 1..k
  <2>1. \E e \in E : e.from = r[i] /\ e.to = r[i + 1]
    BY DEF Walk
  <2> QED
    BY <1>3, <2>1, HopCostIs
<1>5. PICK h : Sums(h, a, k)
  BY <1>4, SumsRun
<1>6. h = [i \in 0..k |-> IF i = 0 THEN 0 ELSE h[i - 1] + a[i]]
  BY <1>5 DEF Sums
<1>7. h = [i \in 0..k |-> IF i = 0 THEN 0 ELSE h[i - 1] + HopCost(E, r[i], r[i + 1])]
  <2>1. \A i \in 0..k : (IF i = 0 THEN 0 ELSE h[i - 1] + a[i]) = IF i = 0 THEN 0 ELSE h[i - 1] + HopCost(E, r[i], r[i + 1])
    BY <1>3
  <2> QED
    BY <1>6, <2>1
<1>8. g = [i \in 0..(Len(r) - 1) |-> IF i = 0 THEN 0 ELSE g[i - 1] + HopCost(E, r[i], r[i + 1])]
  BY <1>2, <1>7
<1> HIDE DEF g
<1>9. g = [i \in 0..k |-> IF i = 0 THEN 0 ELSE g[i - 1] + HopCost(E, r[i], r[i + 1])]
  BY <1>2, <1>8
<1>10. \A i \in 0..k : g[i] = IF i = 0 THEN 0 ELSE g[i - 1] + HopCost(E, r[i], r[i + 1])
  BY <1>9, Zenon
<1>11. Sums(g, a, k)
  <2>1. \A i \in 0..k : (IF i = 0 THEN 0 ELSE g[i - 1] + a[i]) = IF i = 0 THEN 0 ELSE g[i - 1] + HopCost(E, r[i], r[i + 1])
    BY <1>3
  <2>2. g = [i \in 0..k |-> IF i = 0 THEN 0 ELSE g[i - 1] + a[i]]
    BY <1>9, <2>1
  <2> QED
    BY <2>2 DEF Sums
<1>12. g \in [0..k -> Nat]
  BY <1>4, <1>11, SumsRun
<1>13. \A i \in 1..k : g[i] = g[i - 1] + HopCost(E, r[i], r[i + 1])
  BY <1>10
<1>14. RouteCost(E, r) = g[k] /\ g[0] = 0
  BY <1>1, <1>2, <1>10
<1>15. g \in HopSums(E, r, k)
  BY <1>12, <1>13, <1>14 DEF HopSums
<1> QED
  BY <1>14, <1>15

\* The distances from s, when no edge makes one shorter.
Settled(E, dist, s) ==
  /\ dist \in [Nodes -> Nat \cup {Unreached}] /\ dist[s] = 0
  /\ \A e \in E : dist[e.from] # Unreached => dist[e.to] # Unreached /\ dist[e.to] <= dist[e.from] + e.cost

\* No walk is shorter than they say.
LEMMA NoWalkIsCheaper ==
  ASSUME NEW E \in SUBSET Edge, NEW s \in Nodes, NEW dist, Settled(E, dist, s),
         NEW k \in Nat, NEW r, Walk(E, r, s, k)
  PROVE  dist[r[k + 1]] # Unreached /\ dist[r[k + 1]] <= RouteCost(E, r)
<1>0. PICK g \in HopSums(E, r, k) : RouteCost(E, r) = g[k]
  BY RouteCostIs, Zenon
<1>1. /\ RouteCost(E, r) = g[k] /\ g[0] = 0 /\ g \in [0..k -> Nat]
      /\ \A i \in 1..k : g[i] = g[i - 1] + HopCost(E, r[i], r[i + 1])
  BY <1>0 DEF HopSums
<1>2. /\ r \in Seq(Nodes) /\ Len(r) = k + 1 /\ r[1] = s
      /\ \A i \in 1..k : \E e \in E : e.from = r[i] /\ e.to = r[i + 1]
  BY DEF Walk
<1>3. \A i \in 1..(k + 1) : r[i] \in Nodes
  BY <1>2
<1>4. dist \in [Nodes -> Nat \cup {Unreached}] /\ dist[s] = 0
  BY DEF Settled
<1> DEFINE T == {i \in Nat : i <= k => dist[r[i + 1]] # Unreached /\ dist[r[i + 1]] <= g[i]}
<1>5. 0 \in T
  BY <1>1, <1>2, <1>4 DEF Unreached
<1>6. ASSUME NEW i \in Nat, i \in T
      PROVE  i + 1 \in T
  <2> SUFFICES ASSUME i + 1 <= k
               PROVE  dist[r[(i + 1) + 1]] # Unreached /\ dist[r[(i + 1) + 1]] <= g[i + 1]
    OBVIOUS
  <2>1. i + 1 \in 1..k /\ i \in 0..k /\ i + 1 \in 0..k /\ (i + 1) - 1 = i /\ (i + 1) + 1 \in 1..(k + 1)
    OBVIOUS
  <2>2. dist[r[i + 1]] # Unreached /\ dist[r[i + 1]] <= g[i]
    BY <1>6, <2>1
  <2>3. PICK e \in E : e.from = r[i + 1] /\ e.to = r[(i + 1) + 1] /\ HopCost(E, r[i + 1], r[(i + 1) + 1]) = e.cost
    <3>1. \E e \in E : e.from = r[i + 1] /\ e.to = r[(i + 1) + 1]
      BY <1>2, <2>1
    <3> QED
      BY <3>1, HopCostIs
  <2>4. dist[r[(i + 1) + 1]] # Unreached /\ dist[r[(i + 1) + 1]] <= dist[r[i + 1]] + e.cost
    BY <2>2, <2>3 DEF Settled
  <2>5. g[i + 1] = g[i] + e.cost
    BY <1>1, <2>1, <2>3
  <2>6. /\ dist[r[(i + 1) + 1]] \in Nat \cup {Unreached} /\ dist[r[i + 1]] \in Nat \cup {Unreached}
        /\ e.cost \in Nat /\ g[i] \in Nat /\ g[i + 1] \in Nat
    BY <1>1, <1>3, <1>4, <2>1, GraphAssumption DEF Edge
  <2> QED
    BY <2>2, <2>4, <2>5, <2>6 DEF Unreached
<1>7. k \in T
  <2> HIDE DEF T
  <2> QED
    BY <1>5, <1>6, NatSetInduction
<1> QED
  BY <1>1, <1>7

\* The distances account for each of k + 1 steps from s.
Accounted(dist, s, c, k) ==
  /\ c \in Seq(Edge) /\ Len(c) = k + 1 /\ c[1].from = s
  /\ \A i \in 1..(k + 1) : dist[c[i].to] = dist[c[i].from] + c[i].cost
  /\ \A i \in 1..k : c[i + 1].from = c[i].to

\* A path whose steps the distances account for costs what its end is from s.
LEMMA CostOfIs ==
  ASSUME NEW path, NEW c, path.steps = c, NEW k \in Nat,
         NEW dist \in [Nodes -> Nat \cup {Unreached}], NEW s \in Nodes, dist[s] = 0, Accounted(dist, s, c, k)
  PROVE  CostOf(path) = dist[c[k + 1].to]
<1>0. /\ c \in Seq(Edge) /\ Len(c) = k + 1 /\ c[1].from = s
      /\ \A i \in 1..(k + 1) : dist[c[i].to] = dist[c[i].from] + c[i].cost
      /\ \A i \in 1..k : c[i + 1].from = c[i].to
  BY DEF Accounted
<1> DEFINE g == CHOOSE g : g = [i \in 0..Len(path.steps) |-> IF i = 0 THEN 0 ELSE g[i - 1] + path.steps[i].cost]
<1>1. CostOf(path) = g[Len(path.steps)]
  BY Zenon DEF CostOf
<1>2. \A i \in 1..(k + 1) : c[i].cost \in Nat
  <2>1. \A i \in 1..(k + 1) : c[i] \in Edge
    BY <1>0
  <2> QED
    BY <2>1, GraphAssumption DEF Edge
<1>3. PICK a : a = [i \in 1..(k + 1) |-> c[i].cost]
  OBVIOUS
<1>4. \A i \in 1..(k + 1) : a[i] \in Nat
  BY <1>2, <1>3
<1>5. PICK h : Sums(h, a, k + 1)
  <2>1. PICK m \in Nat : m = k + 1
    OBVIOUS
  <2>2. \A i \in 1..m : a[i] \in Nat
    BY <1>4, <2>1
  <2>3. \E h : Sums(h, a, m)
    BY <2>2, SumsRun
  <2> QED
    BY <2>1, <2>3
<1>6. h = [i \in 0..(k + 1) |-> IF i = 0 THEN 0 ELSE h[i - 1] + a[i]]
  BY <1>5 DEF Sums
<1>7. h = [i \in 0..(k + 1) |-> IF i = 0 THEN 0 ELSE h[i - 1] + c[i].cost]
  <2>1. \A i \in 0..(k + 1) : (IF i = 0 THEN 0 ELSE h[i - 1] + a[i]) = IF i = 0 THEN 0 ELSE h[i - 1] + c[i].cost
    BY <1>3
  <2> QED
    BY <1>6, <2>1
<1>8. g = [i \in 0..Len(path.steps) |-> IF i = 0 THEN 0 ELSE g[i - 1] + path.steps[i].cost]
  <2>1. h = [i \in 0..Len(path.steps) |-> IF i = 0 THEN 0 ELSE h[i - 1] + path.steps[i].cost]
    BY <1>7, <1>0
  <2> QED
    BY <2>1, Zenon
<1> HIDE DEF g
<1>9. g = [i \in 0..(k + 1) |-> IF i = 0 THEN 0 ELSE g[i - 1] + c[i].cost]
  BY <1>8, <1>0
<1>10. \A i \in 0..(k + 1) : g[i] = IF i = 0 THEN 0 ELSE g[i - 1] + c[i].cost
  BY <1>9, Zenon
<1> DEFINE T == {i \in Nat : i <= k => g[i + 1] = dist[c[i + 1].to]}
<1>11. 0 \in T
  <2>1. g[0] = 0 /\ g[1] = g[0] + c[1].cost
    BY <1>10
  <2>2. dist[c[1].to] = 0 + c[1].cost
    BY <1>0
  <2> QED
    BY <2>1, <2>2
<1>12. ASSUME NEW i \in Nat, i \in T
      PROVE  i + 1 \in T
  <2> SUFFICES ASSUME i + 1 <= k
               PROVE  g[(i + 1) + 1] = dist[c[(i + 1) + 1].to]
    OBVIOUS
  <2>1. /\ i + 1 \in 1..k /\ i <= k /\ (i + 1) + 1 \in 1..(k + 1) /\ (i + 1) + 1 \in 0..(k + 1)
        /\ ((i + 1) + 1) - 1 = i + 1 /\ (i + 1) + 1 # 0
    OBVIOUS
  <2>2. g[(i + 1) + 1] = g[i + 1] + c[(i + 1) + 1].cost
    BY <1>10, <2>1
  <2>3. g[i + 1] = dist[c[i + 1].to]
    BY <1>12, <2>1
  <2>4. dist[c[(i + 1) + 1].to] = dist[c[(i + 1) + 1].from] + c[(i + 1) + 1].cost
    BY <1>0, <2>1
  <2>5. c[(i + 1) + 1].from = c[i + 1].to
    BY <1>0, <2>1
  <2> QED
    BY <2>2, <2>3, <2>4, <2>5
<1>13. k \in T
  <2> HIDE DEF T
  <2> QED
    BY <1>11, <1>12, NatSetInduction
<1> QED
  BY <1>1, <1>0, <1>13

---------------------------------------------------------------------------

\* What a search that ends knows: distances that no edge makes shorter, and
\* for a node that is reached the edge it was found by, from one nearer the
\* root of the search tree.
Tree(E, dist, via, s, rank) ==
  /\ Settled(E, dist, s)
  /\ rank \in [Nodes -> Nat]
  /\ \A n \in Nodes \ {s} : dist[n] # Unreached =>
       /\ via[n] \in E /\ via[n].to = n /\ dist[via[n].from] # Unreached
       /\ dist[n] = dist[via[n].from] + via[n].cost
       /\ rank[via[n].from] < rank[n]

\* A part of the way from s to j, read off from its end.
Climb(E, dist, via, s, rank, j, c) ==
  /\ c \in Seq(E)
  /\ \A i \in 1..Len(c) : c[i].to # s /\ dist[c[i].to] # Unreached /\ c[i] = via[c[i].to]
  /\ \A i \in 1..(Len(c) - 1) : c[i + 1].from = c[i].to
  /\ \A i, m \in 1..Len(c) : i < m => rank[c[i].to] < rank[c[m].to]
  /\ c # << >> => c[Len(c)].to = j

\* Where it has got to.
Foot(c, j) == IF c = << >> THEN j ELSE c[1].from

\* It is at a node that the search has reached.
LEMMA FootIsReached ==
  ASSUME NEW E \in SUBSET Edge, NEW dist, NEW via, NEW s \in Nodes, NEW rank, Tree(E, dist, via, s, rank),
         NEW j \in Nodes, dist[j] # Unreached, NEW c, Climb(E, dist, via, s, rank, j, c)
  PROVE  Foot(c, j) \in Nodes /\ dist[Foot(c, j)] # Unreached
<1>1. CASE c = << >>
  BY <1>1 DEF Foot
<1>2. CASE c # << >>
  <2>1. c \in Seq(E) /\ 1 \in 1..Len(c)
    BY <1>2 DEF Climb
  <2>2. /\ c[1] \in E /\ c[1].to # s /\ dist[c[1].to] # Unreached /\ c[1] = via[c[1].to]
    BY <2>1 DEF Climb
  <2>3. c[1].to \in Nodes /\ c[1].from \in Nodes
    BY <2>2 DEF Edge
  <2>4. dist[via[c[1].to].from] # Unreached
    BY <2>2, <2>3 DEF Tree
  <2> QED
    BY <1>2, <2>2, <2>3, <2>4 DEF Foot
<1> QED
  BY <1>1, <1>2

\* One edge further back is still a part of the way.
LEMMA ClimbGrows ==
  ASSUME NEW E \in SUBSET Edge, NEW dist, NEW via, NEW s \in Nodes, NEW rank, Tree(E, dist, via, s, rank),
         NEW j \in Nodes, dist[j] # Unreached, NEW c, Climb(E, dist, via, s, rank, j, c), Foot(c, j) # s
  PROVE  /\ Climb(E, dist, via, s, rank, j, <<via[Foot(c, j)]>> \o c)
         /\ Len(<<via[Foot(c, j)]>> \o c) = Len(c) + 1
<1>0. PICK at : at = Foot(c, j)
  OBVIOUS
<1>1. at \in Nodes \ {s} /\ dist[at] # Unreached
  BY <1>0, FootIsReached
<1>2. PICK x \in E : x = via[at]
  BY <1>1 DEF Tree
<1>3. x.to = at /\ rank[x.from] < rank[at]
  BY <1>1, <1>2 DEF Tree
<1>4. PICK n \in Nat : n = Len(c)
  BY DEF Climb
<1>5. /\ c \in Seq(E)
      /\ \A i \in 1..n : c[i] \in E /\ c[i].to # s /\ dist[c[i].to] # Unreached /\ c[i] = via[c[i].to]
      /\ \A i \in 1..(n - 1) : c[i + 1].from = c[i].to
      /\ \A i, m \in 1..n : i < m => rank[c[i].to] < rank[c[m].to]
      /\ n > 0 => c[n].to = j
      /\ n > 0 <=> c # << >>
  BY <1>4 DEF Climb
<1>6. \A i \in 1..n : c[i].to \in Nodes /\ rank[c[i].to] \in Nat
  BY <1>5 DEF Edge, Tree
<1>7. rank[at] \in Nat
  BY <1>1 DEF Tree
<1>8. PICK d : d = <<x>> \o c
  OBVIOUS
<1>9. /\ d \in Seq(E) /\ Len(d) = n + 1 /\ d[1] = x
      /\ \A i \in 1..n : d[i + 1] = c[i]
  BY <1>4, <1>5, <1>8
<1>10. \A i \in 1..(n + 1) : d[i].to # s /\ dist[d[i].to] # Unreached /\ d[i] = via[d[i].to]
  <2> TAKE i \in 1..(n + 1)
  <2>1. CASE i = 1
    BY <1>1, <1>2, <1>3, <1>9, <2>1
  <2>2. CASE i # 1
    <3>1. i - 1 \in 1..n /\ (i - 1) + 1 = i
      BY <2>2
    <3> QED
      BY <1>5, <1>9, <3>1
  <2> QED
    BY <2>1, <2>2
<1>11. \A i \in 1..n : d[i + 1].from = d[i].to
  <2> TAKE i \in 1..n
  <2>1. CASE i = 1
    <3>1. at = c[1].from
      BY <1>0, <1>5 DEF Foot
    <3> QED
      BY <1>3, <1>9, <2>1, <3>1
  <2>2. CASE i # 1
    <3>1. i - 1 \in 1..(n - 1) /\ (i - 1) + 1 = i /\ i - 1 \in 1..n
      BY <2>2
    <3>2. c[i].from = c[i - 1].to
      BY <1>5, <3>1
    <3>3. d[i] = c[i - 1] /\ d[i + 1] = c[i]
      BY <1>9, <3>1
    <3> QED
      BY <3>2, <3>3
  <2> QED
    BY <2>1, <2>2
<1>12. \A i, m \in 1..(n + 1) : i < m => rank[d[i].to] < rank[d[m].to]
  <2> TAKE i, m \in 1..(n + 1)
  <2> HAVE i < m
  <2>1. m - 1 \in 1..n /\ (m - 1) + 1 = m
    OBVIOUS
  <2>2. d[m] = c[m - 1]
    BY <1>9, <2>1
  <2>3. CASE i = 1
    <3>1. rank[at] < rank[c[1].to]
      <4>1. at = c[1].from /\ 1 \in 1..n
        BY <1>0, <1>5, <2>1 DEF Foot
      <4>2. c[1] = via[c[1].to] /\ c[1].to \in Nodes \ {s} /\ dist[c[1].to] # Unreached
        BY <1>5, <1>6, <4>1
      <4>3. rank[via[c[1].to].from] < rank[c[1].to]
        BY <4>2 DEF Tree
      <4> QED
        BY <4>1, <4>2, <4>3
    <3>2. m - 1 = 1 \/ rank[c[1].to] < rank[c[m - 1].to]
      BY <1>5, <2>1
    <3>3. rank[c[1].to] \in Nat /\ rank[c[m - 1].to] \in Nat
      BY <1>6, <2>1
    <3>4. rank[at] < rank[c[m - 1].to]
      BY <1>7, <3>1, <3>2, <3>3
    <3> QED
      BY <1>3, <1>9, <2>2, <2>3, <3>4
  <2>4. CASE i # 1
    <3>1. i - 1 \in 1..n /\ (i - 1) + 1 = i /\ i - 1 < m - 1
      BY <2>4
    <3>2. d[i] = c[i - 1]
      BY <1>9, <3>1
    <3> QED
      BY <1>5, <2>1, <2>2, <3>1, <3>2
  <2> QED
    BY <2>3, <2>4
<1>13. d[n + 1].to = j
  <2>1. CASE n = 0
    BY <1>0, <1>3, <1>5, <1>9, <2>1 DEF Foot
  <2>2. CASE n # 0
    <3>1. d[n + 1] = c[n]
      BY <1>9, <2>2
    <3> QED
      BY <1>5, <2>2, <3>1
  <2> QED
    BY <2>1, <2>2
<1>14. Climb(E, dist, via, s, rank, j, d)
  BY <1>9, <1>10, <1>11, <1>12, <1>13 DEF Climb
<1> QED
  BY <1>0, <1>2, <1>4, <1>8, <1>9, <1>14

\* No way back passes a node twice.
LEMMA ClimbIsShort ==
  ASSUME NEW E \in SUBSET Edge, NEW dist, NEW via, NEW s, NEW rank \in [Nodes -> Nat],
         NEW j, NEW c, Climb(E, dist, via, s, rank, j, c)
  PROVE  /\ Len(c) \in 0..Cardinality(Nodes)
         /\ \A i, m \in 1..Len(c) : c[i].to = c[m].to => i = m
<1>1. PICK n \in Nat : n = Len(c)
  BY DEF Climb
<1>2. \A i \in 1..n : c[i].to \in Nodes
  BY <1>1 DEF Climb, Edge
<1>3. \A i, m \in 1..n : i < m => rank[c[i].to] < rank[c[m].to]
  BY <1>1 DEF Climb
<1>4. \A i, m \in 1..n : c[i].to = c[m].to => i = m
  <2> SUFFICES ASSUME NEW i \in 1..n, NEW m \in 1..n, c[i].to = c[m].to, i < m
               PROVE  FALSE
    OBVIOUS
  <2>1. rank[c[i].to] < rank[c[m].to] /\ rank[c[i].to] \in Nat
    BY <1>2, <1>3
  <2> QED
    BY <2>1
<1>5. PICK f : f = [i \in 1..n |-> c[i].to]
  OBVIOUS
<1>6. f \in [1..n -> Nodes] /\ \A i, m \in 1..n : f[i] = f[m] => i = m
  BY <1>2, <1>4, <1>5
<1>7. f \in Injection(1..n, Nodes)
  BY <1>6, SMT DEF Injection, IsInjective
<1>8. Cardinality(1..n) = n
  BY FS_Interval
<1>9. n <= Cardinality(Nodes) /\ Cardinality(Nodes) \in Nat
  BY <1>7, <1>8, GraphAssumption, FS_Injection, FS_CardinalityType
<1> QED
  BY <1>1, <1>4, <1>9

\* Turns that leave less to do each time, from s.
Nearing(D, f, s, k, left) ==
  /\ s \in D /\ k \in Nat
  /\ \A d \in D : f[d] \in D /\ left[d] \in 0..k /\ (f[d] = d \/ left[f[d]] < left[d])

LEMMA LoopEnds ==
  ASSUME NEW D, NEW f, NEW s, NEW k, NEW left, Nearing(D, f, s, k, left), NEW g, Iterates(g, f, s, k)
  PROVE  g[k] \in D /\ f[g[k]] = g[k]
<1>1. s \in D /\ k \in Nat
  BY DEF Nearing
<1>2. \A d \in D : f[d] \in D
  BY DEF Nearing
<1>3. \A d \in D : left[d] \in 0..k
  BY DEF Nearing
<1>4. \A d \in D : f[d] = d \/ left[f[d]] < left[d]
  BY DEF Nearing
<1> QED
  BY <1>1, <1>2, <1>3, <1>4, LoopSettles

\* The loop of reconstruct ends at the seed, with the whole way back.
LEMMA WayBackClimbs ==
  ASSUME NEW E \in SUBSET Edge, NEW sc \in Scratch, NEW s \in Nodes, NEW rank, Tree(E, sc.dist, sc.prev, s, rank),
         NEW j \in Nodes, sc.dist[j] # Unreached
  PROVE  /\ Climb(E, sc.dist, sc.prev, s, rank, j, WayBack(sc, s, j))
         /\ Foot(WayBack(sc, s, j), j) = s
<1> DEFINE N == Cardinality(Nodes)
           S == Seq(Edge \cup {NoEdge})
           f == [c \in S |-> IF (IF c = << >> THEN j ELSE c[1].from) \in {s, NoNode} THEN c
                             ELSE <<sc.prev[IF c = << >> THEN j ELSE c[1].from]>> \o c]
           g == CHOOSE g : g = [k \in 0..N |-> IF k = 0 THEN << >> ELSE f[g[k - 1]]]
           w == WayBack(sc, s, j)
           D == {c \in S : Climb(E, sc.dist, sc.prev, s, rank, j, c)}
<1>1. w = g[N]
  BY Zenon DEF WayBack
<1>2. N \in Nat
  BY GraphAssumption, FS_CardinalityType
<1>3. ASSUME NEW c \in D
      PROVE  /\ Foot(c, j) = s => f[c] = c
             /\ Foot(c, j) # s => f[c] = <<sc.prev[Foot(c, j)]>> \o c
  <2>1. Foot(c, j) \in Nodes
    BY FootIsReached
  <2>2. Foot(c, j) # NoNode
    BY <2>1, SearchAssumption
  <2>3. f[c] = IF Foot(c, j) \in {s, NoNode} THEN c ELSE <<sc.prev[Foot(c, j)]>> \o c
    BY Zenon DEF Foot
  <2> QED
    BY <2>2, <2>3
<1>4. ASSUME NEW c, Climb(E, sc.dist, sc.prev, s, rank, j, c)
      PROVE  c \in D
  <2>1. c \in S
    BY <1>4 DEF Climb
  <2> QED
    BY <1>4, <2>1
<1> HIDE DEF f, N, S
<1>5. \A c \in D : f[c] \in D
  <2> TAKE c \in D
  <2>1. CASE Foot(c, j) = s
    BY <1>3, <2>1
  <2>2. CASE Foot(c, j) # s
    BY <1>3, <1>4, <2>2, ClimbGrows
  <2> QED
    BY <2>1, <2>2
<1>6. << >> \in D
  <2>1. Climb(E, sc.dist, sc.prev, s, rank, j, << >>)
    BY DEF Climb
  <2> QED
    BY <1>4, <2>1
<1>7. \A c \in D : Len(c) \in 0..N
  <2>1. rank \in [Nodes -> Nat]
    BY DEF Tree
  <2> QED
    BY <2>1, ClimbIsShort DEF N
<1>8. PICK left : left = [c \in D |-> N - Len(c)]
  OBVIOUS
<1>9. \A c \in D : left[c] \in 0..N
  BY <1>2, <1>7, <1>8
<1>10. \A c \in D : f[c] = c \/ left[f[c]] < left[c]
  <2> TAKE c \in D
  <2>1. CASE Foot(c, j) # s
    <3>0. Climb(E, sc.dist, sc.prev, s, rank, j, c) /\ f[c] = <<sc.prev[Foot(c, j)]>> \o c
      BY <1>3, <2>1
    <3>1. f[c] \in D /\ Len(f[c]) = Len(c) + 1
      <4>1. Len(<<sc.prev[Foot(c, j)]>> \o c) = Len(c) + 1
        BY <2>1, <3>0, ClimbGrows
      <4>2. Len(f[c]) = Len(c) + 1
        BY <3>0, <4>1, Zenon
      <4> QED
        BY <1>5, <4>2, Zenon
    <3>2. left[f[c]] = N - Len(f[c]) /\ left[c] = N - Len(c) /\ Len(c) \in 0..N
      BY <1>7, <1>8, <3>1
    <3> QED
      BY <1>2, <3>1, <3>2
  <2> QED
    BY <1>3, <2>1
<1> HIDE DEF D
<1>11. g[N] \in D /\ f[g[N]] = g[N]
  <2>1. PICK start : start = << >>
    OBVIOUS
  <2>2. start \in D
    BY <1>6, <2>1
  <2>3. \E h : Iterates(h, f, start, N)
    BY <1>2, <1>5, <2>2, LoopRuns
  <2>4. g = [k \in 0..N |-> IF k = 0 THEN << >> ELSE f[g[k - 1]]]
    <3>1. \E h : h = [k \in 0..N |-> IF k = 0 THEN << >> ELSE f[h[k - 1]]]
      BY <2>1, <2>3 DEF Iterates
    <3> QED
      BY <3>1, Zenon
  <2> HIDE DEF g
  <2>5. Iterates(g, f, start, N)
    BY <2>1, <2>4 DEF Iterates
  <2>6. Nearing(D, f, start, N, left)
    BY <1>2, <1>5, <1>9, <1>10, <2>2, Zenon DEF Nearing
  <2> QED
    BY <2>5, <2>6, LoopEnds
<1> HIDE DEF g, w
<1>12. Climb(E, sc.dist, sc.prev, s, rank, j, w)
  BY <1>1, <1>11 DEF D
<1>13. Foot(w, j) = s
  <2> SUFFICES ASSUME Foot(w, j) # s
               PROVE  FALSE
    OBVIOUS
  <2>1. w \in D /\ f[w] = w
    BY <1>1, <1>11
  <2>2. w = <<sc.prev[Foot(w, j)]>> \o w
    BY <1>3, <2>1
  <2>3. Len(<<sc.prev[Foot(w, j)]>> \o w) = Len(w) + 1
    BY <1>12, ClimbGrows
  <2>4. Len(w) \in Nat
    BY <1>12 DEF Climb
  <2> QED
    BY <2>2, <2>3, <2>4
<1> QED
  BY <1>12, <1>13 DEF w

---------------------------------------------------------------------------

\* What is to hold of a path that is reported.
Likeliest(E, p) ==
  /\ \A i \in DOMAIN p.steps : p.steps[i] \in E /\ p.steps[i].from = NodesOf(p)[i]
  /\ NodesOf(p) \in Routes(E, p.seed, p.jewel)
  /\ \A r \in Routes(E, p.seed, p.jewel) : CostOf(p) <= RouteCost(E, r)

\* The way back from a jewel is a route to it, and none is likelier.
LEMMA WayBackIsLikeliest ==
  ASSUME NEW E \in SUBSET Edge, NEW dist, NEW via, NEW s \in Nodes, NEW rank, Tree(E, dist, via, s, rank),
         NEW j \in Nodes \ {s}, dist[j] # Unreached,
         NEW c, Climb(E, dist, via, s, rank, j, c), Foot(c, j) = s,
         NEW p, p = [seed |-> s, jewel |-> j, steps |-> c]
  PROVE  Likeliest(E, p)
<1>1. PICK n \in Nat : n = Len(c)
  BY DEF Climb
<1>2. /\ c \in Seq(E) /\ n >= 1 /\ DOMAIN c = 1..n
      /\ \A i \in 1..n : c[i] \in E /\ c[i].to # s /\ dist[c[i].to] # Unreached /\ c[i] = via[c[i].to]
      /\ \A i \in 1..(n - 1) : c[i + 1].from = c[i].to
      /\ c[n].to = j /\ c[1].from = s
  <2>1. c # << >>
    BY DEF Foot
  <2> QED
    BY <1>1, <2>1 DEF Climb, Foot
<1>3. \A i \in 1..n : c[i].to \in Nodes
  BY <1>2 DEF Edge
<1>4. \A i, m \in 1..n : c[i].to = c[m].to => i = m
  <2>1. rank \in [Nodes -> Nat]
    BY DEF Tree
  <2> QED
    BY <1>1, <2>1, ClimbIsShort
<1>5. PICK w : w = NodesOf(p)
  OBVIOUS
<1>6. /\ w \in Seq(Nodes) /\ Len(w) = n + 1 /\ w[1] = s
      /\ \A i \in 1..n : w[i + 1] = c[i].to
  <2>1. PICK tos : tos = [i \in 1..n |-> c[i].to]
    OBVIOUS
  <2>2. tos \in Seq(Nodes) /\ Len(tos) = n
    BY <1>3, <2>1
  <2>3. w = <<s>> \o tos
    BY <1>2, <1>5, <2>1 DEF NodesOf
  <2> QED
    BY <2>1, <2>2, <2>3
<1>7. \A i \in 1..n : c[i].from = w[i] /\ c[i].to = w[i + 1]
  <2> TAKE i \in 1..n
  <2>1. CASE i = 1
    BY <1>2, <1>6, <2>1
  <2>2. CASE i # 1
    <3>1. i - 1 \in 1..(n - 1) /\ (i - 1) + 1 = i /\ i - 1 \in 1..n
      BY <2>2
    <3>2. c[i].from = c[i - 1].to
      BY <1>2, <3>1
    <3>3. w[i] = c[i - 1].to
      BY <1>6, <3>1
    <3> QED
      BY <1>6, <3>2, <3>3
  <2> QED
    BY <2>1, <2>2
<1>8. \A i, m \in 1..(n + 1) : w[i] = w[m] => i = m
  <2>1. \A i \in 2..(n + 1) : i - 1 \in 1..n /\ w[i] = c[i - 1].to
    <3> TAKE i \in 2..(n + 1)
    <3>1. i - 1 \in 1..n /\ (i - 1) + 1 = i
      OBVIOUS
    <3> QED
      BY <1>6, <3>1
  <2>2. \A i \in 2..(n + 1) : w[i] # s
    BY <1>2, <2>1
  <2>3. ASSUME NEW i \in 2..(n + 1), NEW m \in 2..(n + 1), w[i] = w[m]
        PROVE  i = m
    <3>1. i - 1 = m - 1
      BY <1>4, <2>1, <2>3
    <3> QED
      BY <3>1
  <2> TAKE i, m \in 1..(n + 1)
  <2> QED
    BY <1>6, <2>2, <2>3
<1>9. Walk(E, w, s, n)
  <2>1. \A i \in 1..n : \E e \in E : e.from = w[i] /\ e.to = w[i + 1]
    BY <1>2, <1>7
  <2> QED
    BY <1>6, <1>8, <2>1 DEF Walk
<1>10. w[n + 1] = j
  BY <1>2, <1>6
<1>11. w \in Routes(E, s, j)
  BY <1>9, <1>10, RoutesAreWalks
<1>12. CostOf(p) = dist[j]
  <2>1. PICK k \in Nat : n = k + 1
    <3>1. n - 1 \in Nat /\ n = (n - 1) + 1
      BY <1>2
    <3> QED
      BY <3>1
  <2>2. \A i \in 1..(k + 1) : dist[c[i].to] = dist[c[i].from] + c[i].cost
    <3> TAKE i \in 1..(k + 1)
    <3>1. c[i].to \in Nodes \ {s} /\ dist[c[i].to] # Unreached /\ c[i] = via[c[i].to]
      BY <1>2, <1>3, <2>1
    <3>2. dist[c[i].to] = dist[via[c[i].to].from] + via[c[i].to].cost
      BY <3>1 DEF Tree
    <3> QED
      BY <3>1, <3>2
  <2>3. dist \in [Nodes -> Nat \cup {Unreached}] /\ dist[s] = 0
    BY DEF Tree, Settled
  <2>4. \A i \in 1..k : c[i + 1].from = c[i].to
    BY <1>2, <2>1
  <2>5. c \in Seq(Edge) /\ Len(c) = k + 1 /\ c[1].from = s
    BY <1>1, <1>2, <2>1
  <2>6. Accounted(dist, s, c, k) /\ p.steps = c
    BY <2>2, <2>4, <2>5 DEF Accounted
  <2>7. CostOf(p) = dist[c[k + 1].to]
    BY <2>3, <2>6, CostOfIs
  <2> QED
    BY <1>2, <2>1, <2>7
<1>13. \A r \in Routes(E, s, j) : dist[j] <= RouteCost(E, r)
  <2> TAKE r \in Routes(E, s, j)
  <2>1. PICK k \in Nat : Walk(E, r, s, k) /\ r[k + 1] = j
    BY RoutesAreWalks
  <2>2. Settled(E, dist, s)
    BY DEF Tree
  <2> QED
    BY <2>1, <2>2, NoWalkIsCheaper
<1>14. \A i \in DOMAIN p.steps : p.steps[i] \in E /\ p.steps[i].from = NodesOf(p)[i]
  BY <1>2, <1>5, <1>7
<1> QED
  BY <1>5, <1>11, <1>12, <1>13, <1>14 DEF Likeliest

\* A node has a distance when the graph's edges reach it.
LEMMA ReachedHasDistance ==
  ASSUME NEW E \in SUBSET Edge, NEW dist, NEW via, NEW s \in Nodes, NEW rank, Tree(E, dist, via, s, rank),
         NEW n \in Nodes
  PROVE  n \in ReachableFrom(E, {s}) <=> dist[n] # Unreached
<1>0. \A e \in E : e.from \in Nodes /\ e.to \in Nodes
  BY DEF Edge
<1>1. ASSUME n \in ReachableFrom(E, {s})
      PROVE  dist[n] # Unreached
  <2> DEFINE R == {m \in Nodes : dist[m] # Unreached}
  <2>1. {s} \subseteq R
    BY DEF Tree, Settled, Unreached
  <2>2. Closed(E, R)
    BY <1>0 DEF Closed, Tree, Settled
  <2>3. n \in R
    <3> HIDE DEF R
    <3>1. R \in SUBSET Nodes
      BY DEF R
    <3> QED
      BY <1>1, <2>1, <2>2, <3>1 DEF ReachableFrom
  <2> QED
    BY <2>3
<1>2. rank \in [Nodes -> Nat]
  BY DEF Tree
<1> DEFINE T == {k \in Nat : \A m \in Nodes : dist[m] # Unreached /\ rank[m] <= k => m \in ReachableFrom(E, {s})}
<1>3. {s} \subseteq ReachableFrom(E, {s}) /\ Closed(E, ReachableFrom(E, {s}))
  BY <1>0, ReachableIsLeast
<1>4. ASSUME NEW k \in Nat, NEW m \in Nodes \ {s}, dist[m] # Unreached, rank[m] <= k
      PROVE  /\ k # 0
             /\ k - 1 \in T => m \in ReachableFrom(E, {s})
  <2>1. /\ via[m] \in E /\ via[m].to = m /\ dist[via[m].from] # Unreached
        /\ rank[via[m].from] < rank[m]
    BY <1>4 DEF Tree
  <2>2. via[m].from \in Nodes /\ rank[via[m].from] \in Nat /\ rank[m] \in Nat
    BY <1>0, <1>2, <2>1
  <2>3. k # 0 /\ rank[via[m].from] <= k - 1
    BY <1>4, <2>1, <2>2
  <2>4. k - 1 \in T => via[m].from \in ReachableFrom(E, {s})
    BY <2>1, <2>2, <2>3
  <2> QED
    BY <1>3, <2>1, <2>3, <2>4 DEF Closed
<1>5. 0 \in T
  BY <1>3, <1>4
<1>6. ASSUME NEW k \in Nat, k \in T
      PROVE  k + 1 \in T
  <2>1. (k + 1) - 1 = k /\ k + 1 \in Nat
    OBVIOUS
  <2>2. ASSUME NEW m \in Nodes, dist[m] # Unreached, rank[m] <= k + 1
        PROVE  m \in ReachableFrom(E, {s})
    <3>1. CASE m = s
      BY <1>3, <3>1
    <3>2. CASE m # s
      <4> HIDE DEF T
      <4> QED
        BY <1>4, <1>6, <2>1, <2>2, <3>2
    <3> QED
      BY <3>1, <3>2
  <2> QED
    BY <2>1, <2>2
<1>7. Nat \subseteq T
  <2> HIDE DEF T
  <2> QED
    BY <1>5, <1>6, NatSetInduction
<1>8. ASSUME dist[n] # Unreached
      PROVE  n \in ReachableFrom(E, {s})
  <2>1. rank[n] \in Nat /\ rank[n] <= rank[n]
    BY <1>2
  <2> QED
    BY <1>7, <1>8, <2>1
<1> QED
  BY <1>1, <1>8

\* The paths found from a seed are exact: one for every jewel it reaches.
ExactFrom(E, J, s, F) ==
  /\ \A p \in F : p.seed = s /\ p.jewel \in J \ {s} /\ Likeliest(E, p)
  /\ \A j \in J \ {s} : j \in ReachableFrom(E, {s}) <=> \E p \in F : p.jewel = j
  /\ \A p, q \in F : p.jewel = q.jewel => p = q

\* What a finished search reports is.
LEMMA ReconstructedIsExact ==
  ASSUME NEW E \in SUBSET Edge, jewels \subseteq Nodes,
         NEW sc \in Scratch, NEW s \in Nodes, NEW rank, Tree(E, sc.dist, sc.prev, s, rank)
  PROVE  ExactFrom(E, jewels, s, Reconstructed(sc, s))
<1> DEFINE Path(j) == [seed |-> s, jewel |-> j, steps |-> WayBack(sc, s, j)]
           F == Reconstructed(sc, s)
<1>1. F = {Path(j) : j \in {n \in jewels : n # s /\ sc.dist[n] # Unreached}}
  BY DEF Reconstructed
<1>2. \A j : Path(j).seed = s /\ Path(j).jewel = j
  OBVIOUS
<1>3. ASSUME NEW j \in jewels, j # s, sc.dist[j] # Unreached
      PROVE  Likeliest(E, Path(j))
  <2>1. /\ Climb(E, sc.dist, sc.prev, s, rank, j, WayBack(sc, s, j))
        /\ Foot(WayBack(sc, s, j), j) = s
    BY <1>3, WayBackClimbs
  <2>2. PICK c : c = WayBack(sc, s, j)
    OBVIOUS
  <2>3. PICK p : p = Path(j)
    OBVIOUS
  <2>4. p = [seed |-> s, jewel |-> j, steps |-> c]
    BY <2>2, <2>3
  <2>5. PICK dist, via : dist = sc.dist /\ via = sc.prev
    OBVIOUS
  <2>6. Tree(E, dist, via, s, rank) /\ Climb(E, dist, via, s, rank, j, c) /\ Foot(c, j) = s /\ dist[j] # Unreached
    BY <1>3, <2>1, <2>2, <2>5
  <2>7. j \in Nodes \ {s}
    BY <1>3
  <2>8. Likeliest(E, p)
    BY <2>4, <2>6, <2>7, WayBackIsLikeliest
  <2> QED
    BY <2>3, <2>8
<1> HIDE DEF Path, F
<1>4. \A p \in F : \E j \in jewels : j # s /\ sc.dist[j] # Unreached /\ p = Path(j)
  BY <1>1
<1>5. \A j \in jewels : j # s /\ sc.dist[j] # Unreached => Path(j) \in F
  BY <1>1
<1>6. \A p \in F : p.seed = s /\ p.jewel \in jewels \ {s} /\ Likeliest(E, p)
  BY <1>2, <1>3, <1>4
<1>7. \A p, q \in F : p.jewel = q.jewel => p = q
  BY <1>2, <1>4
<1>8. ASSUME NEW j \in jewels \ {s}
      PROVE  j \in ReachableFrom(E, {s}) <=> \E p \in F : p.jewel = j
  <2>1. j \in ReachableFrom(E, {s}) <=> sc.dist[j] # Unreached
    BY ReachedHasDistance
  <2>2. (\E p \in F : p.jewel = j) <=> sc.dist[j] # Unreached
    BY <1>2, <1>4, <1>5
  <2> QED
    BY <2>1, <2>2
<1> QED
  BY <1>6, <1>7, <1>8 DEF ExactFrom, F

\* What the attacker holds is a route of no hop.
LEMMA HeldIsLikeliest ==
  ASSUME NEW E \in SUBSET Edge, NEW j \in Nodes, NEW p, p = [seed |-> j, jewel |-> j, steps |-> << >>]
  PROVE  Likeliest(E, p)
<1>1. NodesOf(p) = <<j>>
  <2>1. PICK tos : tos = [i \in DOMAIN p.steps |-> p.steps[i].to]
    OBVIOUS
  <2>2. tos = << >>
    BY <2>1
  <2> QED
    BY <2>1, <2>2 DEF NodesOf
<1>2. Walk(E, <<j>>, j, 0) /\ <<j>>[0 + 1] = j
  BY DEF Walk
<1>3. <<j>> \in Routes(E, j, j)
  BY <1>2, RoutesAreWalks
<1>4. CostOf(p) = 0
  <2> DEFINE g == CHOOSE g : g = [i \in 0..Len(p.steps) |-> IF i = 0 THEN 0 ELSE g[i - 1] + p.steps[i].cost]
  <2>1. CostOf(p) = g[Len(p.steps)]
    BY Zenon DEF CostOf
  <2>2. Len(p.steps) = 0
    OBVIOUS
  <2>3. \E h : h = [i \in 0..Len(p.steps) |-> IF i = 0 THEN 0 ELSE h[i - 1] + p.steps[i].cost]
    <3>1. PICK h : h = [i \in 0..0 |-> 0]
      OBVIOUS
    <3>2. h = [i \in 0..0 |-> IF i = 0 THEN 0 ELSE h[i - 1] + p.steps[i].cost]
      BY <3>1
    <3> QED
      BY <2>2, <3>2
  <2>4. g = [i \in 0..Len(p.steps) |-> IF i = 0 THEN 0 ELSE g[i - 1] + p.steps[i].cost]
    BY <2>3, Zenon
  <2> HIDE DEF g
  <2>5. g[0] = 0
    <3>1. 0 \in 0..Len(p.steps)
      BY <2>2
    <3> QED
      BY <2>4, <3>1
  <2> QED
    BY <2>1, <2>2, <2>5
<1>5. ASSUME NEW r \in Routes(E, j, j)
      PROVE  CostOf(p) <= RouteCost(E, r)
  <2>1. PICK k \in Nat : Walk(E, r, j, k) /\ r[k + 1] = j
    BY RoutesAreWalks
  <2>2. PICK g \in HopSums(E, r, k) : RouteCost(E, r) = g[k]
    BY <2>1, RouteCostIs, Zenon
  <2>3. g[k] \in Nat
    BY <2>2 DEF HopSums
  <2> QED
    BY <1>4, <2>2, <2>3
<1>6. DOMAIN p.steps = {}
  OBVIOUS
<1> QED
  BY <1>1, <1>3, <1>5, <1>6 DEF Likeliest

---------------------------------------------------------------------------

\* What is given.
Given == edges \subseteq Edge /\ seeds \subseteq Nodes /\ jewels \subseteq Nodes /\ held \subseteq Nodes

\* A seed that is given is queued, searched from, or done.
SeedsInv ==
  /\ queued \subseteq seeds /\ DOMAIN found \subseteq seeds
  /\ \A w \in Workers : worker[w].seed \in seeds \cup {NoNode}
  /\ \A s \in seeds : s \in queued \/ s \in DOMAIN found \/ \E w \in Workers : worker[w].seed = s

\* What was found so far is exact.
FoundExact == \A s \in DOMAIN found : ExactFrom(edges, jewels, s, found[s])

\* What a report is to say, for one that is not empty.
ExactReport(R) ==
  /\ \A p \in R : Likeliest(edges, p)
  /\ \A s \in Nodes, j \in jewels :
       Cardinality({p \in R : p.seed = s /\ p.jewel = j}) =
         IF \/ s = j /\ j \in held
            \/ s # j /\ s \in seeds /\ j \in ReachableFrom(edges, {s})
         THEN 1 ELSE 0

\* Put together, what was found and what is held is such a report.
LEMMA ReportIsExact ==
  ASSUME Given, FoundExact, DOMAIN found = seeds,
         NEW R, R = Direct \cup UNION Range(found)
  PROVE  ExactReport(R)
<1>1. \A p : p \in R <=> p \in Direct \/ \E x \in seeds : p \in found[x]
  BY DEF Range
<1>2. \A p \in Direct : \E j \in jewels \cap held : p = [seed |-> j, jewel |-> j, steps |-> << >>]
  BY DEF Direct
<1>3. \A j \in jewels \cap held : [seed |-> j, jewel |-> j, steps |-> << >>] \in Direct
  BY DEF Direct
<1>4. \A x \in seeds : ExactFrom(edges, jewels, x, found[x])
  BY DEF FoundExact
<1>5. \A x \in seeds : \A p \in found[x] : p.seed = x /\ p.jewel # x /\ Likeliest(edges, p)
  BY <1>4 DEF ExactFrom
<1>6. \A p \in Direct : p.seed = p.jewel /\ p.seed \in held /\ Likeliest(edges, p)
  <2> TAKE p \in Direct
  <2>1. PICK j \in jewels \cap held : p = [seed |-> j, jewel |-> j, steps |-> << >>]
    BY <1>2
  <2>2. j \in Nodes /\ edges \in SUBSET Edge
    BY DEF Given
  <2>3. Likeliest(edges, p)
    BY <2>1, <2>2, HeldIsLikeliest
  <2> QED
    BY <2>1, <2>3
<1>7. \A p \in R : Likeliest(edges, p)
  BY <1>1, <1>5, <1>6
<1>8. ASSUME NEW s \in Nodes, NEW j \in jewels
      PROVE  Cardinality({p \in R : p.seed = s /\ p.jewel = j}) =
               IF \/ s = j /\ j \in held
                  \/ s # j /\ s \in seeds /\ j \in ReachableFrom(edges, {s})
               THEN 1 ELSE 0
  <2> DEFINE Q == {p \in R : p.seed = s /\ p.jewel = j}
  <2>1. \A p : p \in Q <=> /\ p.seed = s /\ p.jewel = j
                           /\ p \in Direct \/ \E x \in seeds : p \in found[x]
    BY <1>1
  <2> HIDE DEF Q
  <2>2. Q = {} => Cardinality(Q) = 0
    BY FS_EmptySet
  <2>3. \A p : Q = {p} => Cardinality(Q) = 1
    BY FS_Singleton
  <2>4. CASE s = j
    <3>1. \A p : p \in Q <=> p \in Direct /\ p.seed = j
      BY <1>5, <1>6, <2>1, <2>4
    <3>2. CASE j \in held
      <4>1. PICK p : p = [seed |-> j, jewel |-> j, steps |-> << >>]
        OBVIOUS
      <4>2. p \in Q
        BY <1>3, <3>1, <3>2, <4>1
      <4>3. \A q \in Q : q = p
        <5> TAKE q \in Q
        <5>1. PICK m \in jewels \cap held : q = [seed |-> m, jewel |-> m, steps |-> << >>]
          BY <1>2, <3>1
        <5>2. q.seed = m
          BY <5>1
        <5>3. m = j
          BY <3>1, <5>2
        <5> QED
          BY <4>1, <5>1, <5>3
      <4>4. Q = {p}
        BY <4>2, <4>3
      <4> QED
        BY <2>3, <2>4, <3>2, <4>4 DEF Q
    <3>3. CASE j \notin held
      <4>1. Q = {}
        BY <1>6, <3>1, <3>3
      <4> QED
        BY <2>2, <2>4, <3>3, <4>1 DEF Q
    <3> QED
      BY <3>2, <3>3
  <2>5. CASE s # j
    <3>1. \A p : p \in Q <=> s \in seeds /\ p \in found[s] /\ p.jewel = j
      BY <1>5, <1>6, <2>1, <2>5
    <3>2. CASE s \in seeds
      <4>1. /\ j \in ReachableFrom(edges, {s}) <=> \E p \in found[s] : p.jewel = j
            /\ \A p, q \in found[s] : p.jewel = q.jewel => p = q
        BY <1>4, <2>5, <3>2 DEF ExactFrom
      <4>2. CASE j \in ReachableFrom(edges, {s})
        <5>1. PICK p \in found[s] : p.jewel = j
          BY <4>1, <4>2
        <5>2. Q = {p}
          BY <3>1, <3>2, <4>1, <5>1
        <5> QED
          BY <2>3, <2>5, <3>2, <4>2, <5>2 DEF Q
      <4>3. CASE j \notin ReachableFrom(edges, {s})
        <5>1. Q = {}
          BY <3>1, <4>1, <4>3
        <5> QED
          BY <2>2, <2>5, <4>3, <5>1 DEF Q
      <4> QED
        BY <4>2, <4>3
    <3>3. CASE s \notin seeds
      <4>1. Q = {}
        BY <3>1, <3>3
      <4> QED
        BY <2>2, <2>5, <3>3, <4>1 DEF Q
    <3> QED
      BY <3>2, <3>3
  <2> QED
    BY <2>4, <2>5
<1> QED
  BY <1>7, <1>8 DEF ExactReport

---------------------------------------------------------------------------

\* The edges found so far are a tree: each comes from a node that has been
\* expanded, nearer the root.
Rooted(wk, sc) ==
  wk.seed # NoNode =>
    /\ \A n \in Nodes \ {wk.seed} : sc.dist[n] # Unreached =>
         wk.cur # NoNode /\ sc.dist[sc.prev[n].from] <= wk.cur.d
    /\ \E rank \in [Nodes -> Nat] : \A n \in Nodes \ {wk.seed} :
         sc.dist[n] # Unreached => rank[sc.prev[n].from] < rank[n]

\* Of every worker.
RootedInv == \A w \in Workers : Rooted(worker[w], scratch[w])

\* The tree is its root when a search starts.
LEMMA TakeRoots ==
  ASSUME NEW wk \in Worker, NEW sc, NEW s \in Nodes
  PROVE  Rooted([wk EXCEPT !.seed = s], Cleared(sc, s))
<1>1. PICK v : v = [wk EXCEPT !.seed = s]
  OBVIOUS
<1>2. v.seed = s
  BY <1>1 DEF Worker
<1>3. PICK c : c = Cleared(sc, s)
  OBVIOUS
<1>4. \A n \in Nodes \ {s} : c.dist[n] = Unreached
  BY <1>3 DEF Cleared
<1>5. [n \in Nodes |-> 0] \in [Nodes -> Nat]
  OBVIOUS
<1>6. Rooted(v, c)
  BY <1>2, <1>4, <1>5, Zenon DEF Rooted
<1> QED
  BY <1>1, <1>3, <1>6

\* It stays, and what is expanded next is no nearer.
LEMMA PopRoots ==
  ASSUME Types, NEW wk \in Worker, NEW sc \in Scratch, WorkerInv(edges, wk, sc), wk.seed # NoNode,
         NEW it \in sc.queue, Rooted(wk, sc)
  PROVE  LET rest == [sc EXCEPT !.queue = @ \ {it}]
         IN Rooted(wk, rest) /\ Rooted(Expanded(wk, it), rest)
<1> DEFINE rest == [sc EXCEPT !.queue = @ \ {it}]
           next == Expanded(wk, it)
<1>1. rest.dist = sc.dist /\ rest.prev = sc.prev
  BY SMT DEF Scratch
<1>2. next.seed = wk.seed /\ next.cur = it
  BY DEF Expanded
<1>3. it \in Item /\ it.d \in Nat /\ it # NoNode
  BY SearchAssumption, SMT DEF Scratch, Item
<1> HIDE DEF rest, next
<1>4. PICK rank \in [Nodes -> Nat] : \A n \in Nodes \ {wk.seed} : sc.dist[n] # Unreached => rank[sc.prev[n].from] < rank[n]
  BY DEF Rooted
<1>5. \A n \in Nodes \ {wk.seed} : sc.dist[n] # Unreached =>
        /\ wk.cur # NoNode /\ sc.dist[sc.prev[n].from] <= wk.cur.d
        /\ sc.dist[sc.prev[n].from] \in Nat
  <2> TAKE n \in Nodes \ {wk.seed}
  <2> HAVE sc.dist[n] # Unreached
  <2>1. wk.cur # NoNode /\ sc.dist[sc.prev[n].from] <= wk.cur.d
    BY DEF Rooted
  <2>2. sc.prev[n] \in edges /\ sc.dist[sc.prev[n].from] # Unreached
    BY DEF WorkerInv, FoundBy
  <2>3. sc.prev[n].from \in Nodes
    BY <2>2, SMT DEF Types, Edge
  <2> QED
    BY <2>1, <2>2, <2>3, SMT DEF Scratch
<1>6. Rooted(wk, rest)
  BY <1>1, <1>4, <1>5 DEF Rooted
<1>7. wk.cur # NoNode => wk.cur.d <= it.d /\ wk.cur.d \in Nat
  BY SMT DEF WorkerInv, Frontier, Worker, Item
<1>8. \A n \in Nodes \ {wk.seed} : sc.dist[n] # Unreached => sc.dist[sc.prev[n].from] <= it.d
  BY <1>3, <1>5, <1>7
<1>9. Rooted(next, rest)
  BY <1>1, <1>2, <1>3, <1>4, <1>8 DEF Rooted
<1> QED
  BY <1>6, <1>9 DEF rest, next

\* A node found by a shorter way has found none itself, so it hangs anew as a leaf.
LEMMA RelaxRoots ==
  ASSUME Types, NEW wk \in Worker, NEW sc \in Scratch, WorkerInv(edges, wk, sc), wk.seed # NoNode,
         NEW e \in wk.todo, Rooted(wk, sc)
  PROVE  LET nd == wk.cur.d + e.cost
             next == [wk EXCEPT !.todo = @ \ {e}]
         IN /\ Rooted(next, sc)
            /\ Shorter(sc, nd, e.to) => Rooted(next, Relaxed(sc, e, nd))
<1> DEFINE nd == wk.cur.d + e.cost
           next == [wk EXCEPT !.todo = @ \ {e}]
           rel == Relaxed(sc, e, nd)
<1>1. next.seed = wk.seed /\ next.cur = wk.cur
  BY SMT DEF Worker
<1>2. Expanding(edges, wk, sc) /\ \A n \in Nodes \ {wk.seed} : sc.dist[n] # Unreached => FoundBy(edges, sc, n)
  BY Zenon DEF WorkerInv
<1>3. /\ wk.cur # NoNode /\ sc.dist[wk.cur.node] = wk.cur.d
      /\ e \in edges /\ e.from = wk.cur.node
  BY <1>2, SMT DEF Expanding, EdgesFrom
<1>4. wk.cur \in Item /\ wk.cur.node \in Nodes /\ wk.cur.d \in Nat
  BY <1>3, SMT DEF Worker, Item
<1>5. e \in Edge /\ e.to \in Nodes /\ e.from \in Nodes /\ e.cost \in Nat
  BY <1>3, GraphAssumption, SMT DEF Types, Edge
<1>6. nd \in Nat /\ nd >= wk.cur.d
  BY <1>4, <1>5, SMT
<1>7. sc.dist \in [Nodes -> Nat \cup {Unreached}] /\ sc.prev \in [Nodes -> Edge \cup {NoEdge}]
  BY SMT DEF Scratch
<1> HIDE DEF nd, next
<1>8. Rooted(next, sc)
  BY <1>1, Zenon DEF Rooted
<1>9. ASSUME Shorter(sc, nd, e.to)
      PROVE  Rooted(next, rel)
  <2>1. rel.dist = [sc.dist EXCEPT ![e.to] = nd] /\ rel.prev = [sc.prev EXCEPT ![e.to] = e]
    BY DEF Relaxed
  <2> HIDE DEF rel
  <2>2. /\ rel.dist[e.to] = nd
        /\ \A n \in Nodes \ {e.to} : rel.dist[n] = sc.dist[n] /\ rel.prev[n] = sc.prev[n]
        /\ rel.prev[e.to] = e
    BY <2>1, <1>5, <1>7, SMT
  <2>3. e.to # wk.cur.node
    BY <1>9, <1>3, <1>6, <1>4, <1>7, SMT DEF Shorter, Unreached
  <2>4. PICK rank \in [Nodes -> Nat] : \A n \in Nodes \ {wk.seed} : sc.dist[n] # Unreached => rank[sc.prev[n].from] < rank[n]
    BY DEF Rooted
  <2>5. ASSUME NEW n \in Nodes \ {wk.seed}, n # e.to, rel.dist[n] # Unreached
        PROVE  /\ sc.prev[n].from \in Nodes \ {e.to} /\ rel.prev[n] = sc.prev[n]
               /\ sc.dist[sc.prev[n].from] <= wk.cur.d /\ rank[sc.prev[n].from] < rank[n]
    <3>1. rel.prev[n] = sc.prev[n] /\ sc.dist[n] # Unreached
      BY <2>2, <2>5
    <3>2. /\ sc.dist[sc.prev[n].from] <= wk.cur.d
          /\ sc.prev[n] \in edges /\ sc.dist[sc.prev[n].from] # Unreached
      BY <1>2, <3>1 DEF Rooted, FoundBy
    <3>3. sc.prev[n].from \in Nodes
      BY <3>2, SMT DEF Types, Edge
    <3>4. sc.prev[n].from # e.to
      BY <1>4, <1>6, <1>7, <1>9, <3>2, <3>3 DEF Shorter
    <3> QED
      BY <2>4, <3>1, <3>2, <3>3, <3>4
  <2>6. PICK r : r = [rank EXCEPT ![e.to] = rank[wk.cur.node] + 1]
    OBVIOUS
  <2>7. /\ r \in [Nodes -> Nat] /\ r[e.to] = rank[wk.cur.node] + 1 /\ rank[wk.cur.node] \in Nat
        /\ \A n \in Nodes \ {e.to} : r[n] = rank[n]
    BY <1>4, <1>5, <2>4, <2>6
  <2>8. ASSUME NEW n \in Nodes \ {wk.seed}, rel.dist[n] # Unreached
        PROVE  rel.dist[rel.prev[n].from] <= wk.cur.d /\ r[rel.prev[n].from] < r[n]
    <3>1. CASE n = e.to
      <4>1. rel.prev[n].from = wk.cur.node /\ rel.dist[wk.cur.node] = wk.cur.d /\ r[wk.cur.node] = rank[wk.cur.node]
        BY <1>3, <1>4, <2>2, <2>3, <2>7, <3>1
      <4>2. r[n] = rank[wk.cur.node] + 1
        BY <2>7, <3>1
      <4> QED
        BY <1>4, <2>7, <4>1, <4>2
    <3>2. CASE n # e.to
      <4>1. /\ sc.prev[n].from \in Nodes \ {e.to} /\ rel.prev[n] = sc.prev[n]
            /\ sc.dist[sc.prev[n].from] <= wk.cur.d /\ rank[sc.prev[n].from] < rank[n]
        BY <2>5, <2>8, <3>2
      <4>2. rel.dist[sc.prev[n].from] = sc.dist[sc.prev[n].from] /\ r[sc.prev[n].from] = rank[sc.prev[n].from]
        BY <2>2, <2>7, <4>1
      <4>3. r[n] = rank[n]
        BY <2>7, <3>2
      <4> QED
        BY <4>1, <4>2, <4>3
    <3> QED
      BY <3>1, <3>2
  <2> QED
    BY <1>1, <1>3, <2>7, <2>8 DEF Rooted
<1> QED
  BY <1>8, <1>9 DEF nd, next

\* Only the worker that moves has its tree changed.
LEMMA OneWorkerRoots ==
  ASSUME Types, RootedInv, NEW w \in Workers, NEW wk, NEW sc, Rooted(wk, sc),
         worker' = [worker EXCEPT ![w] = wk], scratch' = [scratch EXCEPT ![w] = sc]
  PROVE  RootedInv'
<1>1. worker \in [Workers -> Worker] /\ scratch \in [Workers -> Scratch]
  BY DEF Types
<1>2. ASSUME NEW v \in Workers
      PROVE  Rooted(worker'[v], scratch'[v])
  <2>1. CASE v = w
    BY <1>1, <2>1
  <2>2. CASE v # w
    <3>1. worker'[v] = worker[v] /\ scratch'[v] = scratch[v]
      BY <1>1, <2>2
    <3> QED
      BY <3>1 DEF RootedInv
  <2> QED
    BY <2>1, <2>2
<1> QED
  BY <1>2 DEF RootedInv

\* The search trees stay trees.
LEMMA NextRoots ==
  ASSUME IInv, RootedInv, [SearchNext]_searchVars
  PROVE  RootedInv'
<1>1. Types /\ \A w \in Workers : worker[w] \in Worker /\ scratch[w] \in Scratch
                                  /\ WorkerInv(edges, worker[w], scratch[w]) /\ Rooted(worker[w], scratch[w])
  BY DEF IInv, Types, RootedInv
<1>2. ASSUME NEW w \in Workers, NEW s \in queued, Take(w, s) PROVE RootedInv'
  <2> s \in Nodes
    BY <1>1 DEF Types
  <2> DEFINE wk == [worker[w] EXCEPT !.seed = s]
             sc == Cleared(scratch[w], s)
  <2>1. Rooted(wk, sc)
    BY <1>1, TakeRoots
  <2>2. worker' = [worker EXCEPT ![w] = wk] /\ scratch' = [scratch EXCEPT ![w] = sc]
    BY <1>2 DEF Take
  <2> HIDE DEF wk, sc
  <2> QED
    BY <1>1, <2>1, <2>2, OneWorkerRoots
<1>3. ASSUME NEW w \in Workers, NEW it \in scratch[w].queue, Pop(w, it) PROVE RootedInv'
  <2> DEFINE rest == [scratch[w] EXCEPT !.queue = @ \ {it}]
             next == Expanded(worker[w], it)
  <2>1. worker[w].seed # NoNode /\ scratch' = [scratch EXCEPT ![w] = rest]
    BY <1>3 DEF Pop
  <2>2. Rooted(worker[w], rest) /\ Rooted(next, rest)
    BY <1>1, <2>1, PopRoots
  <2>3. worker' = [worker EXCEPT ![w] = worker[w]] \/ worker' = [worker EXCEPT ![w] = next]
    BY <1>1, <1>3 DEF Pop, Types
  <2> HIDE DEF rest, next
  <2> QED
    BY <1>1, <2>1, <2>2, <2>3, OneWorkerRoots
<1>4. ASSUME NEW w \in Workers, NEW e \in worker[w].todo, Relax(w, e) PROVE RootedInv'
  <2> DEFINE nd == worker[w].cur.d + e.cost
             next == [worker[w] EXCEPT !.todo = @ \ {e}]
             rel == Relaxed(scratch[w], e, nd)
  <2>1. worker[w].seed # NoNode
    BY <1>1, <1>4, SMT DEF WorkerInv, Resting
  <2>2. worker' = [worker EXCEPT ![w] = next]
    BY <1>4 DEF Relax
  <2>3. Rooted(next, scratch[w]) /\ (Shorter(scratch[w], nd, e.to) => Rooted(next, rel))
    BY <1>1, <2>1, RelaxRoots
  <2>4. \/ Shorter(scratch[w], nd, e.to) /\ scratch' = [scratch EXCEPT ![w] = rel]
        \/ scratch' = [scratch EXCEPT ![w] = scratch[w]]
    BY <1>1, <1>4 DEF Relax, Types
  <2> HIDE DEF rel, next, nd
  <2> QED
    BY <1>1, <2>2, <2>3, <2>4, OneWorkerRoots
<1>5. ASSUME NEW w \in Workers, Finish(w) PROVE RootedInv'
  <2>1. worker' = [worker EXCEPT ![w] = Resting] /\ scratch' = [scratch EXCEPT ![w] = scratch[w]]
    BY <1>1, <1>5 DEF Finish, Types
  <2>2. Rooted(Resting, scratch[w])
    BY DEF Resting, Rooted
  <2> QED
    BY <1>1, <2>1, <2>2, OneWorkerRoots
<1>6. CASE Report
  BY <1>6 DEF Report, RootedInv
<1>7. CASE UNCHANGED searchVars
  BY <1>7 DEF searchVars, RootedInv
<1> QED
  BY <1>2, <1>3, <1>4, <1>5, <1>6, <1>7 DEF SearchNext

---------------------------------------------------------------------------

\* What makes the report right once all seeds are searched.
ReportInv == Given /\ SeedsInv /\ RootedInv /\ FoundExact /\ ExposuresAreExact

\* It holds before any search.
LEMMA ReportStarts == SearchInit => ReportInv
<1> SUFFICES ASSUME SearchInit PROVE ReportInv
  OBVIOUS
<1>1. PICK s \in Snapshots : edges = s.edges /\ seeds = s.seeds /\ jewels = s.jewels /\ held = s.held
  BY DEF SearchInit
<1>2. Given
  <2>1. s \in Snapshot
    BY SearchAssumption
  <2> QED
    BY <1>1, <2>1 DEF Given, Snapshot
<1>3. /\ queued = seeds /\ worker = [w \in Workers |-> Resting] /\ DOMAIN found = {} /\ report = {}
  BY DEF SearchInit
<1>4. SeedsInv /\ RootedInv
  BY <1>3 DEF SeedsInv, RootedInv, Rooted, Resting
<1> QED
  BY <1>2, <1>3, <1>4 DEF ReportInv, FoundExact, ExposuresAreExact

\* A step that changes nothing of a seed, nor what was found, keeps the rest.
LEMMA SeedsStay ==
  ASSUME ReportInv, UNCHANGED <<graphVars, queued, found>>, \A v \in Workers : worker'[v].seed = worker[v].seed
  PROVE  Given' /\ SeedsInv' /\ FoundExact'
<1>1. Given' /\ FoundExact'
  BY DEF ReportInv, Given, FoundExact, graphVars
<1>2. SeedsInv'
  BY DEF ReportInv, SeedsInv, graphVars
<1> QED
  BY <1>1, <1>2

\* A report is right as long as it and the graph stay.
LEMMA ReportStays ==
  ASSUME ExposuresAreExact, UNCHANGED graphVars, report' = report
  PROVE  ExposuresAreExact'
BY DEF ExposuresAreExact, graphVars

\* What a worker that is done has found is exact.
LEMMA FinishIsExact ==
  ASSUME IInv, ReportInv, NEW w \in Workers, Exhausted(w)
  PROVE  ExactFrom(edges, jewels, worker[w].seed, Reconstructed(scratch[w], worker[w].seed))
<1>1. PICK s, sc : s = worker[w].seed /\ sc = scratch[w]
  OBVIOUS
<1>2. s \in Nodes /\ sc \in Scratch /\ edges \in SUBSET Edge /\ jewels \subseteq Nodes /\ s # NoNode
  BY <1>1, SMT DEF IInv, Types, Exhausted, Worker, ReportInv, Given
<1>3. DistancesAreCertified
  BY CertifiedInv
<1>4. /\ sc.dist[s] = 0
      /\ \A e \in edges : sc.dist[e.from] # Unreached =>
           sc.dist[e.to] # Unreached /\ sc.dist[e.to] <= sc.dist[e.from] + e.cost
      /\ \A n \in Nodes \ {s} : sc.dist[n] # Unreached =>
           /\ sc.prev[n] \in edges /\ sc.prev[n].to = n
           /\ sc.dist[sc.prev[n].from] # Unreached
           /\ sc.dist[n] = sc.dist[sc.prev[n].from] + sc.prev[n].cost
  BY <1>1, <1>3 DEF DistancesAreCertified
<1>5. Rooted(worker[w], sc)
  BY <1>1 DEF ReportInv, RootedInv
<1>6. PICK rank \in [Nodes -> Nat] : \A n \in Nodes \ {s} : sc.dist[n] # Unreached => rank[sc.prev[n].from] < rank[n]
  BY <1>1, <1>2, <1>5 DEF Rooted
<1>7. sc.dist \in [Nodes -> Nat \cup {Unreached}]
  BY <1>2, SMT DEF Scratch
<1>8. Tree(edges, sc.dist, sc.prev, s, rank)
  BY <1>4, <1>6, <1>7 DEF Tree, Settled
<1>9. ExactFrom(edges, jewels, s, Reconstructed(sc, s))
  BY <1>2, <1>8, ReconstructedIsExact
<1> QED
  BY <1>1, <1>9

\* Each step keeps it.
LEMMA ReportSteps == IInv /\ ReportInv /\ [SearchNext]_searchVars => ReportInv'
<1> SUFFICES ASSUME IInv, ReportInv, [SearchNext]_searchVars PROVE ReportInv'
  OBVIOUS
<1>1. RootedInv'
  BY NextRoots DEF ReportInv
<1>2. worker \in [Workers -> Worker] /\ NoNode \notin Nodes /\ seeds \subseteq Nodes /\ NoNode \notin seeds
  BY SearchAssumption DEF IInv, Types, ReportInv, Given
<1>3. ASSUME NEW w \in Workers, NEW s \in queued, Take(w, s) PROVE ReportInv'
  <2>1. /\ worker[w].seed = NoNode /\ queued' = queued \ {s} /\ worker' = [worker EXCEPT ![w].seed = s]
        /\ UNCHANGED <<graphVars, found, report>>
    BY <1>3 DEF Take
  <2>2. worker'[w].seed = s /\ \A v \in Workers \ {w} : worker'[v] = worker[v]
    <3>1. worker[w] \in Worker
      BY <1>2
    <3>2. [worker[w] EXCEPT !.seed = s].seed = s
      BY <3>1, SMT DEF Worker
    <3> QED
      BY <1>2, <2>1, <3>2
  <2>3. SeedsInv
    BY DEF ReportInv
  <2>4. SeedsInv'
    <3>1. seeds' = seeds /\ found' = found
      BY <2>1 DEF graphVars
    <3>2. queued' \subseteq seeds /\ DOMAIN found' \subseteq seeds
      BY <2>1, <2>3, <3>1 DEF SeedsInv
    <3>3. \A v \in Workers : worker'[v].seed \in seeds \cup {NoNode}
      BY <2>2, <2>3 DEF SeedsInv
    <3>4. \A x \in seeds : x \in queued' \/ x \in DOMAIN found' \/ \E v \in Workers : worker'[v].seed = x
      <4> TAKE x \in seeds
      <4>1. CASE x = s
        BY <2>2, <4>1
      <4>2. CASE x # s
        <5>1. x \in queued \/ x \in DOMAIN found \/ \E v \in Workers : worker[v].seed = x
          BY <2>3 DEF SeedsInv
        <5>2. \A v \in Workers : worker[v].seed = x => worker'[v].seed = x
          BY <1>2, <2>1, <2>2
        <5> QED
          BY <2>1, <3>1, <4>2, <5>1, <5>2
      <4> QED
        BY <4>1, <4>2
    <3> QED
      BY <3>1, <3>2, <3>3, <3>4 DEF SeedsInv
  <2>5. Given' /\ FoundExact' /\ ExposuresAreExact'
    BY <2>1, ReportStays DEF ReportInv, Given, FoundExact, graphVars
  <2> QED
    BY <1>1, <2>4, <2>5 DEF ReportInv
<1>4. ASSUME NEW w \in Workers, NEW it \in scratch[w].queue, Pop(w, it) PROVE ReportInv'
  <2>1. UNCHANGED <<graphVars, queued, found, report>>
    BY <1>4 DEF Pop
  <2>2. \A v \in Workers : worker'[v].seed = worker[v].seed
    BY <1>2, <1>4 DEF Pop, Expanded
  <2> QED
    BY <1>1, <2>1, <2>2, SeedsStay, ReportStays DEF ReportInv
<1>5. ASSUME NEW w \in Workers, NEW e \in worker[w].todo, Relax(w, e) PROVE ReportInv'
  <2>1. UNCHANGED <<graphVars, queued, found, report>>
    BY <1>5 DEF Relax
  <2>2. \A v \in Workers : worker'[v].seed = worker[v].seed
    BY <1>2, <1>5, SMT DEF Relax, Worker
  <2> QED
    BY <1>1, <2>1, <2>2, SeedsStay, ReportStays DEF ReportInv
<1>6. ASSUME NEW w \in Workers, Finish(w) PROVE ReportInv'
  <2>1. PICK s : s = worker[w].seed
    OBVIOUS
  <2>2. PICK F : F = Reconstructed(scratch[w], s)
    OBVIOUS
  <2>3. /\ Exhausted(w) /\ worker' = [worker EXCEPT ![w] = Resting]
        /\ found' = [x \in DOMAIN found \cup {s} |-> IF x = s THEN F ELSE found[x]]
        /\ UNCHANGED <<graphVars, queued, report>>
    BY <1>6, <2>1, <2>2 DEF Finish
  <2>4. ExactFrom(edges, jewels, s, F)
    BY <2>1, <2>2, <2>3, FinishIsExact
  <2>5. DOMAIN found' = DOMAIN found \cup {s} /\ \A x \in DOMAIN found' : found'[x] = IF x = s THEN F ELSE found[x]
    BY <2>3
  <2>6. edges' = edges /\ jewels' = jewels /\ seeds' = seeds /\ queued' = queued
    BY <2>3 DEF graphVars
  <2>7. FoundExact'
    <3>1. \A x \in DOMAIN found' : ExactFrom(edges, jewels, x, found'[x])
      BY <2>4, <2>5 DEF ReportInv, FoundExact
    <3> QED
      BY <2>6, <3>1 DEF FoundExact
  <2>8. SeedsInv
    BY DEF ReportInv
  <2>9. SeedsInv'
    <3>1. s \in seeds
      BY <2>1, <2>3, <2>8 DEF SeedsInv, Exhausted
    <3>2. worker'[w].seed = NoNode /\ \A v \in Workers \ {w} : worker'[v] = worker[v]
      BY <1>2, <2>3 DEF Resting
    <3>3. \A v \in Workers : worker'[v].seed \in seeds \cup {NoNode}
      BY <2>8, <3>2 DEF SeedsInv
    <3>4. \A x \in seeds : x \in queued \/ x \in DOMAIN found' \/ \E v \in Workers : worker'[v].seed = x
      <4> TAKE x \in seeds
      <4>1. x \in queued \/ x \in DOMAIN found \/ \E v \in Workers : worker[v].seed = x
        BY <2>8 DEF SeedsInv
      <4>2. \A v \in Workers : worker[v].seed = x => (v = w /\ x = s) \/ worker'[v].seed = x
        BY <2>1, <3>2
      <4> QED
        BY <2>5, <4>1, <4>2
    <3> QED
      BY <2>5, <2>6, <2>8, <3>1, <3>3, <3>4 DEF SeedsInv
  <2>10. Given' /\ ExposuresAreExact'
    BY <2>3, ReportStays DEF ReportInv, Given, graphVars
  <2> QED
    BY <1>1, <2>7, <2>9, <2>10 DEF ReportInv
<1>7. CASE Report
  <2>1. /\ Searched /\ report' = Direct \cup UNION Range(found)
        /\ UNCHANGED <<graphVars, queued, worker, scratch, found>>
    BY <1>7 DEF Report
  <2>2. DOMAIN found = seeds
    BY <1>2, <2>1 DEF ReportInv, SeedsInv, Searched
  <2>3. ExactReport(report')
    BY <2>1, <2>2, ReportIsExact DEF ReportInv
  <2>4. ExposuresAreExact'
    <3>1. edges' = edges /\ seeds' = seeds /\ jewels' = jewels /\ held' = held
      BY <2>1 DEF graphVars
    <3> QED
      BY <2>3, <3>1 DEF ExposuresAreExact, ExactReport, Likeliest
  <2>5. Given' /\ SeedsInv' /\ FoundExact'
    BY <2>1, SeedsStay
  <2> QED
    BY <1>1, <2>4, <2>5 DEF ReportInv
<1>8. CASE UNCHANGED searchVars
  BY <1>1, <1>8, SeedsStay, ReportStays DEF ReportInv, searchVars
<1> QED
  BY <1>3, <1>4, <1>5, <1>6, <1>7, <1>8 DEF SearchNext

\* Whatever the graph, its costs and the number of workers, a report is
\* exact: each path is a loopless route of the graph, none between its ends
\* is likelier, and each pair that is due comes once (FindCriticalPaths).
THEOREM ExposuresStayExact == SearchSpec => []ExposuresAreExact
<1>1. ReportInv => ExposuresAreExact
  BY DEF ReportInv
<1> QED
  BY <1>1, InitInv, NextInv, ReportStarts, ReportSteps, PTL DEF SearchSpec

---------------------------------------------------------------------------
(***************************************************************************)
(* Yen's rounds, for every graph and any number of routes asked for.       *)
(***************************************************************************)

\* What a route from src to dst is.
IsRoute(E, r, src, dst) ==
  /\ r \in Seq(Nodes) /\ Len(r) >= 1 /\ r[1] = src /\ r[Len(r)] = dst
  /\ \A i \in 1..(Len(r) - 1) : \E e \in E : e.from = r[i] /\ e.to = r[i + 1]
  /\ \A i, m \in 1..Len(r) : r[i] = r[m] => i = m

\* Two routes take the same way through their first i nodes.
Same(q, r, i) == i <= Len(q) /\ i <= Len(r) /\ \A m \in 1..i : q[m] = r[m]

\* A route leaves those of R at its i-th node.
Leaves(R, r, i) == (\E q \in R : Same(q, r, i)) /\ \A q \in R : ~Same(q, r, i + 1)

\* The way on from a route's i-th node.
WayOn(t, r, i) == Len(t) = Len(r) - i + 1 /\ \A m \in 1..Len(t) : t[m] = r[i - 1 + m]

\* A route has a node more than it has hops.
LEMMA LengthIs ==
  ASSUME NEW E, NEW r, NEW src, NEW dst, IsRoute(E, r, src, dst)
  PROVE  \E k \in Nat : k = Len(r) - 1 /\ Len(r) = k + 1
<1>1. Len(r) \in Nat /\ Len(r) >= 1
  BY DEF IsRoute
<1>2. Len(r) - 1 \in Nat /\ Len(r) = (Len(r) - 1) + 1
  BY <1>1
<1> QED
  BY <1>2

\* The routes of the model are those.
LEMMA RouteIs ==
  ASSUME NEW E \in SUBSET Edge, NEW src \in Nodes, NEW dst, NEW r
  PROVE  r \in Routes(E, src, dst) <=> IsRoute(E, r, src, dst)
<1>1. ASSUME NEW k \in Nat, Walk(E, r, src, k), r[k + 1] = dst
      PROVE  IsRoute(E, r, src, dst)
  <2>1. Len(r) = k + 1 /\ Len(r) - 1 = k
    BY <1>1 DEF Walk
  <2> QED
    BY <1>1, <2>1 DEF Walk, IsRoute
<1>2. ASSUME IsRoute(E, r, src, dst)
      PROVE  \E k \in Nat : Walk(E, r, src, k) /\ r[k + 1] = dst
  <2>1. PICK k \in Nat : k = Len(r) - 1 /\ Len(r) = k + 1
    BY <1>2, LengthIs
  <2>2. Len(r) = k + 1
    BY <2>1
  <2>3. Walk(E, r, src, k) /\ r[k + 1] = dst
    BY <1>2, <2>1, <2>2 DEF IsRoute, Walk
  <2> QED
    BY <2>3
<1> QED
  BY <1>1, <1>2, RoutesAreWalks

\* A route's cost is the sum of its hops'.
LEMMA RouteSums ==
  ASSUME NEW E \in SUBSET Edge, NEW src, NEW dst, NEW r, IsRoute(E, r, src, dst)
  PROVE  \E g \in HopSums(E, r, Len(r) - 1) : RouteCost(E, r) = g[Len(r) - 1]
<1>1. PICK k \in Nat : k = Len(r) - 1 /\ Len(r) = k + 1
  BY LengthIs
<1>2. Len(r) = k + 1
  BY <1>1
<1>3. Walk(E, r, src, k)
  BY <1>1, <1>2 DEF IsRoute, Walk
<1>4. \E g \in HopSums(E, r, k) : RouteCost(E, r) = g[k]
  BY <1>3, RouteCostIs
<1> QED
  BY <1>1, <1>4

\* It is a number.
LEMMA RouteCostIsNat ==
  ASSUME NEW E \in SUBSET Edge, NEW src, NEW dst, NEW r, IsRoute(E, r, src, dst)
  PROVE  RouteCost(E, r) \in Nat
<1>1. PICK g \in HopSums(E, r, Len(r) - 1) : RouteCost(E, r) = g[Len(r) - 1]
  BY RouteSums
<1>2. Len(r) - 1 \in 0..(Len(r) - 1)
  BY DEF IsRoute
<1> QED
  BY <1>1, <1>2 DEF HopSums

\* Routes that go the same way so far cost the same so far.
LEMMA SameCostSoFar ==
  ASSUME NEW E, NEW a, NEW b, NEW i \in Nat, Same(a, b, i), i >= 1,
         NEW ka \in Nat, NEW kb \in Nat, i - 1 <= ka, i - 1 <= kb,
         NEW g \in HopSums(E, a, ka), NEW h \in HopSums(E, b, kb)
  PROVE  g[i - 1] = h[i - 1]
<1> DEFINE T == {m \in Nat : m <= i - 1 => g[m] = h[m]}
<1>1. /\ g[0] = 0 /\ \A m \in 1..ka : g[m] = g[m - 1] + HopCost(E, a[m], a[m + 1])
      /\ h[0] = 0 /\ \A m \in 1..kb : h[m] = h[m - 1] + HopCost(E, b[m], b[m + 1])
  BY DEF HopSums
<1>2. 0 \in T
  BY <1>1
<1>3. ASSUME NEW m \in Nat, m \in T
      PROVE  m + 1 \in T
  <2> SUFFICES ASSUME m + 1 <= i - 1
               PROVE  g[m + 1] = h[m + 1]
    OBVIOUS
  <2>1. m + 1 \in 1..ka /\ m + 1 \in 1..kb /\ (m + 1) - 1 = m /\ m + 1 \in 1..i /\ (m + 1) + 1 \in 1..i /\ m <= i - 1
    OBVIOUS
  <2>2. a[m + 1] = b[m + 1] /\ a[(m + 1) + 1] = b[(m + 1) + 1]
    BY <2>1 DEF Same
  <2>3. g[m] = h[m]
    BY <1>3, <2>1
  <2>4. g[m + 1] = g[m] + HopCost(E, a[m + 1], a[(m + 1) + 1])
    BY <1>1, <2>1
  <2>5. h[m + 1] = h[m] + HopCost(E, b[m + 1], b[(m + 1) + 1])
    BY <1>1, <2>1
  <2> QED
    BY <2>2, <2>3, <2>4, <2>5
<1>4. Nat \subseteq T
  <2> HIDE DEF T
  <2> QED
    BY <1>2, <1>3, NatSetInduction
<1>5. i - 1 \in Nat /\ i - 1 <= i - 1
  OBVIOUS
<1> QED
  BY <1>4, <1>5

\* The j hops of t are the last of the k hops of r, those from the i-th on.
EndsAs(E, t, r, i, j, k) ==
  /\ i \in 1..(k + 1) /\ j = k - i + 1
  /\ \A m \in 1..(j + 1) : t[m] = r[i - 1 + m]
  /\ \A m \in 1..k : HopCost(E, r[m], r[m + 1]) \in Nat

\* A route costs what it does up to a node and what the way on from there does.
LEMMA CostIsSplit ==
  ASSUME NEW E, NEW r, NEW t, NEW k \in Nat, NEW i, NEW j \in Nat, EndsAs(E, t, r, i, j, k),
         NEW g \in HopSums(E, r, k), NEW h \in HopSums(E, t, j)
  PROVE  g[k] = g[i - 1] + h[j]
<1>0. /\ i \in 1..(k + 1) /\ j = k - i + 1
      /\ \A m \in 1..(j + 1) : t[m] = r[i - 1 + m]
      /\ \A m \in 1..k : HopCost(E, r[m], r[m + 1]) \in Nat
  BY DEF EndsAs
<1> DEFINE T == {m \in Nat : m <= j => g[i - 1 + m] = g[i - 1] + h[m]}
<1>1. /\ \A m \in 1..k : g[m] = g[m - 1] + HopCost(E, r[m], r[m + 1])
      /\ h[0] = 0 /\ \A m \in 1..j : h[m] = h[m - 1] + HopCost(E, t[m], t[m + 1])
      /\ g \in [0..k -> Nat] /\ h \in [0..j -> Nat]
  BY DEF HopSums
<1>2. 0 \in T
  <2>1. i - 1 + 0 = i - 1 /\ i - 1 \in 0..k
    BY <1>0
  <2>2. g[i - 1] \in Nat
    BY <1>1, <2>1
  <2> QED
    BY <1>1, <2>1, <2>2
<1>3. ASSUME NEW m \in Nat, m \in T
      PROVE  m + 1 \in T
  <2> SUFFICES ASSUME m + 1 <= j
               PROVE  g[i - 1 + (m + 1)] = g[i - 1] + h[m + 1]
    OBVIOUS
  <2>1. /\ m + 1 \in 1..j /\ i - 1 + (m + 1) \in 1..k /\ (m + 1) - 1 = m /\ (i - 1 + (m + 1)) - 1 = i - 1 + m
        /\ m + 1 \in 1..(j + 1) /\ (m + 1) + 1 \in 1..(j + 1) /\ i - 1 + ((m + 1) + 1) = (i - 1 + (m + 1)) + 1 /\ m <= j
        /\ m \in 0..j /\ i - 1 \in 0..k
    BY <1>0
  <2>2. t[m + 1] = r[i - 1 + (m + 1)] /\ t[(m + 1) + 1] = r[(i - 1 + (m + 1)) + 1]
    <3>1. t[(m + 1) + 1] = r[i - 1 + ((m + 1) + 1)]
      BY <1>0, <2>1
    <3> QED
      BY <1>0, <2>1, <3>1
  <2> DEFINE c == HopCost(E, t[m + 1], t[(m + 1) + 1])
  <2>3. g[i - 1 + m] = g[i - 1] + h[m]
    BY <1>3, <2>1
  <2>4. g[i - 1 + (m + 1)] = g[i - 1 + m] + c
    <3>1. g[i - 1 + (m + 1)] = g[(i - 1 + (m + 1)) - 1] + HopCost(E, r[i - 1 + (m + 1)], r[(i - 1 + (m + 1)) + 1])
      BY <1>1, <2>1
    <3> QED
      BY <2>1, <2>2, <3>1
  <2>5. h[m + 1] = h[m] + c
    BY <1>1, <2>1
  <2>6. h[m] \in Nat /\ h[m + 1] \in Nat /\ g[i - 1] \in Nat
    BY <1>1, <2>1
  <2>7. c \in Nat
    BY <1>0, <2>1, <2>2
  <2> QED
    BY <2>3, <2>4, <2>5, <2>6, <2>7
<1>4. Nat \subseteq T
  <2> HIDE DEF T
  <2> QED
    BY <1>2, <1>3, NatSetInduction
<1>5. i - 1 + j = k
  BY <1>0
<1> QED
  BY <1>4, <1>5

\* A cheaper way on makes a cheaper route.
LEMMA CheaperWayOn ==
  ASSUME NEW E \in SUBSET Edge, NEW src, NEW dst, NEW mid, NEW a, NEW b, NEW s, NEW t, NEW i \in Nat, i >= 1,
         IsRoute(E, a, src, dst), IsRoute(E, b, src, dst), IsRoute(E, s, mid, dst), IsRoute(E, t, mid, dst),
         Same(a, b, i), WayOn(s, a, i), WayOn(t, b, i), RouteCost(E, s) <= RouteCost(E, t)
  PROVE  RouteCost(E, a) <= RouteCost(E, b)
<1>1. PICK ka \in Nat : ka = Len(a) - 1 /\ Len(a) = ka + 1
  BY LengthIs
<1>2. PICK kb \in Nat : kb = Len(b) - 1 /\ Len(b) = kb + 1
  BY LengthIs
<1>3. /\ Len(a) = ka + 1 /\ Len(b) = kb + 1 /\ i \in 1..(ka + 1) /\ i \in 1..(kb + 1)
      /\ i - 1 \in 0..ka /\ i - 1 \in 0..kb
  BY <1>1, <1>2 DEF Same, IsRoute
<1>4. PICK js \in Nat : js = ka - i + 1
  BY <1>3
<1>5. PICK jt \in Nat : jt = kb - i + 1
  BY <1>3
<1>6. /\ Len(s) = js + 1 /\ \A m \in 1..(js + 1) : s[m] = a[i - 1 + m]
      /\ Len(t) = jt + 1 /\ \A m \in 1..(jt + 1) : t[m] = b[i - 1 + m]
  BY <1>3, <1>4, <1>5 DEF WayOn
<1>7. PICK ga \in HopSums(E, a, ka) : RouteCost(E, a) = ga[ka]
  BY <1>1, RouteSums
<1>8. PICK gb \in HopSums(E, b, kb) : RouteCost(E, b) = gb[kb]
  BY <1>2, RouteSums
<1>9. PICK gs \in HopSums(E, s, js) : RouteCost(E, s) = gs[js]
  <2>1. Len(s) - 1 = js
    BY <1>6
  <2> QED
    BY <2>1, RouteSums
<1>10. PICK gt \in HopSums(E, t, jt) : RouteCost(E, t) = gt[jt]
  <2>1. Len(t) - 1 = jt
    BY <1>6
  <2> QED
    BY <2>1, RouteSums
<1>11. ga[i - 1] = gb[i - 1]
  BY <1>3, SameCostSoFar
<1>12. \A m \in 1..ka : HopCost(E, a[m], a[m + 1]) \in Nat
  BY <1>1, HopCostIs DEF IsRoute
<1>13. \A m \in 1..kb : HopCost(E, b[m], b[m + 1]) \in Nat
  BY <1>2, HopCostIs DEF IsRoute
<1>14. ga[ka] = ga[i - 1] + gs[js]
  <2>1. EndsAs(E, s, a, i, js, ka)
    BY <1>3, <1>4, <1>6, <1>12 DEF EndsAs
  <2> QED
    BY <2>1, CostIsSplit
<1>15. gb[kb] = gb[i - 1] + gt[jt]
  <2>1. EndsAs(E, t, b, i, jt, kb)
    BY <1>3, <1>5, <1>6, <1>13 DEF EndsAs
  <2> QED
    BY <2>1, CostIsSplit
<1>16. ga[i - 1] \in Nat /\ gs[js] \in Nat /\ gt[jt] \in Nat
  BY <1>3 DEF HopSums
<1>17. gs[js] <= gt[jt]
  BY <1>9, <1>10
<1>18. RouteCost(E, a) = ga[i - 1] + gs[js] /\ RouteCost(E, b) = ga[i - 1] + gt[jt]
  BY <1>7, <1>8, <1>11, <1>14, <1>15
<1> QED
  BY <1>16, <1>17, <1>18

\* A route that another goes the whole way of is that other.
LEMMA SameToTheEnd ==
  ASSUME NEW E, NEW src, NEW dst, NEW q, NEW r, IsRoute(E, q, src, dst), IsRoute(E, r, src, dst),
         NEW i \in Nat, Same(q, r, i), i >= Len(q)
  PROVE  q = r
<1>1. Len(q) \in Nat /\ Len(r) \in Nat /\ q \in Seq(Nodes) /\ r \in Seq(Nodes)
  BY DEF IsRoute
<1>2. Len(q) = i /\ i <= Len(r) /\ i \in 1..Len(r) /\ \A m \in 1..i : q[m] = r[m]
  BY <1>1 DEF Same, IsRoute
<1>3. r[i] = r[Len(r)]
  BY <1>2 DEF IsRoute
<1>4. Len(r) = i
  BY <1>1, <1>2, <1>3 DEF IsRoute
<1> QED
  BY <1>1, <1>2, <1>4

\* A route that is none of R leaves them somewhere.
LEMMA RouteLeaves ==
  ASSUME NEW E, NEW src, NEW dst, NEW R, R # {}, \A q \in R : IsRoute(E, q, src, dst),
         NEW r, IsRoute(E, r, src, dst), r \notin R
  PROVE  \E i \in 1..(Len(r) - 1) : Leaves(R, r, i)
<1> SUFFICES ASSUME \A i \in 1..(Len(r) - 1) : ~Leaves(R, r, i)
             PROVE  FALSE
  OBVIOUS
<1>0. Len(r) \in Nat /\ Len(r) >= 1
  BY DEF IsRoute
<1> DEFINE T == {i \in Nat : i + 1 <= Len(r) => \E q \in R : Same(q, r, i + 1)}
<1>1. 0 \in T
  <2>1. PICK q \in R : TRUE
    OBVIOUS
  <2>2. Same(q, r, 1)
    BY <1>0, <2>1 DEF IsRoute, Same
  <2> QED
    BY <2>2
<1>2. ASSUME NEW i \in Nat, i \in T
      PROVE  i + 1 \in T
  <2> SUFFICES ASSUME (i + 1) + 1 <= Len(r)
               PROVE  \E q \in R : Same(q, r, (i + 1) + 1)
    OBVIOUS
  <2>1. i + 1 \in 1..(Len(r) - 1) /\ i + 1 <= Len(r)
    BY <1>0
  <2>2. \E q \in R : Same(q, r, i + 1)
    BY <1>2, <2>1
  <2> QED
    BY <2>1, <2>2 DEF Leaves
<1>3. Nat \subseteq T
  <2> HIDE DEF T
  <2> QED
    BY <1>1, <1>2, NatSetInduction
<1>4. PICK i \in Nat : i + 1 = Len(r)
  <2>1. Len(r) - 1 \in Nat /\ (Len(r) - 1) + 1 = Len(r)
    BY <1>0
  <2> QED
    BY <2>1
<1>5. PICK q \in R : Same(q, r, i + 1)
  BY <1>0, <1>3, <1>4
<1>6. Same(r, q, i + 1)
  BY <1>5 DEF Same
<1>7. r = q
  BY <1>4, <1>6, SameToTheEnd
<1> QED
  BY <1>7

---------------------------------------------------------------------------

\* The routes there are.
AllRoutes == Routes(network, Src, Dst)

\* What the state is made of.
YenTypes ==
  /\ network \subseteq Edge
  /\ ranked \in Seq(AllRoutes) /\ IsInjective(ranked)
  /\ candidates \subseteq AllRoutes \ Range(ranked)
  /\ ranked = << >> => candidates = {}
  /\ ranked # << >> => spur \in 1..Len(LastRoute)

\* A route not found yet leaves those found where the round has still to look,
\* or where a candidate that is no dearer does.
Looked ==
  ranked # << >> =>
    \A r \in AllRoutes \ Range(ranked) : \A i \in 1..(Len(r) - 1) :
      Leaves(Range(ranked), r, i) =>
        \/ Same(LastRoute, r, i) /\ spur <= i
        \/ \E c \in candidates : Same(c, r, i) /\ RouteCost(network, c) <= RouteCost(network, r)

\* None that is still to come is likelier than one that came.
InOrder ==
  /\ \A r \in AllRoutes, i \in DOMAIN ranked :
       RouteCost(network, ranked[i]) > RouteCost(network, r) => \E n \in 1..(i - 1) : ranked[n] = r
  /\ ended => Len(ranked) = asked \/ Range(ranked) = AllRoutes

\* What a step keeps.
YenInv == YenTypes /\ Looked /\ InOrder

\* Where the elements of two sequences come in one after the other.
LEMMA JoinIs ==
  ASSUME NEW S, NEW p \in Seq(S), NEW w \in Seq(S)
  PROVE  /\ p \o w \in Seq(S) /\ Len(p \o w) = Len(p) + Len(w)
         /\ \A m \in 1..Len(p) : (p \o w)[m] = p[m]
         /\ \A m \in 1..Len(w) : (p \o w)[Len(p) + m] = w[m]
<1>1. p \o w \in Seq(S) /\ Len(p \o w) = Len(p) + Len(w)
  OBVIOUS
<1>2. \A m \in 1..Len(p) : (p \o w)[m] = p[m]
  OBVIOUS
<1>3. ASSUME NEW m \in 1..Len(w)
      PROVE  (p \o w)[Len(p) + m] = w[m]
  <2>1. /\ Len(p) \in Nat /\ Len(w) \in Nat /\ Len(p) + m \in 1..(Len(p) + Len(w))
        /\ Len(p) + m > Len(p) /\ (Len(p) + m) - Len(p) = m
    OBVIOUS
  <2> QED
    BY <2>1
<1> QED
  BY <1>1, <1>2, <1>3

\* What was found is routes of the graph, the last route among them.
LEMMA RankedAreRoutes ==
  ASSUME YenTypes, ranked # << >>
  PROVE  /\ network \in SUBSET Edge /\ Src \in Nodes
         /\ LastRoute \in Range(ranked) /\ IsRoute(network, LastRoute, Src, Dst)
         /\ \A q \in Range(ranked) : q \in AllRoutes /\ IsRoute(network, q, Src, Dst)
<1>1. network \in SUBSET Edge /\ Src \in Nodes
  BY YenAssumption DEF YenTypes
<1>2. ranked \in Seq(AllRoutes) /\ Len(ranked) \in 1..Len(ranked) /\ DOMAIN ranked = 1..Len(ranked)
  BY DEF YenTypes
<1>3. LastRoute \in Range(ranked) /\ \A q \in Range(ranked) : q \in AllRoutes
  BY <1>2 DEF Range, LastRoute
<1>4. \A q \in AllRoutes : IsRoute(network, q, Src, Dst)
  BY <1>1, RouteIs DEF AllRoutes
<1> QED
  BY <1>1, <1>3, <1>4

\* The root and a way on that the round finds are a route that was not found yet.
LEMMA JoinedIsNew ==
  ASSUME YenTypes, ranked # << >>, NEW i \in 1..(Len(LastRoute) - 1),
         NEW way \in Routes(LeftAfter(i), LastRoute[i], Dst)
  PROVE  /\ Joined(i, way) \in AllRoutes \ Range(ranked)
         /\ Same(Joined(i, way), LastRoute, i) /\ WayOn(way, Joined(i, way), i)
         /\ IsRoute(network, way, LastRoute[i], Dst)
<1> DEFINE L == LastRoute
           F == LeftAfter(i)
           j == Joined(i, way)
<1>1. /\ network \in SUBSET Edge /\ Src \in Nodes /\ L \in Range(ranked)
      /\ IsRoute(network, L, Src, Dst)
  BY RankedAreRoutes
<1>2. /\ L \in Seq(Nodes) /\ Len(L) >= 1 /\ L[1] = Src /\ L[Len(L)] = Dst
      /\ \A m \in 1..(Len(L) - 1) : \E e \in network : e.from = L[m] /\ e.to = L[m + 1]
      /\ \A m, n \in 1..Len(L) : L[m] = L[n] => m = n
  BY <1>1 DEF IsRoute
<1>3. /\ F \in SUBSET Edge /\ L[i] \in Nodes /\ i \in Nat /\ i >= 1 /\ i < Len(L) /\ L[i] # Dst
      /\ \A m \in 1..i : L[m] \in Nodes
  <2>1. F \in SUBSET Edge
    BY <1>1 DEF LeftAfter
  <2> HIDE DEF L, F
  <2> QED
    BY <1>2, <2>1 DEF L
<1>4. IsRoute(F, way, L[i], Dst)
  <2> HIDE DEF L, F
  <2> QED
    BY <1>3, RouteIs DEF L, F
<1>5. /\ way \in Seq(Nodes) /\ Len(way) >= 2 /\ way[1] = L[i] /\ way[Len(way)] = Dst
      /\ \A m \in 1..(Len(way) - 1) : \E e \in F : e.from = way[m] /\ e.to = way[m + 1]
      /\ \A m, n \in 1..Len(way) : way[m] = way[n] => m = n
  <2> HIDE DEF L, F
  <2>1. /\ way \in Seq(Nodes) /\ Len(way) >= 1 /\ way[1] = L[i] /\ way[Len(way)] = Dst
        /\ \A m \in 1..(Len(way) - 1) : \E e \in F : e.from = way[m] /\ e.to = way[m + 1]
        /\ \A m, n \in 1..Len(way) : way[m] = way[n] => m = n
    BY <1>4, Zenon DEF IsRoute
  <2>2. Len(way) # 1
    BY <1>3, <2>1
  <2>3. Len(way) >= 2
    <3>1. PICK n \in Nat : n = Len(way)
      BY <2>1
    <3>2. n >= 1 /\ n # 1
      BY <2>1, <2>2, <3>1
    <3> QED
      BY <3>1, <3>2
  <2> QED
    BY <2>1, <2>3, Zenon
<1>6. PICK p : p = Root(L, i - 1)
  OBVIOUS
<1>7. /\ p \in Seq(Nodes) /\ Len(p) = i - 1 /\ Range(p) = {L[m] : m \in 1..(i - 1)}
      /\ \A m \in 1..(i - 1) : p[m] = L[m]
  <2>1. p \in Seq(Nodes) /\ Len(p) = i - 1 /\ \A m \in 1..(i - 1) : p[m] = L[m]
    <3> HIDE DEF L
    <3> QED
      BY <1>2, <1>3, <1>6 DEF Root
  <2>2. DOMAIN p = 1..(i - 1)
    BY <2>1
  <2> QED
    BY <2>1, <2>2 DEF Range
<1>8. \A e \in F : /\ e \in network /\ <<e.from, e.to>> \notin Barred(i)
                   /\ \A m \in 1..(i - 1) : e.from # L[m] /\ e.to # L[m]
  BY <1>6, <1>7 DEF LeftAfter
<1>9. j = p \o way
  BY <1>6 DEF Joined
<1> HIDE DEF L, F, j
<1>10. /\ j \in Seq(Nodes) /\ Len(j) = (i - 1) + Len(way)
       /\ \A m \in 1..(i - 1) : j[m] = L[m]
       /\ \A m \in 1..Len(way) : j[i - 1 + m] = way[m]
  <2>1. /\ j \in Seq(Nodes) /\ Len(j) = Len(p) + Len(way)
        /\ \A m \in 1..Len(p) : j[m] = p[m]
        /\ \A m \in 1..Len(way) : j[Len(p) + m] = way[m]
    <3>1. p \in Seq(Nodes) /\ way \in Seq(Nodes)
      BY <1>5, <1>7
    <3>2. /\ p \o way \in Seq(Nodes) /\ Len(p \o way) = Len(p) + Len(way)
          /\ \A m \in 1..Len(p) : (p \o way)[m] = p[m]
          /\ \A m \in 1..Len(way) : (p \o way)[Len(p) + m] = way[m]
      BY <3>1, JoinIs
    <3> QED
      BY <1>9, <3>2, Zenon
  <2> QED
    BY <1>7, <2>1
<1>11. Len(way) \in Nat /\ Len(way) >= 2 /\ Len(j) = (i - 1) + Len(way) /\ i \in Nat /\ i >= 1
  BY <1>3, <1>5, <1>10
<1>12. \A m \in 1..i : j[m] = L[m]
  <2> TAKE m \in 1..i
  <2>1. CASE m \in 1..(i - 1)
    BY <1>10, <2>1
  <2>2. CASE m = i
    <3>1. i - 1 + 1 = i /\ 1 \in 1..Len(way)
      BY <1>3, <1>5
    <3> QED
      BY <1>5, <1>10, <2>2, <3>1
  <2> QED
    BY <2>1, <2>2
<1>13. Same(j, L, i) /\ WayOn(way, j, i)
  BY <1>3, <1>5, <1>10, <1>12 DEF Same, WayOn
<1>14. \A m \in 1..Len(way), n \in 1..(i - 1) : way[m] # L[n]
  <2> TAKE m \in 1..Len(way), n \in 1..(i - 1)
  <2>1. CASE m < Len(way)
    <3>1. PICK e \in F : e.from = way[m]
      BY <1>5, <2>1
    <3> QED
      BY <1>8, <3>1
  <2>2. CASE m = Len(way)
    <3>1. m - 1 \in 1..(Len(way) - 1) /\ (m - 1) + 1 = m
      BY <1>5, <2>2
    <3>2. PICK e \in F : e.to = way[m]
      BY <1>5, <3>1
    <3> QED
      BY <1>8, <3>2
  <2> QED
    BY <1>5, <2>1, <2>2
<1>15. IsRoute(network, j, Src, Dst)
  <2>1. \A m \in 1..(Len(j) - 1) : \E e \in network : e.from = j[m] /\ e.to = j[m + 1]
    <3> TAKE m \in 1..(Len(j) - 1)
    <3>1. CASE m < i
      <4>1. m \in 1..i /\ m + 1 \in 1..i /\ m \in 1..(Len(L) - 1)
        BY <1>3, <3>1
      <4> QED
        BY <1>2, <1>12, <4>1
    <3>2. CASE m >= i
      <4>1. PICK n \in 1..(Len(way) - 1) : m = i - 1 + n
        <5>1. m - i + 1 \in 1..(Len(way) - 1) /\ m = i - 1 + (m - i + 1)
          BY <1>11, <3>2
        <5> QED
          BY <5>1
      <4>2. n \in 1..Len(way) /\ n + 1 \in 1..Len(way) /\ m + 1 = i - 1 + (n + 1)
        BY <1>11, <4>1
      <4>3. j[m] = way[n] /\ j[m + 1] = way[n + 1]
        BY <1>10, <4>1, <4>2
      <4>4. PICK e \in F : e.from = way[n] /\ e.to = way[n + 1]
        BY <1>5, <4>1
      <4>5. e \in network /\ e.from = j[m] /\ e.to = j[m + 1]
        BY <1>8, <4>3, <4>4
      <4> QED
        BY <4>5
    <3> QED
      BY <1>3, <3>1, <3>2
  <2>2. \A m \in 1..Len(j) : m \in 1..(i - 1) \/ \E n \in 1..Len(way) : m = i - 1 + n
    <3> TAKE m \in 1..Len(j)
    <3>1. CASE m >= i
      <4>1. m - i + 1 \in 1..Len(way) /\ m = i - 1 + (m - i + 1)
        BY <1>11, <3>1
      <4> QED
        BY <4>1
    <3> QED
      BY <1>3, <3>1
  <2>3. ASSUME NEW m \in 1..Len(j), NEW n \in 1..Len(j), j[m] = j[n]
        PROVE  m = n
    <3>1. CASE m \in 1..(i - 1) /\ n \in 1..(i - 1)
      <4>1. L[m] = L[n]
        BY <1>10, <2>3, <3>1
      <4>2. m \in 1..Len(L) /\ n \in 1..Len(L)
        BY <1>3, <3>1
      <4> QED
        BY <1>2, <4>1, <4>2
    <3>2. CASE m \in 1..(i - 1) /\ \E x \in 1..Len(way) : n = i - 1 + x
      <4>1. PICK x \in 1..Len(way) : n = i - 1 + x
        BY <3>2
      <4>2. j[n] = way[x] /\ j[m] = L[m]
        BY <1>10, <3>2, <4>1
      <4>3. way[x] # L[m]
        BY <1>14, <3>2
      <4> QED
        BY <2>3, <4>2, <4>3
    <3>3. CASE n \in 1..(i - 1) /\ \E x \in 1..Len(way) : m = i - 1 + x
      <4>1. PICK x \in 1..Len(way) : m = i - 1 + x
        BY <3>3
      <4>2. j[m] = way[x] /\ j[n] = L[n]
        BY <1>10, <3>3, <4>1
      <4>3. way[x] # L[n]
        BY <1>14, <3>3
      <4> QED
        BY <2>3, <4>2, <4>3
    <3>4. CASE /\ \E x \in 1..Len(way) : m = i - 1 + x
               /\ \E x \in 1..Len(way) : n = i - 1 + x
      <4>1. PICK x \in 1..Len(way) : m = i - 1 + x
        BY <3>4
      <4>2. PICK y \in 1..Len(way) : n = i - 1 + y
        BY <3>4
      <4>3. way[x] = way[y]
        BY <1>10, <2>3, <4>1, <4>2
      <4>4. x = y
        BY <1>5, <4>3
      <4> QED
        BY <4>1, <4>2, <4>4
    <3> QED
      BY <2>2, <3>1, <3>2, <3>3, <3>4
  <2>4. j[1] = Src
    BY <1>2, <1>3, <1>12
  <2>5. j[Len(j)] = Dst /\ Len(j) >= 1
    <3>1. Len(way) \in 1..Len(way) /\ Len(j) = i - 1 + Len(way) /\ Len(j) >= 1
      BY <1>11
    <3>2. j[i - 1 + Len(way)] = way[Len(way)]
      BY <1>10, <3>1
    <3> QED
      BY <1>5, <3>1, <3>2
  <2> QED
    BY <1>10, <2>1, <2>3, <2>4, <2>5 DEF IsRoute
<1>16. j \in AllRoutes
  BY <1>1, <1>15, RouteIs DEF AllRoutes
<1>17. j \notin Range(ranked)
  <2> SUFFICES ASSUME j \in Range(ranked)
               PROVE  FALSE
    OBVIOUS
  <2>1. Root(j, i) = Root(L, i)
    <3>1. Root(j, i) \in Seq(Nodes) /\ Len(Root(j, i)) = i /\ \A m \in 1..i : Root(j, i)[m] = j[m]
      BY <1>3, <1>5, <1>10 DEF Root
    <3>2. Root(L, i) \in Seq(Nodes) /\ Len(Root(L, i)) = i /\ \A m \in 1..i : Root(L, i)[m] = L[m]
      BY <1>2, <1>3 DEF Root
    <3> QED
      BY <1>12, <3>1, <3>2
  <2>2. Len(j) >= i
    BY <1>3, <1>5, <1>10
  <2>3. <<j[i], j[i + 1]>> \in Barred(i)
    BY <2>1, <2>2 DEF Barred, L
  <2>4. PICK e \in F : e.from = way[1] /\ e.to = way[2]
    <3>1. 1 \in 1..(Len(way) - 1) /\ 1 + 1 = 2
      BY <1>5
    <3> QED
      BY <1>5, <3>1
  <2>5. j[i] = way[1] /\ j[i + 1] = way[2]
    <3>1. 1 \in 1..Len(way) /\ 2 \in 1..Len(way) /\ i - 1 + 1 = i /\ i - 1 + 2 = i + 1
      BY <1>3, <1>5
    <3> QED
      BY <1>10, <3>1
  <2> QED
    BY <1>8, <2>3, <2>4, <2>5
<1>18. IsRoute(network, way, L[i], Dst)
  <2>1. \A m \in 1..(Len(way) - 1) : \E e \in network : e.from = way[m] /\ e.to = way[m + 1]
    BY <1>5, <1>8
  <2> QED
    BY <1>4, <2>1 DEF IsRoute
<1> QED
  BY <1>13, <1>16, <1>17, <1>18 DEF j, L

\* What is left past the root keeps the way on of every route that leaves those found there.
LEMMA WayOnIsLeft ==
  ASSUME YenTypes, ranked # << >>, NEW i \in 1..(Len(LastRoute) - 1),
         NEW r \in AllRoutes \ Range(ranked), Leaves(Range(ranked), r, i), Same(LastRoute, r, i)
  PROVE  \E t \in Routes(LeftAfter(i), LastRoute[i], Dst) : WayOn(t, r, i)
<1> DEFINE L == LastRoute
           F == LeftAfter(i)
<1>1. /\ network \in SUBSET Edge /\ Src \in Nodes /\ IsRoute(network, L, Src, Dst)
      /\ \A q \in Range(ranked) : IsRoute(network, q, Src, Dst)
  BY RankedAreRoutes
<1>2. /\ L \in Seq(Nodes) /\ Len(L) >= 1 /\ L[Len(L)] = Dst
      /\ \A m, n \in 1..Len(L) : L[m] = L[n] => m = n
  BY <1>1 DEF IsRoute
<1>3. IsRoute(network, r, Src, Dst)
  BY <1>1, RouteIs DEF AllRoutes
<1>4. /\ r \in Seq(Nodes) /\ Len(r) >= 1 /\ r[Len(r)] = Dst
      /\ \A m \in 1..(Len(r) - 1) : \E e \in network : e.from = r[m] /\ e.to = r[m + 1]
      /\ \A m, n \in 1..Len(r) : r[m] = r[n] => m = n
  BY <1>3 DEF IsRoute
<1>5. F \in SUBSET Edge
  BY <1>1 DEF LeftAfter
<1> HIDE DEF L, F
<1>6. /\ i \in Nat /\ i >= 1 /\ i < Len(L) /\ L[i] # Dst /\ L[i] \in Nodes
      /\ \A m \in 1..i : L[m] = r[m]
      /\ i \in 1..Len(r)
  <2>1. Len(L) \in Nat /\ i \in 1..(Len(L) - 1)
    BY <1>2 DEF L
  <2>2. i <= Len(r) /\ \A m \in 1..i : L[m] = r[m]
    BY DEF Same, L
  <2>3. i \in 1..Len(L) /\ Len(L) \in 1..Len(L) /\ i # Len(L) /\ i \in Nat /\ i >= 1 /\ i < Len(L)
    BY <2>1
  <2>4. L[i] # Dst /\ L[i] \in Nodes
    BY <1>2, <2>3
  <2> QED
    BY <1>4, <2>2, <2>3, <2>4
<1>7. PICK t : t = SubSeq(r, i, Len(r))
  OBVIOUS
<1>8. /\ t \in Seq(Nodes) /\ Len(t) = Len(r) - i + 1
      /\ \A m \in 1..Len(t) : t[m] = r[i - 1 + m]
  BY <1>4, <1>6, <1>7
<1>9. \A m \in 1..Len(t) : i - 1 + m \in i..Len(r)
  BY <1>4, <1>6, <1>8
<1>10. ASSUME NEW m \in 1..(Len(t) - 1)
       PROVE  \E e \in F : e.from = t[m] /\ e.to = t[m + 1]
  <2>1. /\ m \in 1..Len(t) /\ m + 1 \in 1..Len(t) /\ i - 1 + (m + 1) = (i - 1 + m) + 1
        /\ i - 1 + m \in 1..(Len(r) - 1) /\ i - 1 + m \in i..Len(r) /\ (i - 1 + m) + 1 \in i..Len(r)
    BY <1>4, <1>6, <1>8
  <2>2. PICK n \in i..Len(r) : n = i - 1 + m
    BY <2>1
  <2>3. n \in 1..(Len(r) - 1) /\ n \in 1..Len(r) /\ n + 1 \in 1..Len(r) /\ t[m] = r[n] /\ t[m + 1] = r[n + 1]
    BY <1>4, <1>6, <1>8, <2>1, <2>2
  <2>4. PICK e \in network : e.from = r[n] /\ e.to = r[n + 1]
    BY <1>4, <2>3
  <2>5. \A x \in 1..(i - 1) : L[x] # e.from /\ L[x] # e.to
    <3> TAKE x \in 1..(i - 1)
    <3>1. x \in 1..i /\ x \in 1..Len(r) /\ x # n /\ x # n + 1
      BY <1>4, <1>6, <2>2
    <3>2. L[x] = r[x]
      BY <1>6, <3>1
    <3> QED
      BY <1>4, <2>3, <2>4, <3>1, <3>2
  <2>6. e.from \notin Range(Root(L, i - 1)) /\ e.to \notin Range(Root(L, i - 1))
    <3>1. PICK p : p = Root(L, i - 1)
      OBVIOUS
    <3>2. p \in Seq(Nodes) /\ Len(p) = i - 1 /\ \A x \in 1..(i - 1) : p[x] = L[x]
      BY <1>2, <1>6, <3>1 DEF Root
    <3>3. DOMAIN p = 1..(i - 1)
      BY <3>2
    <3>4. Range(p) = {L[x] : x \in 1..(i - 1)}
      BY <3>2, <3>3 DEF Range
    <3> QED
      BY <2>5, <3>1, <3>4
  <2>7. <<e.from, e.to>> \notin Barred(i)
    <3> SUFFICES ASSUME NEW q \in Range(ranked), Len(q) >= i, Root(q, i) = Root(L, i),
                        e.from = q[i], e.to = q[i + 1]
                 PROVE  FALSE
      BY DEF Barred, L
    <3>1. IsRoute(network, q, Src, Dst)
      BY <1>1
    <3>2. q \in Seq(Nodes) /\ q[Len(q)] = Dst
      BY <3>1 DEF IsRoute
    <3>3. \A x \in 1..i : q[x] = L[x]
      <4> TAKE x \in 1..i
      <4>1. Root(q, i)[x] = q[x]
        BY <1>6, <3>2 DEF Root
      <4>2. Root(L, i)[x] = L[x]
        BY <1>2, <1>6 DEF Root
      <4> QED
        BY <4>1, <4>2
    <3>4. i \in 1..i /\ q[i] = L[i] /\ L[i] = r[i]
      BY <1>6, <3>3
    <3>5. n = i
      BY <1>4, <1>6, <2>3, <2>4, <3>4
    <3>6. Len(q) # i
      BY <1>6, <3>2, <3>4
    <3>7. i + 1 <= Len(q) /\ i + 1 <= Len(r)
      BY <1>4, <1>6, <2>3, <3>2, <3>5, <3>6
    <3>8. \A x \in 1..(i + 1) : q[x] = r[x]
      <4> TAKE x \in 1..(i + 1)
      <4>1. CASE x \in 1..i
        BY <1>6, <3>3, <4>1
      <4>2. CASE x = i + 1
        BY <2>4, <3>5, <4>2
      <4> QED
        BY <1>6, <4>1, <4>2
    <3>9. Same(q, r, i + 1)
      BY <3>7, <3>8 DEF Same
    <3> QED
      BY <3>9 DEF Leaves
  <2>8. e \in F
    BY <2>6, <2>7 DEF LeftAfter, F, L
  <2> QED
    BY <2>3, <2>4, <2>8
<1>11. \A m, n \in 1..Len(t) : t[m] = t[n] => m = n
  <2> TAKE m, n \in 1..Len(t)
  <2> HAVE t[m] = t[n]
  <2>1. i - 1 + m \in 1..Len(r) /\ i - 1 + n \in 1..Len(r) /\ t[m] = r[i - 1 + m] /\ t[n] = r[i - 1 + n]
    BY <1>4, <1>6, <1>8
  <2>2. i - 1 + m = i - 1 + n
    BY <1>4, <2>1
  <2> QED
    BY <1>6, <2>2
<1>12. Len(t) >= 1 /\ t[1] = L[i] /\ t[Len(t)] = Dst
  <2>1. Len(t) >= 1 /\ i - 1 + 1 = i /\ i - 1 + Len(t) = Len(r) /\ Len(t) \in 1..Len(t) /\ 1 \in 1..Len(t)
    BY <1>4, <1>6, <1>8
  <2>2. t[1] = r[i] /\ t[Len(t)] = r[Len(r)] /\ i \in 1..i
    <3>1. t[1] = r[i - 1 + 1] /\ t[Len(t)] = r[i - 1 + Len(t)]
      BY <1>8, <2>1
    <3> QED
      BY <1>6, <2>1, <3>1
  <2> QED
    BY <1>4, <1>6, <2>1, <2>2
<1>13. IsRoute(F, t, L[i], Dst)
  BY <1>8, <1>10, <1>11, <1>12 DEF IsRoute
<1>14. t \in Routes(F, L[i], Dst)
  BY <1>5, <1>6, <1>13, RouteIs
<1>15. WayOn(t, r, i)
  BY <1>8 DEF WayOn
<1> QED
  BY <1>14, <1>15 DEF F, L

---------------------------------------------------------------------------

\* A cheapest route is one of them, and none is cheaper.
LEMMA CheapestIs ==
  ASSUME NEW R, NEW r \in CheapestOf(R)
  PROVE  r \in R /\ \A q \in R : RouteCost(network, r) <= RouteCost(network, q)
<1>1. PICK cost : cost = [x \in R |-> RouteCost(network, x)]
  OBVIOUS
<1>2. r \in R /\ \A q \in R : cost[r] <= cost[q]
  BY <1>1 DEF CheapestOf
<1>3. \A x \in R : cost[x] = RouteCost(network, x)
  BY <1>1
<1> QED
  BY <1>2, <1>3

\* When a round is over, a candidate is no dearer than any route still to come.
LEMMA CandidateIsNoDearer ==
  ASSUME YenTypes, Looked, ranked # << >>, spur = Len(LastRoute), NEW r \in AllRoutes \ Range(ranked)
  PROVE  /\ \E c \in candidates : RouteCost(network, c) <= RouteCost(network, r)
         /\ \A i \in 1..(Len(r) - 1) : Leaves(Range(ranked), r, i) => \E c \in candidates : Same(c, r, i) /\ RouteCost(network, c) <= RouteCost(network, r)
<1>1. /\ network \in SUBSET Edge /\ Src \in Nodes /\ LastRoute \in Range(ranked)
      /\ IsRoute(network, LastRoute, Src, Dst) /\ \A q \in Range(ranked) : IsRoute(network, q, Src, Dst)
  BY RankedAreRoutes
<1>2. IsRoute(network, r, Src, Dst)
  BY <1>1, RouteIs DEF AllRoutes
<1>3. ASSUME NEW i \in 1..(Len(r) - 1), Leaves(Range(ranked), r, i)
      PROVE  \E c \in candidates : Same(c, r, i) /\ RouteCost(network, c) <= RouteCost(network, r)
  <2> SUFFICES ASSUME Same(LastRoute, r, i), spur <= i
               PROVE  FALSE
    BY <1>3 DEF Looked
  <2>1. i \in Nat /\ i >= Len(LastRoute)
    OBVIOUS
  <2>2. LastRoute = r
    BY <1>1, <1>2, <2>1, SameToTheEnd
  <2> QED
    BY <1>1, <2>2
<1>4. \E i \in 1..(Len(r) - 1) : Leaves(Range(ranked), r, i)
  <2>1. Range(ranked) # {}
    BY <1>1
  <2> QED
    BY <1>1, <1>2, <2>1, RouteLeaves
<1> QED
  BY <1>3, <1>4

\* Where a route leaves R and one more, it leaves R, or that one.
LEMMA LeavesOneMore ==
  ASSUME NEW R, NEW q, NEW r, NEW i, Leaves(R \cup {q}, r, i)
  PROVE  Same(q, r, i) \/ Leaves(R, r, i)
BY DEF Leaves

\* What one more route adds to those found.
LEMMA RankedGrows ==
  ASSUME NEW S, NEW rk \in Seq(S), NEW r \in S
  PROVE  /\ Append(rk, r) \in Seq(S) /\ Len(Append(rk, r)) = Len(rk) + 1
         /\ Range(Append(rk, r)) = Range(rk) \cup {r}
         /\ IsInjective(rk) /\ r \notin Range(rk) => IsInjective(Append(rk, r))
         /\ Append(rk, r)[Len(rk) + 1] = r /\ \A i \in 1..Len(rk) : Append(rk, r)[i] = rk[i]
<1> DEFINE a == Append(rk, r)
<1>1. /\ a \in Seq(S) /\ Len(a) = Len(rk) + 1 /\ DOMAIN a = 1..(Len(rk) + 1) /\ DOMAIN rk = 1..Len(rk)
      /\ Len(rk) \in Nat /\ a[Len(rk) + 1] = r /\ \A i \in 1..Len(rk) : a[i] = rk[i]
  OBVIOUS
<1> HIDE DEF a
<1>2. Range(a) = Range(rk) \cup {r}
  BY <1>1 DEF Range
<1>3. ASSUME IsInjective(rk), r \notin Range(rk)
      PROVE  IsInjective(a)
  <2>1. \A i \in 1..Len(rk) : rk[i] # r
    BY <1>1, <1>3 DEF Range
  <2>2. \A i, m \in 1..Len(rk) : rk[i] = rk[m] => i = m
    BY <1>1, <1>3 DEF IsInjective
  <2> QED
    BY <1>1, <2>1, <2>2 DEF IsInjective
<1> QED
  BY <1>1, <1>2, <1>3 DEF a

\* Nothing is found at first.
LEMMA YenStarts == YenInit => YenInv
<1> SUFFICES ASSUME YenInit
             PROVE  YenInv
  OBVIOUS
<1>1. /\ network \in Networks /\ ranked = << >> /\ candidates = {} /\ ended = FALSE
  BY DEF YenInit
<1>2. ranked \in Seq(AllRoutes) /\ DOMAIN ranked = {}
  BY <1>1
<1>3. YenTypes
  BY <1>1, <1>2, YenAssumption DEF YenTypes, IsInjective
<1>4. Looked /\ InOrder
  BY <1>1, <1>2 DEF Looked, InOrder
<1> QED
  BY <1>3, <1>4 DEF YenInv

\* A first route leaves the others to the round that starts on it.
LEMMA FirstKeeps ==
  ASSUME YenInv, First
  PROVE  YenInv'
<1>1. /\ ranked = << >> /\ candidates = {} /\ network' = network /\ asked' = asked /\ candidates' = candidates
      /\ AllRoutes' = AllRoutes /\ network \subseteq Edge
  BY DEF First, YenInv, YenTypes, AllRoutes
<1>2. CASE AllRoutes = {}
  <2>1. ranked' = ranked /\ spur' = spur
    BY <1>2 DEF First, AllRoutes
  <2>2. Range(<< >>) = {} /\ DOMAIN << >> = {}
    BY DEF Range
  <2>3. YenTypes'
    BY <1>1, <2>1 DEF YenInv, YenTypes, LastRoute
  <2>4. Looked' /\ InOrder'
    BY <1>1, <1>2, <2>1, <2>2 DEF Looked, InOrder
  <2> QED
    BY <2>3, <2>4 DEF YenInv
<1>3. CASE AllRoutes # {}
  <2>1. PICK r \in CheapestOf(AllRoutes) : ranked' = <<r>>
    BY <1>3 DEF First, AllRoutes
  <2>2. spur' = 1 /\ ended' = (asked = 1)
    BY <1>3 DEF First, AllRoutes
  <2>3. r \in AllRoutes /\ \A q \in AllRoutes : RouteCost(network, r) <= RouteCost(network, q)
    BY CheapestIs
  <2>4. /\ <<r>> \in Seq(AllRoutes) /\ DOMAIN <<r>> = {1} /\ Len(<<r>>) = 1 /\ <<r>>[1] = r /\ <<r>> # << >>
        /\ Range(<<r>>) = {r}
    BY <2>3 DEF Range
  <2>5. LastRoute' = r
    BY <2>1, <2>4 DEF LastRoute
  <2>6. IsRoute(network, r, Src, Dst)
    BY <1>1, <2>3, YenAssumption, RouteIs DEF AllRoutes
  <2>7. 1 \in 1..Len(r)
    BY <2>6 DEF IsRoute
  <2>8. YenTypes'
    BY <1>1, <2>1, <2>2, <2>4, <2>5, <2>7 DEF YenTypes, IsInjective
  <2>9. Looked'
    BY <1>1, <2>1, <2>2, <2>4, <2>5 DEF Looked, Leaves
  <2>10. \A q \in AllRoutes : ~(RouteCost(network, r) > RouteCost(network, q))
    <3> TAKE q \in AllRoutes
    <3>1. IsRoute(network, q, Src, Dst)
      BY <1>1, YenAssumption, RouteIs DEF AllRoutes
    <3>2. RouteCost(network, q) \in Nat /\ RouteCost(network, r) \in Nat
      BY <1>1, <2>6, <3>1, RouteCostIsNat
    <3> QED
      BY <2>3, <3>2
  <2>11. InOrder'
    BY <1>1, <2>1, <2>2, <2>4, <2>10 DEF InOrder
  <2> QED
    BY <2>8, <2>9, <2>11 DEF YenInv
<1> QED
  BY <1>2, <1>3

\* A search from one node puts a candidate where it looked.
LEMMA SpurKeeps ==
  ASSUME YenInv, Spur
  PROVE  YenInv'
<1> DEFINE i == spur
           ways == Routes(LeftAfter(spur), LastRoute[spur], Dst)
           old == AllRoutes \ Range(ranked)
<1>1. /\ ranked # << >> /\ spur < Len(LastRoute) /\ spur' = spur + 1 /\ ended' = ended
      /\ network' = network /\ asked' = asked /\ ranked' = ranked
      /\ AllRoutes' = AllRoutes /\ LastRoute' = LastRoute
  BY DEF Spur, AllRoutes, LastRoute
<1>2. YenTypes /\ Looked /\ InOrder
  BY DEF YenInv
<1>3. /\ network \in SUBSET Edge /\ Src \in Nodes /\ IsRoute(network, LastRoute, Src, Dst)
  BY <1>1, <1>2, RankedAreRoutes
<1>4. /\ Len(LastRoute) \in Nat /\ spur \in 1..(Len(LastRoute) - 1) /\ spur + 1 \in 1..Len(LastRoute)
      /\ spur \in Nat /\ spur >= 1
  BY <1>1, <1>2, <1>3 DEF YenTypes, IsRoute
<1>5. \A r \in old : IsRoute(network, r, Src, Dst)
  BY <1>3, RouteIs DEF AllRoutes
<1>6. candidates \subseteq candidates' /\ candidates' \subseteq old
  <2>1. CASE ways = {}
    BY <1>2, <2>1 DEF Spur, YenTypes
  <2>2. CASE ways # {}
    <3>1. PICK way \in CheapestOf(ways) : candidates' = candidates \cup ({Joined(spur, way)} \ Range(ranked))
      BY <2>2 DEF Spur
    <3>2. way \in ways
      BY CheapestIs
    <3>3. Joined(spur, way) \in old
      BY <1>1, <1>2, <1>4, <3>2, JoinedIsNew
    <3> QED
      BY <1>2, <3>1, <3>3 DEF YenTypes
  <2> QED
    BY <2>1, <2>2
<1>7. ASSUME NEW r \in old, spur \in 1..(Len(r) - 1), Leaves(Range(ranked), r, spur), Same(LastRoute, r, spur)
      PROVE  \E c \in candidates' : Same(c, r, spur) /\ RouteCost(network, c) <= RouteCost(network, r)
  <2>1. PICK t \in ways : WayOn(t, r, spur)
    BY <1>1, <1>2, <1>4, <1>7, WayOnIsLeft
  <2>2. PICK way \in CheapestOf(ways) : candidates' = candidates \cup ({Joined(spur, way)} \ Range(ranked))
    BY <2>1 DEF Spur
  <2>3. way \in ways /\ RouteCost(network, way) <= RouteCost(network, t)
    BY <2>1, CheapestIs
  <2>4. PICK c : c = Joined(spur, way)
    OBVIOUS
  <2>5. /\ c \in old /\ Same(c, LastRoute, spur) /\ WayOn(way, c, spur)
        /\ IsRoute(network, way, LastRoute[spur], Dst)
    BY <1>1, <1>2, <1>4, <2>3, <2>4, JoinedIsNew
  <2>6. IsRoute(network, t, LastRoute[spur], Dst)
    BY <1>1, <1>2, <1>4, <2>1, JoinedIsNew
  <2>7. Same(c, r, spur)
    BY <1>7, <2>5 DEF Same
  <2>8. RouteCost(network, c) <= RouteCost(network, r)
    <3>1. IsRoute(network, c, Src, Dst) /\ IsRoute(network, r, Src, Dst)
      BY <1>5, <2>5
    <3> HIDE DEF ways
    <3> QED
      BY <1>3, <1>4, <2>1, <2>3, <2>5, <2>6, <2>7, <3>1, CheaperWayOn
  <2>9. c \in candidates'
    BY <2>2, <2>4, <2>5
  <2> QED
    BY <2>7, <2>8, <2>9
<1>8. YenTypes'
  BY <1>1, <1>2, <1>4, <1>6 DEF YenTypes
<1>9. Looked'
  <2> SUFFICES ASSUME NEW r \in old, NEW m \in 1..(Len(r) - 1), Leaves(Range(ranked), r, m)
               PROVE  \/ Same(LastRoute, r, m) /\ spur + 1 <= m
                      \/ \E c \in candidates' : Same(c, r, m) /\ RouteCost(network, c) <= RouteCost(network, r)
    BY <1>1 DEF Looked
  <2>1. \/ Same(LastRoute, r, m) /\ spur <= m
        \/ \E c \in candidates : Same(c, r, m) /\ RouteCost(network, c) <= RouteCost(network, r)
    BY <1>1, <1>2 DEF Looked
  <2>2. CASE \E c \in candidates : Same(c, r, m) /\ RouteCost(network, c) <= RouteCost(network, r)
    BY <1>6, <2>2
  <2>3. CASE Same(LastRoute, r, m) /\ spur <= m /\ spur # m
    BY <1>4, <2>3
  <2>4. CASE Same(LastRoute, r, m) /\ spur = m
    BY <1>7, <2>4
  <2> QED
    BY <2>1, <2>2, <2>3, <2>4
<1>10. InOrder'
  BY <1>1, <1>2 DEF InOrder
<1> QED
  BY <1>8, <1>9, <1>10 DEF YenInv

\* The candidate taken is the cheapest route to come, and the next round looks along it.
LEMMA AdvanceKeeps ==
  ASSUME YenInv, Advance
  PROVE  YenInv'
<1>1. /\ ranked # << >> /\ spur = Len(LastRoute) /\ network' = network /\ asked' = asked /\ AllRoutes' = AllRoutes
  BY DEF Advance, AllRoutes
<1>2. YenTypes /\ Looked /\ InOrder
  BY DEF YenInv
<1>3. network \in SUBSET Edge /\ Src \in Nodes /\ Range(ranked) \subseteq AllRoutes
  BY <1>1, <1>2, RankedAreRoutes
<1>4. CASE candidates = {}
  <2>1. UNCHANGED <<ranked, candidates, spur>>
    BY <1>4 DEF Advance
  <2>2. LastRoute' = LastRoute
    BY <2>1 DEF LastRoute
  <2>3. AllRoutes \ Range(ranked) = {}
    BY <1>1, <1>2, <1>4, CandidateIsNoDearer
  <2>4. YenTypes'
    BY <1>1, <1>2, <2>1, <2>2 DEF YenTypes
  <2>5. Looked'
    BY <1>1, <1>2, <2>1, <2>2 DEF Looked
  <2>6. InOrder'
    BY <1>1, <1>2, <1>3, <2>1, <2>3 DEF InOrder
  <2> QED
    BY <2>4, <2>5, <2>6 DEF YenInv
<1>5. CASE candidates # {}
  <2>1. PICK r \in Foremost : ranked' = Append(ranked, r) /\ candidates' = candidates \ {r}
    BY <1>5 DEF Advance
  <2>2. spur' = 1 /\ ended' = (Len(ranked) + 1 = asked)
    BY <1>5 DEF Advance
  <2>3. r \in candidates /\ \A c \in candidates : RouteCost(network, r) <= RouteCost(network, c)
    BY CheapestIs DEF Foremost
  <2>4. r \in AllRoutes /\ r \notin Range(ranked) /\ ranked \in Seq(AllRoutes) /\ IsInjective(ranked)
    BY <1>2, <2>3 DEF YenTypes
  <2>5. /\ ranked' \in Seq(AllRoutes) /\ Len(ranked') = Len(ranked) + 1 /\ Range(ranked') = Range(ranked) \cup {r}
        /\ IsInjective(ranked') /\ ranked'[Len(ranked) + 1] = r /\ \A i \in 1..Len(ranked) : ranked'[i] = ranked[i]
    BY <2>1, <2>4, RankedGrows
  <2>6. /\ Len(ranked) \in Nat /\ DOMAIN ranked = 1..Len(ranked) /\ DOMAIN ranked' = 1..(Len(ranked) + 1)
        /\ ranked' # << >>
    BY <2>4, <2>5
  <2>7. LastRoute' = r
    BY <2>5 DEF LastRoute
  <2>8. IsRoute(network, r, Src, Dst)
    BY <1>3, <2>4, RouteIs DEF AllRoutes
  <2>9. 1 \in 1..Len(r)
    BY <2>8 DEF IsRoute
  <2>10. YenTypes'
    <3>1. candidates' \subseteq AllRoutes \ (Range(ranked) \cup {r})
      BY <1>2, <2>1 DEF YenTypes
    <3> QED
      BY <1>1, <1>3, <2>2, <2>5, <2>6, <2>7, <2>9, <3>1 DEF YenTypes
  <2>11. Looked'
    <3> SUFFICES ASSUME NEW q \in AllRoutes \ (Range(ranked) \cup {r}), NEW i \in 1..(Len(q) - 1),
                        Leaves(Range(ranked) \cup {r}, q, i)
                 PROVE  \/ Same(r, q, i) /\ 1 <= i
                        \/ \E c \in candidates' : Same(c, q, i) /\ RouteCost(network, c) <= RouteCost(network, q)
      BY <1>1, <2>2, <2>5, <2>7 DEF Looked
    <3>1. CASE Same(r, q, i)
      BY <3>1
    <3>2. CASE ~Same(r, q, i)
      <4>1. Leaves(Range(ranked), q, i)
        BY <3>2, LeavesOneMore
      <4>2. PICK c \in candidates : Same(c, q, i) /\ RouteCost(network, c) <= RouteCost(network, q)
        BY <1>1, <1>2, <4>1, CandidateIsNoDearer
      <4>3. c \in candidates'
        BY <2>1, <3>2, <4>2
      <4> QED
        BY <4>2, <4>3
    <3> QED
      BY <3>1, <3>2
  <2>12. ASSUME NEW q \in AllRoutes, RouteCost(network, r) > RouteCost(network, q)
         PROVE  q \in Range(ranked)
    <3> SUFFICES ASSUME q \notin Range(ranked)
                 PROVE  FALSE
      OBVIOUS
    <3>1. PICK c \in candidates : RouteCost(network, c) <= RouteCost(network, q)
      BY <1>1, <1>2, CandidateIsNoDearer
    <3>2. c \in AllRoutes /\ RouteCost(network, r) <= RouteCost(network, c)
      BY <1>2, <2>3 DEF YenTypes
    <3>3. IsRoute(network, c, Src, Dst) /\ IsRoute(network, q, Src, Dst)
      BY <1>3, <3>2, RouteIs DEF AllRoutes
    <3>4. /\ RouteCost(network, c) \in Nat /\ RouteCost(network, q) \in Nat /\ RouteCost(network, r) \in Nat
      BY <1>3, <2>8, <3>3, RouteCostIsNat
    <3> QED
      BY <2>12, <3>1, <3>2, <3>4
  <2>13. ASSUME NEW q \in AllRoutes, NEW i \in 1..(Len(ranked) + 1),
                RouteCost(network, ranked'[i]) > RouteCost(network, q)
         PROVE  \E n \in 1..(i - 1) : ranked'[n] = q
    <3>1. CASE i \in 1..Len(ranked)
      <4>1. \E n \in 1..(i - 1) : ranked[n] = q
        BY <1>2, <2>5, <2>6, <2>13, <3>1 DEF InOrder
      <4> QED
        BY <2>5, <2>6, <3>1, <4>1
    <3>2. CASE i = Len(ranked) + 1
      <4>1. q \in Range(ranked)
        BY <2>5, <2>12, <2>13, <3>2
      <4>2. PICK n \in 1..Len(ranked) : ranked[n] = q
        BY <2>6, <4>1 DEF Range
      <4>3. n \in 1..(i - 1) /\ ranked'[n] = q
        BY <2>5, <2>6, <3>2, <4>2
      <4> QED
        BY <4>3
    <3> QED
      BY <2>6, <3>1, <3>2
  <2>14. InOrder'
    BY <1>1, <2>2, <2>5, <2>6, <2>13 DEF InOrder
  <2> QED
    BY <2>10, <2>11, <2>14 DEF YenInv
<1> QED
  BY <1>4, <1>5

\* Every step keeps the invariant.
LEMMA YenSteps == YenInv /\ [YenNext]_yenVars => YenInv'
<1> SUFFICES ASSUME YenInv, [YenNext]_yenVars
             PROVE  YenInv'
  OBVIOUS
<1>1. CASE First
  BY <1>1, FirstKeeps
<1>2. CASE Spur
  BY <1>2, SpurKeeps
<1>3. CASE Advance
  BY <1>3, AdvanceKeeps
<1>4. CASE UNCHANGED yenVars
  <2>1. AllRoutes' = AllRoutes /\ LastRoute' = LastRoute
    BY <1>4 DEF yenVars, AllRoutes, LastRoute
  <2> QED
    BY <1>4, <2>1 DEF yenVars, YenInv, YenTypes, Looked, InOrder
<1> QED
  BY <1>1, <1>2, <1>3, <1>4 DEF YenNext

\* With the invariant the routes are in order.
LEMMA OrderIsKept == YenInv => LikeliestRoutesInOrder
<1> SUFFICES ASSUME YenInv
             PROVE  LikeliestRoutesInOrder
  OBVIOUS
<1>1. YenTypes /\ InOrder
  BY DEF YenInv
<1>2. PICK all : all = Routes(network, Src, Dst)
  OBVIOUS
<1>3. PICK cost : cost = [r \in all |-> RouteCost(network, r)]
  OBVIOUS
<1>4. /\ Range(ranked) \subseteq all /\ IsInjective(ranked) /\ \A i \in DOMAIN ranked : ranked[i] \in all
      /\ all = AllRoutes
  BY <1>1, <1>2 DEF YenTypes, AllRoutes, Range
<1>5. \A r \in all : cost[r] = RouteCost(network, r)
  BY <1>3
<1>6. \A r \in all, i \in DOMAIN ranked : cost[ranked[i]] > cost[r] => \E n \in 1..(i - 1) : ranked[n] = r
  BY <1>1, <1>4, <1>5 DEF InOrder
<1>7. ended => Len(ranked) = asked \/ Range(ranked) = all
  BY <1>1, <1>4 DEF InOrder
<1> QED
  BY <1>2, <1>3, <1>4, <1>6, <1>7, Zenon DEF LikeliestRoutesInOrder

\* Yen's routes come out each once and in order, with none left out before a
\* dearer one, for every graph and any number asked for (kShortest).
THEOREM RoutesComeInOrder == YenSpec => []LikeliestRoutesInOrder
<1>1. YenSpec => []YenInv
  BY YenStarts, YenSteps, PTL DEF YenSpec
<1> QED
  BY <1>1, OrderIsKept, PTL

---------------------------------------------------------------------------
(***************************************************************************)
(* The port sets of a first-match firewall, for every number of ports, any *)
(* rules and any order of them.                                            *)
(***************************************************************************)

\* Ranges that hold something, and lists of them.
Ranges == {r \in [from : 0..MaxPort, to : 0..MaxPort] : r.from <= r.to}
RangeLists == Seq(Ranges)

\* The ports of a list.
Has(s) == {n \in 0..MaxPort : \E i \in DOMAIN s : s[i].from <= n /\ n <= s[i].to}

\* Ranges in order, with a gap between each and the next.
Apart(s) == \A i \in 1..(Len(s) - 1) : s[i].to + 1 < s[i + 1].from

\* What k turns of a loop make of s, the n-th one by f.
Turns(g, f, s, k) == g = [n \in 0..k |-> IF n = 0 THEN s ELSE f[n][g[n - 1]]]

\* There is such a loop, and it stays where its turns stay.
LEMMA TurnsRun ==
  ASSUME NEW D, NEW s \in D, NEW k \in Nat, NEW f, \A n \in 1..k, d \in D : f[n][d] \in D
  PROVE  \E g \in [0..k -> D] : Turns(g, f, s, k)
<1> DEFINE S == {m \in Nat : m <= k => \E g \in [0..m -> D] : Turns(g, f, s, m)}
<1>1. 0 \in S
  <2>1. PICK g : g = [n \in 0..0 |-> s]
    OBVIOUS
  <2>2. g \in [0..0 -> D] /\ g = [n \in 0..0 |-> IF n = 0 THEN s ELSE f[n][g[n - 1]]]
    BY <2>1
  <2> QED
    BY <2>2 DEF Turns
<1>2. ASSUME NEW m \in Nat, m \in S
      PROVE  m + 1 \in S
  <2> SUFFICES ASSUME m + 1 <= k
               PROVE  \E g \in [0..(m + 1) -> D] : Turns(g, f, s, m + 1)
    OBVIOUS
  <2>1. PICK g \in [0..m -> D] : Turns(g, f, s, m)
    BY <1>2
  <2>2. PICK h : h = [n \in 0..(m + 1) |-> IF n <= m THEN g[n] ELSE f[m + 1][g[m]]]
    OBVIOUS
  <2>3. \A n \in 0..m : g[n] = IF n = 0 THEN s ELSE f[n][g[n - 1]]
    BY <2>1 DEF Turns
  <2>4. f[m + 1][g[m]] \in D
    <3>1. g[m] \in D /\ m + 1 \in 1..k
      BY <2>1
    <3> QED
      BY <3>1
  <2>5. \A n \in 0..(m + 1) : h[n] = IF n = 0 THEN s ELSE f[n][h[n - 1]]
    <3> TAKE n \in 0..(m + 1)
    <3>1. CASE n = 0
      BY <2>2, <2>3, <3>1
    <3>2. CASE n \in 1..m
      <4>1. n - 1 \in 0..m /\ h[n - 1] = g[n - 1] /\ h[n] = g[n] /\ n \in 0..m
        BY <2>2, <3>2
      <4> QED
        BY <2>3, <3>2, <4>1
    <3>3. CASE n = m + 1
      <4>1. h[n - 1] = g[m] /\ h[n] = f[n][g[m]]
        BY <2>2, <3>3
      <4> QED
        BY <3>3, <4>1
    <3> QED
      BY <3>1, <3>2, <3>3
  <2>6. \A n \in 0..(m + 1) : h[n] \in D
    BY <2>1, <2>2, <2>4
  <2>7. h \in [0..(m + 1) -> D]
    BY <2>2, <2>6
  <2>8. h = [n \in 0..(m + 1) |-> IF n = 0 THEN s ELSE f[n][h[n - 1]]]
    BY <2>2, <2>5
  <2> QED
    BY <2>7, <2>8 DEF Turns
<1>3. Nat \subseteq S
  <2> HIDE DEF S
  <2> QED
    BY <1>1, <1>2, NatSetInduction
<1> QED
  BY <1>3

---------------------------------------------------------------------------

\* A range between two ports, the first not past the second.
LEMMA SpanIs ==
  \A a, b \in 0..MaxPort : a <= b => /\ Span(a, b) \in Ranges
                                    /\ Span(a, b).from = a /\ Span(a, b).to = b
BY DEF Span, Ranges

\* A list of one range.
LEMMA OneRange ==
  \A r, x : x \in Has(<<r>>) <=> x \in 0..MaxPort /\ r.from <= x /\ x <= r.to
<1>1. \A r : <<r>>[1] = r /\ DOMAIN <<r>> = {1}
  OBVIOUS
<1> QED
  BY <1>1 DEF Has

\* A list holds what its ranges hold.
LEMMA RangeByRange ==
  ASSUME NEW s, NEW k, DOMAIN s = 1..k
  PROVE  \A x : x \in Has(s) <=> \E m \in 1..k : x \in Has(<<s[m]>>)
<1>1. \A x : x \in Has(s) <=> x \in 0..MaxPort /\ \E m \in 1..k : s[m].from <= x /\ x <= s[m].to
  BY DEF Has
<1> QED
  BY <1>1, OneRange

\* A function from the numbers up to k is a list.
LEMMA ListOf ==
  ASSUME NEW D, NEW k \in Nat, NEW s, DOMAIN s = 1..k, s = [m \in 1..k |-> s[m]], \A m \in 1..k : s[m] \in D
  PROVE  s \in Seq(D) /\ Len(s) = k
OBVIOUS

\* The greater and the lesser of two numbers.
LEMMA OfTwo ==
  ASSUME NEW a \in Int, NEW b \in Int
  PROVE  /\ Max({a, b}) = IF a <= b THEN b ELSE a
         /\ Min({a, b}) = IF a <= b THEN a ELSE b
<1>1. PICK x : x = Max({a, b})
  OBVIOUS
<1>2. PICK y : y = Min({a, b})
  OBVIOUS
<1>3. \E z \in {a, b} : \A w \in {a, b} : z >= w
  OBVIOUS
<1>4. \E z \in {a, b} : \A w \in {a, b} : z <= w
  OBVIOUS
<1>5. x \in {a, b} /\ \A w \in {a, b} : x >= w
  BY <1>1, <1>3 DEF Max
<1>6. y \in {a, b} /\ \A w \in {a, b} : y <= w
  BY <1>2, <1>4 DEF Min
<1> QED
  BY <1>1, <1>2, <1>5, <1>6

\* Lists end to end hold what each holds.
LEMMA EndToEnd ==
  ASSUME NEW a \in RangeLists, NEW b \in RangeLists
  PROVE  a \o b \in RangeLists /\ Has(a \o b) = Has(a) \cup Has(b)
<1>1. a \o b \in Seq(Ranges) /\ Len(a \o b) = Len(a) + Len(b)
  BY DEF RangeLists
<1>2. /\ \A m \in 1..Len(a) : (a \o b)[m] = a[m]
      /\ \A m \in 1..Len(b) : (a \o b)[Len(a) + m] = b[m]
  BY JoinIs DEF RangeLists
<1>3. PICK c : c = a \o b
  OBVIOUS
<1>4. /\ DOMAIN a = 1..Len(a) /\ DOMAIN b = 1..Len(b) /\ DOMAIN c = 1..(Len(a) + Len(b))
      /\ Len(a) \in Nat /\ Len(b) \in Nat
  BY <1>1, <1>3 DEF RangeLists
<1>5. /\ \A m \in 1..Len(a) : c[m] = a[m]
      /\ \A m \in 1..Len(b) : c[Len(a) + m] = b[m]
  BY <1>2, <1>3
<1>6. Has(a) \subseteq Has(c)
  BY <1>4, <1>5 DEF Has
<1>7. Has(b) \subseteq Has(c)
  <2> SUFFICES ASSUME NEW n \in 0..MaxPort, NEW i \in 1..Len(b), b[i].from <= n, n <= b[i].to
               PROVE  \E m \in 1..(Len(a) + Len(b)) : c[m].from <= n /\ n <= c[m].to
    BY <1>4 DEF Has
  <2>1. Len(a) + i \in 1..(Len(a) + Len(b)) /\ c[Len(a) + i] = b[i]
    BY <1>4, <1>5
  <2> QED
    BY <2>1
<1>8. Has(c) \subseteq Has(a) \cup Has(b)
  <2> SUFFICES ASSUME NEW n \in 0..MaxPort, NEW m \in 1..(Len(a) + Len(b)), c[m].from <= n, n <= c[m].to
               PROVE  \/ \E i \in 1..Len(a) : a[i].from <= n /\ n <= a[i].to
                      \/ \E i \in 1..Len(b) : b[i].from <= n /\ n <= b[i].to
    BY <1>4 DEF Has
  <2>1. CASE m <= Len(a)
    BY <1>4, <1>5, <2>1
  <2>2. CASE m > Len(a)
    <3>1. m - Len(a) \in 1..Len(b) /\ Len(a) + (m - Len(a)) = m
      BY <1>4, <2>2
    <3>2. c[m] = b[m - Len(a)]
      BY <1>5, <3>1
    <3> QED
      BY <3>1, <3>2
  <2> QED
    BY <1>4, <2>1, <2>2
<1> QED
  BY <1>1, <1>3, <1>6, <1>7, <1>8 DEF RangeLists

\* So do any number of them.
LEMMA FlatIs ==
  ASSUME NEW ls \in Seq(RangeLists)
  PROVE  /\ Flat(ls) \in RangeLists
         /\ \A x : x \in Has(Flat(ls)) <=> \E m \in 1..Len(ls) : x \in Has(ls[m])
<1> DEFINE k == Len(ls)
           u == CHOOSE u : u = [n \in 0..k |-> IF n = 0 THEN << >> ELSE u[n - 1] \o ls[n]]
<1>1. Flat(ls) = u[k]
  BY Zenon DEF Flat
<1>2. k \in Nat /\ \A n \in 1..k : ls[n] \in RangeLists
  OBVIOUS
<1>3. << >> \in RangeLists /\ Has(<< >>) = {}
  BY DEF RangeLists, Has
<1> HIDE DEF k
<1>4. \E g : g = [n \in 0..k |-> IF n = 0 THEN << >> ELSE g[n - 1] \o ls[n]]
  <2>1. PICK f : f = [n \in 1..k |-> [d \in RangeLists |-> d \o ls[n]]]
    OBVIOUS
  <2>2. \A n \in 1..k, d \in RangeLists : f[n][d] = d \o ls[n] /\ f[n][d] \in RangeLists
    BY <1>2, <2>1, EndToEnd
  <2>3. PICK g \in [0..k -> RangeLists] : Turns(g, f, << >>, k)
    BY <1>2, <1>3, <2>2, TurnsRun
  <2>4. g = [n \in 0..k |-> IF n = 0 THEN << >> ELSE f[n][g[n - 1]]]
    BY <2>3 DEF Turns
  <2>5. \A n \in 0..k : (IF n = 0 THEN << >> ELSE f[n][g[n - 1]]) = IF n = 0 THEN << >> ELSE g[n - 1] \o ls[n]
    <3> TAKE n \in 0..k
    <3>1. CASE n = 0
      BY <3>1
    <3>2. CASE n # 0
      <4>1. n \in 1..k /\ n - 1 \in 0..k
        BY <1>2, <3>2
      <4>2. g[n - 1] \in RangeLists
        BY <2>3, <4>1
      <4>3. f[n][g[n - 1]] = g[n - 1] \o ls[n]
        BY <2>2, <4>1, <4>2
      <4> QED
        BY <3>2, <4>3
    <3> QED
      BY <3>1, <3>2
  <2> QED
    BY <2>4, <2>5
<1>5. u = [n \in 0..k |-> IF n = 0 THEN << >> ELSE u[n - 1] \o ls[n]]
  BY <1>4, Zenon
<1> HIDE DEF u
<1>6. \A n \in 0..k : u[n] = IF n = 0 THEN << >> ELSE u[n - 1] \o ls[n]
  BY <1>5, Zenon
<1> DEFINE T == {n \in Nat : n <= k => /\ u[n] \in RangeLists
                                       /\ \A x : x \in Has(u[n]) <=> \E m \in 1..n : x \in Has(ls[m])}
<1>7. 0 \in T
  <2>1. u[0] = << >>
    BY <1>2, <1>6
  <2> QED
    BY <1>3, <2>1
<1>8. ASSUME NEW n \in Nat, n \in T
      PROVE  n + 1 \in T
  <2> SUFFICES ASSUME n + 1 <= k
               PROVE  /\ u[n + 1] \in RangeLists
                      /\ \A x : x \in Has(u[n + 1]) <=> \E m \in 1..(n + 1) : x \in Has(ls[m])
    OBVIOUS
  <2>1. n + 1 \in 0..k /\ n + 1 \in 1..k /\ n + 1 # 0 /\ (n + 1) - 1 = n /\ n <= k
    BY <1>2
  <2>2. u[n + 1] = u[n] \o ls[n + 1]
    BY <1>6, <2>1
  <2>3. u[n] \in RangeLists /\ \A x : x \in Has(u[n]) <=> \E m \in 1..n : x \in Has(ls[m])
    BY <1>8, <2>1
  <2>4. ls[n + 1] \in RangeLists
    BY <1>2, <2>1
  <2>5. u[n + 1] \in RangeLists /\ Has(u[n + 1]) = Has(u[n]) \cup Has(ls[n + 1])
    BY <2>2, <2>3, <2>4, EndToEnd
  <2>6. \A m : m \in 1..(n + 1) <=> m \in 1..n \/ m = n + 1
    OBVIOUS
  <2> QED
    BY <2>3, <2>5, <2>6
<1>9. k \in T
  <2> HIDE DEF T
  <2> QED
    BY <1>2, <1>7, <1>8, NatSetInduction
<1> QED
  BY <1>1, <1>2, <1>9 DEF k

---------------------------------------------------------------------------

\* A sorted list has the same ranges, none before one that begins earlier.
LEMMA SortedIs ==
  ASSUME NEW rs \in RangeLists
  PROVE  /\ Sorted(rs) \in RangeLists /\ Len(Sorted(rs)) = Len(rs)
         /\ \A n, m \in 1..Len(rs) : n < m => Sorted(rs)[n].from <= Sorted(rs)[m].from
         /\ \A i \in 1..Len(rs) : \E n \in 1..Len(rs) : Sorted(rs)[n] = rs[i]
         /\ \A n \in 1..Len(rs) : \E i \in 1..Len(rs) : Sorted(rs)[n] = rs[i]
<1> DEFINE before(i) == {j \in DOMAIN rs : rs[j].from < rs[i].from \/ (rs[j].from = rs[i].from /\ j < i)}
           at(n) == CHOOSE i \in DOMAIN rs : Cardinality(before(i)) = n - 1
<1>1. PICK k \in Nat : k = Len(rs) /\ DOMAIN rs = 1..k
  BY DEF RangeLists
<1>2. \A i \in 1..k : rs[i] \in Ranges /\ rs[i].from \in Nat
  BY <1>1 DEF RangeLists, Ranges
<1>3. Sorted(rs) = [n \in 1..k |-> rs[at(n)]]
  BY <1>1 DEF Sorted
<1>4. \A i \in 1..k : IsFiniteSet(before(i)) /\ Cardinality(before(i)) \in 0..(k - 1)
  <2> TAKE i \in 1..k
  <2>1. before(i) \in SUBSET ((1..k) \ {i})
    BY <1>1, <1>2
  <2>2. IsFiniteSet(1..k) /\ Cardinality(1..k) = k
    BY FS_Interval
  <2>3. IsFiniteSet((1..k) \ {i}) /\ Cardinality((1..k) \ {i}) = k - 1
    BY <2>2, FS_RemoveElement
  <2>4. IsFiniteSet(before(i)) /\ Cardinality(before(i)) <= k - 1
    BY <2>1, <2>3, FS_Subset
  <2>5. Cardinality(before(i)) \in Nat
    BY <2>4, FS_CardinalityType
  <2> HIDE DEF before
  <2> QED
    BY <2>4, <2>5
<1>5. ASSUME NEW i \in 1..k, NEW j \in 1..k, rs[j].from < rs[i].from \/ (rs[j].from = rs[i].from /\ j < i)
      PROVE  Cardinality(before(j)) < Cardinality(before(i))
  <2>1. before(j) \in SUBSET before(i) /\ j \in before(i) /\ j \notin before(j)
    <3>1. \A m \in 1..k : rs[m].from \in Nat
      BY <1>2
    <3> QED
      BY <1>1, <1>5, <3>1
  <2>2. Cardinality(before(j)) <= Cardinality(before(i)) /\ Cardinality(before(i)) # Cardinality(before(j))
    <3> HIDE DEF before
    <3> QED
      BY <1>4, <2>1, FS_Subset
  <2> HIDE DEF before
  <2>3. Cardinality(before(j)) \in Nat /\ Cardinality(before(i)) \in Nat
    BY <1>4
  <2> QED
    BY <2>2, <2>3
<1>6. PICK place : place = [i \in 1..k |-> Cardinality(before(i)) + 1]
  OBVIOUS
<1>7. \A i \in 1..k : place[i] \in 1..k /\ place[i] - 1 = Cardinality(before(i))
  <2> HIDE DEF before
  <2> QED
    BY <1>4, <1>6
<1>8. \A i, j \in 1..k : i # j => place[i] # place[j]
  <2> TAKE i, j \in 1..k
  <2> HAVE i # j
  <2>1. \/ rs[j].from < rs[i].from \/ (rs[j].from = rs[i].from /\ j < i)
        \/ rs[i].from < rs[j].from \/ (rs[i].from = rs[j].from /\ i < j)
    BY <1>2
  <2>2. Cardinality(before(j)) < Cardinality(before(i)) \/ Cardinality(before(i)) < Cardinality(before(j))
    BY <1>5, <2>1
  <2> HIDE DEF before
  <2> QED
    BY <1>4, <1>7, <2>2
<1>9. \A n \in 1..k : \E i \in 1..k : place[i] = n
  <2>1. place \in [1..k -> 1..k]
    <3>1. DOMAIN place = 1..k /\ place = [i \in 1..k |-> place[i]]
      BY <1>6
    <3> QED
      BY <1>7, <3>1
  <2>2. place \in Injection(1..k, 1..k)
    BY <1>8, <2>1, SMT DEF Injection, IsInjective
  <2>3. IsFiniteSet(1..k)
    BY FS_Interval
  <2>4. place \in Surjection(1..k, 1..k)
    BY <2>2, <2>3, FS_Injection
  <2> QED
    BY <2>4 DEF Surjection
<1>10. \A n \in 1..k : at(n) \in 1..k /\ place[at(n)] = n
  <2> TAKE n \in 1..k
  <2>1. \E i \in DOMAIN rs : Cardinality(before(i)) = n - 1
    <3> HIDE DEF before
    <3> QED
      BY <1>1, <1>7, <1>9
  <2>2. at(n) \in DOMAIN rs /\ Cardinality(before(at(n))) = n - 1
    <3> HIDE DEF before
    <3> QED
      BY <2>1
  <2> HIDE DEF before, at
  <2> QED
    BY <1>1, <1>7, <2>2
<1> HIDE DEF at
<1>11. PICK s : s = [n \in 1..k |-> rs[at(n)]]
  OBVIOUS
<1>12. s \in Seq(Ranges) /\ Len(s) = k /\ \A n \in 1..k : s[n] = rs[at(n)]
  <2>1. \A n \in 1..k : rs[at(n)] \in Ranges
    BY <1>2, <1>10
  <2> QED
    BY <1>11, <2>1
<1>13. \A n, m \in 1..k : n < m => s[n].from <= s[m].from
  <2> TAKE n, m \in 1..k
  <2> HAVE n < m
  <2>1. at(n) \in 1..k /\ at(m) \in 1..k /\ place[at(n)] = n /\ place[at(m)] = m
    BY <1>10
  <2>2. CASE rs[at(m)].from < rs[at(n)].from
    <3>1. Cardinality(before(at(m))) < Cardinality(before(at(n)))
      BY <1>5, <2>1, <2>2
    <3> HIDE DEF before
    <3> QED
      BY <1>4, <1>7, <2>1, <3>1
  <2>3. rs[at(n)].from \in Nat /\ rs[at(m)].from \in Nat
    BY <1>2, <2>1
  <2> QED
    BY <1>12, <2>2, <2>3
<1>14. \A i \in 1..k : \E n \in 1..k : s[n] = rs[i]
  <2> TAKE i \in 1..k
  <2>1. place[i] \in 1..k /\ place[at(place[i])] = place[i] /\ at(place[i]) \in 1..k
    BY <1>7, <1>10
  <2>2. at(place[i]) = i
    BY <1>8, <2>1
  <2> QED
    BY <1>12, <2>1, <2>2
<1>15. \A n \in 1..k : \E i \in 1..k : s[n] = rs[i]
  BY <1>10, <1>12
<1>16. Sorted(rs) = s
  BY <1>3, <1>11
<1> QED
  BY <1>1, <1>12, <1>13, <1>14, <1>15, <1>16 DEF RangeLists

\* No range begins past b.
BeginsBy(s, b) == \A i \in 1..Len(s) : s[i].from <= b

\* A range that begins where the last does, or later, is added without a gap lost or made.
LEMMA GrownIs ==
  ASSUME NEW out \in RangeLists, NEW r \in Ranges
  PROVE  /\ Grown(out, r) \in RangeLists
         /\ Apart(out) /\ BeginsBy(out, r.from) =>
              /\ Apart(Grown(out, r)) /\ BeginsBy(Grown(out, r), r.from)
              /\ \A x : x \in Has(Grown(out, r)) <=> x \in Has(out) \/ (x \in 0..MaxPort /\ r.from <= x /\ x <= r.to)
<1>0. MaxPort \in Nat
  BY PortsAssumption
<1>1. PICK k \in Nat : k = Len(out) /\ DOMAIN out = 1..k /\ out \in Seq(Ranges)
  BY DEF RangeLists
<1>2. \A q \in Ranges : q.from \in 0..MaxPort /\ q.to \in 0..MaxPort /\ q.from <= q.to
  BY DEF Ranges
<1>3. \A a, b \in 0..MaxPort : a <= b => /\ Span(a, b) \in Ranges /\ Span(a, b).from = a /\ Span(a, b).to = b
  BY SpanIs
<1>4. \A i \in 1..k : out[i] \in Ranges
  BY <1>1
<1>5. CASE out # << >> /\ r.from <= out[k].to + 1
  <2>1. k \in 1..k /\ k >= 1
    BY <1>1, <1>5
  <2>2. PICK l \in Ranges : l = out[k]
    BY <1>4, <2>1
  <2>3. PICK hi \in 0..MaxPort : hi = (IF l.to <= r.to THEN r.to ELSE l.to)
    BY <1>2
  <2>4. Max({l.to, r.to}) = hi
    <3>1. l.to \in Int /\ r.to \in Int
      BY <1>0, <1>2
    <3> QED
      BY <2>3, <3>1, OfTwo
  <2>5. PICK q \in Ranges : q = Span(l.from, hi) /\ q.from = l.from /\ q.to = hi
    <3>1. l.from \in 0..MaxPort /\ l.from <= hi
      BY <1>0, <1>2, <2>3
    <3> QED
      BY <1>3, <3>1
  <2>6. PICK g : g = Grown(out, r)
    OBVIOUS
  <2>7. g = [out EXCEPT ![k] = q]
    BY <1>1, <1>5, <2>2, <2>4, <2>5, <2>6 DEF Grown
  <2>8. g \in Seq(Ranges) /\ Len(g) = k /\ DOMAIN g = 1..k /\ g[k] = q /\ \A i \in 1..(k - 1) : g[i] = out[i]
    BY <1>1, <2>1, <2>7
  <2>9. ASSUME Apart(out), BeginsBy(out, r.from)
        PROVE  /\ Apart(g) /\ BeginsBy(g, r.from)
               /\ \A x : x \in Has(g) <=> x \in Has(out) \/ (x \in 0..MaxPort /\ r.from <= x /\ x <= r.to)
    <3>1. l.from <= r.from /\ \A i \in 1..k : out[i].from <= r.from
      BY <1>1, <2>1, <2>2, <2>9 DEF BeginsBy
    <3>2. \A i \in 1..k : g[i].from = out[i].from
      <4> TAKE i \in 1..k
      <4>1. i = k \/ i \in 1..(k - 1)
        OBVIOUS
      <4> QED
        BY <2>2, <2>5, <2>8, <4>1
    <3>3. BeginsBy(g, r.from)
      BY <2>8, <3>1, <3>2 DEF BeginsBy
    <3>4. Apart(g)
      <4> SUFFICES ASSUME NEW i \in 1..(k - 1)
                   PROVE  g[i].to + 1 < g[i + 1].from
        BY <2>8 DEF Apart
      <4>1. out[i].to + 1 < out[i + 1].from
        BY <1>1, <2>9 DEF Apart
      <4>2. g[i] = out[i] /\ i + 1 \in 1..k
        BY <2>8
      <4>3. g[i + 1].from = out[i + 1].from
        BY <3>2, <4>2
      <4> QED
        BY <4>1, <4>2, <4>3
    <3>5. ASSUME NEW x \in 0..MaxPort
          PROVE  (q.from <= x /\ x <= q.to) <=> (l.from <= x /\ x <= l.to) \/ (r.from <= x /\ x <= r.to)
      <4>1. /\ l.from \in Int /\ l.to \in Int /\ r.from \in Int /\ r.to \in Int /\ x \in Int
            /\ l.from <= l.to /\ r.from <= r.to /\ l.from <= r.from /\ r.from <= l.to + 1
            /\ q.from = l.from /\ q.to = IF l.to <= r.to THEN r.to ELSE l.to
        BY <1>0, <1>2, <1>5, <2>2, <2>3, <2>5, <3>1
      <4> QED
        BY <4>1
    <3>6. ASSUME NEW x \in 0..MaxPort
          PROVE  x \in Has(g) <=> x \in Has(out) \/ (r.from <= x /\ x <= r.to)
      <4>1. x \in Has(g) <=> \E i \in 1..k : g[i].from <= x /\ x <= g[i].to
        BY <2>8 DEF Has
      <4>2. x \in Has(out) <=> \E i \in 1..k : out[i].from <= x /\ x <= out[i].to
        BY <1>1 DEF Has
      <4>3. \A i \in 1..k : i = k \/ g[i] = out[i]
        BY <2>8
      <4>4. (g[k].from <= x /\ x <= g[k].to) <=> (out[k].from <= x /\ x <= out[k].to) \/ (r.from <= x /\ x <= r.to)
        BY <2>2, <2>8, <3>5
      <4> QED
        BY <2>1, <4>1, <4>2, <4>3, <4>4
    <3>7. \A x : x \in Has(g) \/ x \in Has(out) => x \in 0..MaxPort
      BY DEF Has
    <3> QED
      BY <3>3, <3>4, <3>6, <3>7
  <2> QED
    BY <2>6, <2>8, <2>9 DEF RangeLists
<1>6. CASE ~(out # << >> /\ r.from <= out[k].to + 1)
  <2>1. PICK g : g = Grown(out, r)
    OBVIOUS
  <2>2. g = Append(out, r)
    BY <1>1, <1>6, <2>1 DEF Grown
  <2>3. g \in Seq(Ranges) /\ Len(g) = k + 1 /\ DOMAIN g = 1..(k + 1) /\ g[k + 1] = r /\ \A i \in 1..k : g[i] = out[i]
    BY <1>1, <2>2
  <2>4. ASSUME Apart(out), BeginsBy(out, r.from)
        PROVE  /\ Apart(g) /\ BeginsBy(g, r.from)
               /\ \A x : x \in Has(g) <=> x \in Has(out) \/ (x \in 0..MaxPort /\ r.from <= x /\ x <= r.to)
    <3>1. \A i \in 1..k : out[i].from <= r.from
      BY <1>1, <2>4 DEF BeginsBy
    <3>2. BeginsBy(g, r.from)
      <4> SUFFICES ASSUME NEW i \in 1..(k + 1)
                   PROVE  g[i].from <= r.from
        BY <2>3 DEF BeginsBy
      <4>1. r.from \in Int
        BY <1>0, <1>2
      <4>2. i = k + 1 \/ i \in 1..k
        OBVIOUS
      <4> QED
        BY <2>3, <3>1, <4>1, <4>2
    <3>3. Apart(g)
      <4> SUFFICES ASSUME NEW i \in 1..k
                   PROVE  g[i].to + 1 < g[i + 1].from
        BY <2>3 DEF Apart
      <4>1. CASE i = k
        <5>1. out # << >> /\ g[i] = out[k] /\ g[i + 1] = r
          BY <1>1, <2>3, <4>1
        <5>2. ~(r.from <= out[k].to + 1)
          BY <1>6, <5>1
        <5>3. r.from \in Int /\ out[k].to \in Int
          BY <1>0, <1>2, <1>4, <4>1
        <5> QED
          BY <5>1, <5>2, <5>3
      <4>2. CASE i \in 1..(k - 1)
        <5>1. out[i].to + 1 < out[i + 1].from
          BY <1>1, <2>4, <4>2 DEF Apart
        <5>2. i + 1 \in 1..k
          BY <4>2
        <5> QED
          BY <2>3, <5>1, <5>2
      <4> QED
        BY <4>1, <4>2
    <3>4. ASSUME NEW x \in 0..MaxPort
          PROVE  x \in Has(g) <=> x \in Has(out) \/ (r.from <= x /\ x <= r.to)
      <4>1. x \in Has(g) <=> \E i \in 1..(k + 1) : g[i].from <= x /\ x <= g[i].to
        BY <2>3 DEF Has
      <4>2. x \in Has(out) <=> \E i \in 1..k : out[i].from <= x /\ x <= out[i].to
        BY <1>1 DEF Has
      <4>3. \A i : i \in 1..(k + 1) <=> i \in 1..k \/ i = k + 1
        OBVIOUS
      <4> QED
        BY <2>3, <4>1, <4>2, <4>3
    <3>5. \A x : x \in Has(g) \/ x \in Has(out) => x \in 0..MaxPort
      BY DEF Has
    <3> QED
      BY <3>2, <3>3, <3>4, <3>5
  <2> QED
    BY <2>1, <2>3, <2>4 DEF RangeLists
<1> QED
  BY <1>5, <1>6

\* A merged list holds what the list did, with a gap between any two ranges.
LEMMA MergeIs ==
  ASSUME NEW rs \in RangeLists
  PROVE  Merge(rs) \in RangeLists /\ Apart(Merge(rs)) /\ Has(Merge(rs)) = Has(rs)
<1> DEFINE u == CHOOSE u : u = [n \in 0..Len(rs) |-> IF n = 0 THEN << >> ELSE Grown(u[n - 1], Sorted(rs)[n])]
<1>1. Merge(rs) = u[Len(rs)]
  BY Zenon DEF Merge
<1>2. PICK k \in Nat : k = Len(rs) /\ DOMAIN rs = 1..k
  BY DEF RangeLists
<1>3. PICK s : s = Sorted(rs)
  OBVIOUS
<1>4. /\ s \in Seq(Ranges) /\ Len(s) = k /\ \A n \in 1..k : s[n] \in Ranges
      /\ \A n, m \in 1..k : n < m => s[n].from <= s[m].from
      /\ \A i \in 1..k : \E n \in 1..k : s[n] = rs[i]
      /\ \A n \in 1..k : \E i \in 1..k : s[n] = rs[i]
  <2>1. /\ s \in Seq(Ranges) /\ Len(s) = k
        /\ \A n, m \in 1..k : n < m => s[n].from <= s[m].from
        /\ \A i \in 1..k : \E n \in 1..k : s[n] = rs[i]
        /\ \A n \in 1..k : \E i \in 1..k : s[n] = rs[i]
    BY <1>2, <1>3, SortedIs DEF RangeLists
  <2>2. \A n \in 1..k : s[n] \in Ranges
    BY <2>1
  <2> QED
    BY <2>1, <2>2
<1>5. << >> \in RangeLists /\ Has(<< >>) = {} /\ Len(<< >>) = 0
  BY DEF RangeLists, Has
<1>6. \E g : g = [n \in 0..k |-> IF n = 0 THEN << >> ELSE Grown(g[n - 1], s[n])]
  <2>1. PICK f : f = [n \in 1..k |-> [d \in RangeLists |-> Grown(d, s[n])]]
    OBVIOUS
  <2>2. \A n \in 1..k, d \in RangeLists : f[n][d] = Grown(d, s[n]) /\ f[n][d] \in RangeLists
    BY <1>4, <2>1, GrownIs
  <2>3. PICK g \in [0..k -> RangeLists] : Turns(g, f, << >>, k)
    BY <1>5, <2>2, TurnsRun
  <2>4. g = [n \in 0..k |-> IF n = 0 THEN << >> ELSE f[n][g[n - 1]]]
    BY <2>3 DEF Turns
  <2>5. \A n \in 0..k : (IF n = 0 THEN << >> ELSE f[n][g[n - 1]]) = IF n = 0 THEN << >> ELSE Grown(g[n - 1], s[n])
    <3> TAKE n \in 0..k
    <3>1. CASE n = 0
      BY <3>1
    <3>2. CASE n # 0
      <4>1. n \in 1..k /\ n - 1 \in 0..k
        BY <3>2
      <4>2. g[n - 1] \in RangeLists
        BY <2>3, <4>1
      <4>3. f[n][g[n - 1]] = Grown(g[n - 1], s[n])
        BY <2>2, <4>1, <4>2
      <4> QED
        BY <3>2, <4>3
    <3> QED
      BY <3>1, <3>2
  <2> QED
    BY <2>4, <2>5
<1>7. u = [n \in 0..k |-> IF n = 0 THEN << >> ELSE Grown(u[n - 1], s[n])]
  <2>1. u = CHOOSE v : v = [n \in 0..k |-> IF n = 0 THEN << >> ELSE Grown(v[n - 1], s[n])]
    BY <1>2, <1>3, Zenon
  <2> HIDE DEF u
  <2> QED
    BY <1>6, <2>1, Zenon
<1> HIDE DEF u
<1>8. \A n \in 0..k : u[n] = IF n = 0 THEN << >> ELSE Grown(u[n - 1], s[n])
  BY <1>7, Zenon
<1> DEFINE T == {n \in Nat : n <= k => /\ u[n] \in RangeLists /\ Apart(u[n])
                                       /\ \A m \in (n + 1)..k : BeginsBy(u[n], s[m].from)
                                       /\ \A x : x \in Has(u[n]) <=> /\ x \in 0..MaxPort
                                                                     /\ \E m \in 1..n : s[m].from <= x /\ x <= s[m].to}
<1>9. 0 \in T
  <2>1. u[0] = << >>
    BY <1>8
  <2>2. Apart(<< >>) /\ \A b : BeginsBy(<< >>, b)
    BY <1>5 DEF Apart, BeginsBy
  <2> QED
    BY <1>5, <2>1, <2>2
<1>10. ASSUME NEW n \in Nat, n \in T
       PROVE  n + 1 \in T
  <2> SUFFICES ASSUME n + 1 <= k
               PROVE  /\ u[n + 1] \in RangeLists /\ Apart(u[n + 1])
                      /\ \A m \in ((n + 1) + 1)..k : BeginsBy(u[n + 1], s[m].from)
                      /\ \A x : x \in Has(u[n + 1]) <=> /\ x \in 0..MaxPort
                                                        /\ \E m \in 1..(n + 1) : s[m].from <= x /\ x <= s[m].to
    OBVIOUS
  <2>1. n + 1 \in 0..k /\ n + 1 \in 1..k /\ n + 1 # 0 /\ (n + 1) - 1 = n /\ n <= k /\ n + 1 \in (n + 1)..k
    OBVIOUS
  <2>2. u[n + 1] = Grown(u[n], s[n + 1])
    BY <1>8, <2>1
  <2>3. /\ u[n] \in RangeLists /\ Apart(u[n]) /\ BeginsBy(u[n], s[n + 1].from)
        /\ \A x : x \in Has(u[n]) <=> x \in 0..MaxPort /\ \E m \in 1..n : s[m].from <= x /\ x <= s[m].to
    BY <1>10, <2>1
  <2>4. s[n + 1] \in Ranges
    BY <1>4, <2>1
  <2>5. /\ u[n + 1] \in RangeLists /\ Apart(u[n + 1]) /\ BeginsBy(u[n + 1], s[n + 1].from)
        /\ \A x : x \in Has(u[n + 1]) <=> x \in Has(u[n]) \/ (x \in 0..MaxPort /\ s[n + 1].from <= x /\ x <= s[n + 1].to)
    BY <2>2, <2>3, <2>4, GrownIs
  <2>6. ASSUME NEW m \in ((n + 1) + 1)..k
        PROVE  BeginsBy(u[n + 1], s[m].from)
    <3>1. n + 1 \in 1..k /\ m \in 1..k /\ n + 1 < m
      BY <2>1
    <3>2. s[n + 1].from <= s[m].from
      BY <1>4, <3>1
    <3>3. MaxPort \in Nat /\ \A q \in Ranges : q.from \in Int
      BY PortsAssumption DEF Ranges
    <3>4. s[n + 1].from \in Int /\ s[m].from \in Int
      BY <1>4, <2>4, <3>1, <3>3
    <3>5. \A i \in 1..Len(u[n + 1]) : u[n + 1][i].from \in Int
      <4>1. u[n + 1] \in Seq(Ranges)
        BY <2>5 DEF RangeLists
      <4>2. \A i \in 1..Len(u[n + 1]) : u[n + 1][i] \in Ranges
        BY <4>1
      <4> QED
        BY <3>3, <4>2
    <3> QED
      BY <2>5, <3>2, <3>4, <3>5 DEF BeginsBy
  <2>7. \A m : m \in 1..(n + 1) <=> m \in 1..n \/ m = n + 1
    OBVIOUS
  <2> QED
    BY <2>3, <2>5, <2>6, <2>7
<1>11. k \in T
  <2> HIDE DEF T
  <2> QED
    BY <1>9, <1>10, NatSetInduction
<1>12. Has(u[k]) = Has(rs)
  <2>1. \A x : x \in Has(rs) <=> x \in 0..MaxPort /\ \E i \in 1..k : rs[i].from <= x /\ x <= rs[i].to
    BY <1>2 DEF Has
  <2>2. \A x : x \in Has(u[k]) <=> x \in 0..MaxPort /\ \E m \in 1..k : s[m].from <= x /\ x <= s[m].to
    BY <1>11
  <2>3. \A x : (\E i \in 1..k : rs[i].from <= x /\ x <= rs[i].to) <=> \E m \in 1..k : s[m].from <= x /\ x <= s[m].to
    BY <1>4
  <2> QED
    BY <2>1, <2>2, <2>3
<1> QED
  BY <1>1, <1>2, <1>11, <1>12

\* What two ranges have in common.
LEMMA CommonIs ==
  ASSUME NEW x \in Ranges, NEW y \in Ranges
  PROVE  /\ Common(x, y) \in RangeLists
         /\ \A n : n \in Has(Common(x, y)) <=> n \in Has(<<x>>) /\ n \in Has(<<y>>)
<1>1. MaxPort \in Nat
  BY PortsAssumption
<1>2. /\ x.from \in 0..MaxPort /\ x.to \in 0..MaxPort /\ x.from <= x.to
      /\ y.from \in 0..MaxPort /\ y.to \in 0..MaxPort /\ y.from <= y.to
  BY DEF Ranges
<1>3. PICK lo \in 0..MaxPort : lo = (IF x.from <= y.from THEN y.from ELSE x.from)
  BY <1>2
<1>4. PICK hi \in 0..MaxPort : hi = (IF x.to <= y.to THEN x.to ELSE y.to)
  BY <1>2
<1>5. Max({x.from, y.from}) = lo /\ Min({x.to, y.to}) = hi
  <2>1. x.from \in Int /\ y.from \in Int /\ x.to \in Int /\ y.to \in Int
    BY <1>1, <1>2
  <2>2. Max({x.from, y.from}) = lo
    BY <1>3, <2>1, OfTwo
  <2>3. Min({x.to, y.to}) = hi
    BY <1>4, <2>1, OfTwo
  <2> QED
    BY <2>2, <2>3
<1>6. Common(x, y) = IF lo <= hi THEN <<Span(lo, hi)>> ELSE << >>
  BY <1>5 DEF Common
<1>7. \A r : <<r>>[1] = r /\ DOMAIN <<r>> = {1}
  OBVIOUS
<1>8. \A r, n : n \in Has(<<r>>) <=> n \in 0..MaxPort /\ r.from <= n /\ n <= r.to
  BY <1>7 DEF Has
<1>9. CASE lo <= hi
  <2>1. PICK r \in Ranges : r = Span(lo, hi) /\ r.from = lo /\ r.to = hi
    BY <1>9, SpanIs
  <2>2. Common(x, y) = <<r>> /\ <<r>> \in Seq(Ranges)
    BY <1>6, <1>9, <2>1
  <2>3. \A n \in 0..MaxPort : (lo <= n /\ n <= hi) <=> (x.from <= n /\ n <= x.to) /\ (y.from <= n /\ n <= y.to)
    BY <1>1, <1>2, <1>3, <1>4
  <2> QED
    BY <1>8, <2>1, <2>2, <2>3 DEF RangeLists
<1>10. CASE ~(lo <= hi)
  <2>1. Common(x, y) = << >> /\ << >> \in Seq(Ranges) /\ Has(<< >>) = {}
    BY <1>6, <1>10 DEF Has
  <2>2. \A n \in 0..MaxPort : ~((x.from <= n /\ n <= x.to) /\ (y.from <= n /\ n <= y.to))
    BY <1>1, <1>2, <1>3, <1>4, <1>10
  <2> QED
    BY <1>8, <2>1, <2>2 DEF RangeLists
<1> QED
  BY <1>9, <1>10

\* What is left of a range without another.
LEMMA RestIs ==
  ASSUME NEW x \in Ranges, NEW y \in Ranges
  PROVE  /\ Rest(x, y) \in RangeLists
         /\ \A n : n \in Has(Rest(x, y)) <=> n \in Has(<<x>>) /\ n \notin Has(<<y>>)
<1>1. MaxPort \in Nat
  BY PortsAssumption
<1>2. /\ x.from \in 0..MaxPort /\ x.to \in 0..MaxPort /\ x.from <= x.to
      /\ y.from \in 0..MaxPort /\ y.to \in 0..MaxPort /\ y.from <= y.to
  BY DEF Ranges
<1>3. \A r : <<r>>[1] = r /\ DOMAIN <<r>> = {1}
  OBVIOUS
<1>4. \A r, n : n \in Has(<<r>>) <=> n \in 0..MaxPort /\ r.from <= n /\ n <= r.to
  BY <1>3 DEF Has
<1>5. << >> \in RangeLists /\ \A n : n \notin Has(<< >>)
  BY DEF RangeLists, Has
<1>6. CASE y.to < x.from \/ y.from > x.to
  <2>1. Rest(x, y) = <<x>> /\ <<x>> \in RangeLists
    BY <1>6 DEF Rest, RangeLists
  <2>2. \A n \in 0..MaxPort : ~((x.from <= n /\ n <= x.to) /\ (y.from <= n /\ n <= y.to))
    BY <1>1, <1>2, <1>6
  <2> QED
    BY <1>4, <2>1, <2>2
<1>7. CASE ~(y.to < x.from \/ y.from > x.to)
  <2>1. PICK a : a = (IF x.from < y.from THEN <<Span(x.from, y.from - 1)>> ELSE << >>)
    OBVIOUS
  <2>2. PICK b : b = (IF x.to > y.to THEN <<Span(y.to + 1, x.to)>> ELSE << >>)
    OBVIOUS
  <2>3. Rest(x, y) = a \o b
    BY <1>7, <2>1, <2>2 DEF Rest
  <2>4. a \in RangeLists /\ \A n : n \in Has(a) <=> n \in 0..MaxPort /\ x.from <= n /\ n < y.from
    <3>1. CASE x.from < y.from
      <4>0. y.from - 1 \in 0..MaxPort /\ x.from <= y.from - 1
        BY <1>1, <1>2, <3>1
      <4>1. PICK r \in Ranges : r = Span(x.from, y.from - 1) /\ r.from = x.from /\ r.to = y.from - 1
        BY <1>2, <4>0, SpanIs
      <4>2. a = <<r>> /\ <<r>> \in RangeLists
        BY <2>1, <3>1, <4>1 DEF RangeLists
      <4>3. \A n \in 0..MaxPort : (r.from <= n /\ n <= r.to) <=> (x.from <= n /\ n < y.from)
        BY <1>1, <1>2, <4>1
      <4> QED
        BY <1>4, <4>2, <4>3
    <3>2. CASE ~(x.from < y.from)
      <4>1. \A n \in 0..MaxPort : ~(x.from <= n /\ n < y.from)
        BY <1>1, <1>2, <3>2
      <4> QED
        BY <1>5, <2>1, <3>2, <4>1
    <3> QED
      BY <3>1, <3>2
  <2>5. b \in RangeLists /\ \A n : n \in Has(b) <=> n \in 0..MaxPort /\ y.to < n /\ n <= x.to
    <3>1. CASE x.to > y.to
      <4>0. y.to + 1 \in 0..MaxPort /\ y.to + 1 <= x.to
        BY <1>1, <1>2, <3>1
      <4>1. PICK r \in Ranges : r = Span(y.to + 1, x.to) /\ r.from = y.to + 1 /\ r.to = x.to
        BY <1>2, <4>0, SpanIs
      <4>2. b = <<r>> /\ <<r>> \in RangeLists
        BY <2>2, <3>1, <4>1 DEF RangeLists
      <4>3. \A n \in 0..MaxPort : (r.from <= n /\ n <= r.to) <=> (y.to < n /\ n <= x.to)
        BY <1>1, <1>2, <4>1
      <4> QED
        BY <1>4, <4>2, <4>3
    <3>2. CASE ~(x.to > y.to)
      <4>1. \A n \in 0..MaxPort : ~(y.to < n /\ n <= x.to)
        BY <1>1, <1>2, <3>2
      <4> QED
        BY <1>5, <2>2, <3>2, <4>1
    <3> QED
      BY <3>1, <3>2
  <2>6. a \o b \in RangeLists /\ Has(a \o b) = Has(a) \cup Has(b)
    BY <2>4, <2>5, EndToEnd
  <2>7. \A n \in 0..MaxPort : (x.from <= n /\ n < y.from) \/ (y.to < n /\ n <= x.to)
                                <=> (x.from <= n /\ n <= x.to) /\ ~(y.from <= n /\ n <= y.to)
    BY <1>1, <1>2, <1>7
  <2> QED
    BY <1>4, <2>3, <2>4, <2>5, <2>6, <2>7
<1> QED
  BY <1>6, <1>7

---------------------------------------------------------------------------

\* The ranges of a list cut by one range, or met with it, hold what they should.
LEMMA CutIs ==
  ASSUME NEW xs \in RangeLists, NEW ys \in RangeLists
  PROVE  /\ Cut(xs, ys) \in RangeLists
         /\ \A x : x \in Has(Cut(xs, ys)) <=> x \in Has(xs) /\ x \notin Has(ys)
<1> DEFINE k == Len(ys)
           cut(d, y) == Flat([m \in DOMAIN d |-> Rest(d[m], y)])
           u == CHOOSE u : u = [n \in 0..k |-> IF n = 0 THEN xs ELSE Flat([m \in DOMAIN u[n - 1] |-> Rest(u[n - 1][m], ys[n])])]
<1>1. Cut(xs, ys) = u[k]
  BY Zenon DEF Cut
<1>2. k \in Nat /\ DOMAIN ys = 1..k /\ \A n \in 1..k : ys[n] \in Ranges
  BY DEF RangeLists
<1>3. ASSUME NEW d \in RangeLists, NEW y \in Ranges
      PROVE  /\ cut(d, y) \in RangeLists
             /\ \A x : x \in Has(cut(d, y)) <=> x \in Has(d) /\ x \notin Has(<<y>>)
  <2>1. PICK l \in Nat : l = Len(d) /\ DOMAIN d = 1..l /\ \A m \in 1..l : d[m] \in Ranges
    BY DEF RangeLists
  <2>2. PICK ls : ls = [m \in 1..l |-> Rest(d[m], y)]
    OBVIOUS
  <2>3. \A m \in 1..l : /\ ls[m] = Rest(d[m], y) /\ ls[m] \in RangeLists
                         /\ \A x : x \in Has(ls[m]) <=> x \in Has(<<d[m]>>) /\ x \notin Has(<<y>>)
    BY <2>1, <2>2, RestIs
  <2>4. ls \in Seq(RangeLists) /\ Len(ls) = l
    <3>1. DOMAIN ls = 1..l /\ ls = [i \in 1..l |-> ls[i]]
      BY <2>2
    <3>2. \A i \in 1..l : ls[i] \in RangeLists
      BY <2>3
    <3> QED
      BY <3>1, <3>2, ListOf
  <2>5. cut(d, y) = Flat(ls)
    BY <2>1, <2>2
  <2>6. /\ Flat(ls) \in RangeLists
        /\ \A x : x \in Has(Flat(ls)) <=> \E m \in 1..l : x \in Has(ls[m])
    BY <2>4, FlatIs
  <2>7. \A x : x \in Has(d) <=> \E m \in 1..l : x \in Has(<<d[m]>>)
    BY <2>1, RangeByRange
  <2> HIDE DEF cut
  <2> QED
    BY <2>3, <2>5, <2>6, <2>7
<1> HIDE DEF k
<1>4. \E g : g = [n \in 0..k |-> IF n = 0 THEN xs ELSE cut(g[n - 1], ys[n])]
  <2> HIDE DEF cut
  <2>1. PICK f : f = [n \in 1..k |-> [d \in RangeLists |-> cut(d, ys[n])]]
    OBVIOUS
  <2>2. \A n \in 1..k, d \in RangeLists : f[n][d] = cut(d, ys[n]) /\ f[n][d] \in RangeLists
    BY <1>2, <1>3, <2>1
  <2>3. PICK g \in [0..k -> RangeLists] : Turns(g, f, xs, k)
    BY <1>2, <2>2, TurnsRun
  <2>4. g = [n \in 0..k |-> IF n = 0 THEN xs ELSE f[n][g[n - 1]]]
    BY <2>3 DEF Turns
  <2>5. \A n \in 0..k : (IF n = 0 THEN xs ELSE f[n][g[n - 1]]) = IF n = 0 THEN xs ELSE cut(g[n - 1], ys[n])
    <3> TAKE n \in 0..k
    <3>1. CASE n = 0
      BY <3>1
    <3>2. CASE n # 0
      <4>1. n \in 1..k /\ n - 1 \in 0..k
        BY <1>2, <3>2
      <4>2. g[n - 1] \in RangeLists
        BY <2>3, <4>1
      <4>3. f[n][g[n - 1]] = cut(g[n - 1], ys[n])
        BY <2>2, <4>1, <4>2
      <4> QED
        BY <3>2, <4>3
    <3> QED
      BY <3>1, <3>2
  <2> QED
    BY <2>4, <2>5
<1>5. u = [n \in 0..k |-> IF n = 0 THEN xs ELSE cut(u[n - 1], ys[n])]
  BY <1>4, Zenon
<1> HIDE DEF u, cut
<1>6. \A n \in 0..k : u[n] = IF n = 0 THEN xs ELSE cut(u[n - 1], ys[n])
  BY <1>5, Zenon
<1> DEFINE T == {n \in Nat : n <= k => /\ u[n] \in RangeLists
                                       /\ \A x : x \in Has(u[n]) <=> /\ x \in Has(xs)
                                                                     /\ \A m \in 1..n : x \notin Has(<<ys[m]>>)}
<1>7. 0 \in T
  <2>1. u[0] = xs
    BY <1>2, <1>6
  <2> QED
    BY <2>1
<1>8. ASSUME NEW n \in Nat, n \in T
      PROVE  n + 1 \in T
  <2> SUFFICES ASSUME n + 1 <= k
               PROVE  /\ u[n + 1] \in RangeLists
                      /\ \A x : x \in Has(u[n + 1]) <=> /\ x \in Has(xs)
                                                        /\ \A m \in 1..(n + 1) : x \notin Has(<<ys[m]>>)
    OBVIOUS
  <2>1. n + 1 \in 0..k /\ n + 1 \in 1..k /\ n + 1 # 0 /\ (n + 1) - 1 = n /\ n <= k
    BY <1>2
  <2>2. u[n + 1] = cut(u[n], ys[n + 1])
    BY <1>6, <2>1
  <2>3. u[n] \in RangeLists /\ \A x : x \in Has(u[n]) <=> x \in Has(xs) /\ \A m \in 1..n : x \notin Has(<<ys[m]>>)
    BY <1>8, <2>1
  <2>4. ys[n + 1] \in Ranges
    BY <1>2, <2>1
  <2>5. /\ u[n + 1] \in RangeLists
        /\ \A x : x \in Has(u[n + 1]) <=> x \in Has(u[n]) /\ x \notin Has(<<ys[n + 1]>>)
    BY <1>3, <2>2, <2>3, <2>4
  <2>6. \A m : m \in 1..(n + 1) <=> m \in 1..n \/ m = n + 1
    OBVIOUS
  <2> QED
    BY <2>3, <2>5, <2>6
<1>9. k \in T
  <2> HIDE DEF T
  <2> QED
    BY <1>2, <1>7, <1>8, NatSetInduction
<1>10. \A x : x \in Has(ys) <=> \E m \in 1..k : x \in Has(<<ys[m]>>)
  BY <1>2, RangeByRange
<1>11. /\ u[k] \in RangeLists
       /\ \A x : x \in Has(u[k]) <=> x \in Has(xs) /\ \A m \in 1..k : x \notin Has(<<ys[m]>>)
  BY <1>2, <1>9
<1> HIDE DEF T
<1> QED
  BY <1>1, <1>10, <1>11

\* What each range of one list has in common with each of another.
LEMMA MeetIs ==
  ASSUME NEW xs \in RangeLists, NEW ys \in RangeLists
  PROVE  LET ls == [m \in DOMAIN xs |-> Flat([n \in DOMAIN ys |-> Common(xs[m], ys[n])])]
         IN /\ Merge(Flat(ls)) \in RangeLists /\ Apart(Merge(Flat(ls)))
            /\ \A x : x \in Has(Merge(Flat(ls))) <=> x \in Has(xs) /\ x \in Has(ys)
<1>1. PICK k \in Nat : k = Len(xs) /\ DOMAIN xs = 1..k /\ \A m \in 1..k : xs[m] \in Ranges
  BY DEF RangeLists
<1>2. PICK l \in Nat : l = Len(ys) /\ DOMAIN ys = 1..l /\ \A n \in 1..l : ys[n] \in Ranges
  BY DEF RangeLists
<1>3. PICK ls : ls = [m \in DOMAIN xs |-> Flat([n \in DOMAIN ys |-> Common(xs[m], ys[n])])]
  OBVIOUS
<1>4. \A x : x \in Has(xs) <=> \E m \in 1..k : x \in Has(<<xs[m]>>)
  BY <1>1, RangeByRange
<1>5. \A x : x \in Has(ys) <=> \E n \in 1..l : x \in Has(<<ys[n]>>)
  BY <1>2, RangeByRange
<1>6. ASSUME NEW m \in 1..k
      PROVE  /\ ls[m] \in RangeLists
             /\ \A x : x \in Has(ls[m]) <=> x \in Has(<<xs[m]>>) /\ x \in Has(ys)
  <2>1. PICK cs : cs = [n \in 1..l |-> Common(xs[m], ys[n])]
    OBVIOUS
  <2>2. \A n \in 1..l : /\ cs[n] \in RangeLists
                         /\ \A x : x \in Has(cs[n]) <=> x \in Has(<<xs[m]>>) /\ x \in Has(<<ys[n]>>)
    BY <1>1, <1>2, <2>1, CommonIs
  <2>3. cs \in Seq(RangeLists) /\ Len(cs) = l
    <3>1. DOMAIN cs = 1..l /\ cs = [i \in 1..l |-> cs[i]]
      BY <2>1
    <3>2. \A i \in 1..l : cs[i] \in RangeLists
      BY <2>2
    <3> QED
      BY <3>1, <3>2, ListOf
  <2>4. ls[m] = Flat(cs)
    BY <1>1, <1>2, <1>3, <2>1
  <2>5. /\ Flat(cs) \in RangeLists
        /\ \A x : x \in Has(Flat(cs)) <=> \E n \in 1..l : x \in Has(cs[n])
    BY <2>3, FlatIs
  <2> QED
    BY <1>5, <2>2, <2>4, <2>5
<1>7. ls \in Seq(RangeLists) /\ Len(ls) = k
  <2>1. DOMAIN ls = 1..k /\ ls = [i \in 1..k |-> ls[i]]
    BY <1>1, <1>3
  <2>2. \A i \in 1..k : ls[i] \in RangeLists
    BY <1>6
  <2> QED
    BY <2>1, <2>2, ListOf
<1>8. PICK fl : fl = Flat(ls)
  OBVIOUS
<1>9. /\ fl \in RangeLists
      /\ \A x : x \in Has(fl) <=> \E m \in 1..k : x \in Has(ls[m])
  BY <1>7, <1>8, FlatIs
<1>10. Merge(fl) \in RangeLists /\ Apart(Merge(fl)) /\ Has(Merge(fl)) = Has(fl)
  BY <1>9, MergeIs
<1>11. \A x : x \in Has(Merge(fl)) <=> x \in Has(xs) /\ x \in Has(ys)
  BY <1>4, <1>6, <1>9, <1>10
<1> QED
  BY <1>3, <1>8, <1>10, <1>11

---------------------------------------------------------------------------

\* The sets of ports.
PortLists == [Transports -> RangeLists]

\* The operations on sets of ports keep to them and do what they say.
LEMMA UnionIs ==
  ASSUME NEW p \in PortLists, NEW q \in PortLists
  PROVE  /\ Union(p, q) \in PortLists
         /\ \A t \in Transports : /\ Apart(Union(p, q)[t])
                                  /\ \A x : x \in Has(Union(p, q)[t]) <=> x \in Has(p[t]) \/ x \in Has(q[t])
<1>1. PICK u : u = Union(p, q)
  OBVIOUS
<1>2. u = [t \in Transports |-> Merge(Merge(p[t]) \o q[t])]
  BY <1>1 DEF Union
<1>3. ASSUME NEW t \in Transports
      PROVE  /\ u[t] \in RangeLists /\ Apart(u[t])
             /\ \A x : x \in Has(u[t]) <=> x \in Has(p[t]) \/ x \in Has(q[t])
  <2>1. p[t] \in RangeLists /\ q[t] \in RangeLists
    BY DEF PortLists
  <2>2. PICK a : a = Merge(p[t])
    OBVIOUS
  <2>3. a \in RangeLists /\ Has(a) = Has(p[t])
    BY <2>1, <2>2, MergeIs
  <2>4. PICK b : b = a \o q[t]
    OBVIOUS
  <2>5. b \in RangeLists /\ Has(b) = Has(p[t]) \cup Has(q[t])
    BY <2>1, <2>3, <2>4, EndToEnd
  <2>6. u[t] = Merge(b)
    BY <1>2, <2>2, <2>4
  <2>7. u[t] \in RangeLists /\ Apart(u[t]) /\ Has(u[t]) = Has(b)
    BY <2>5, <2>6, MergeIs
  <2> QED
    BY <2>5, <2>7
<1>4. u \in PortLists
  BY <1>2, <1>3 DEF PortLists
<1> QED
  BY <1>1, <1>3, <1>4

LEMMA IntersectIs ==
  ASSUME NEW p \in PortLists, NEW q \in PortLists
  PROVE  /\ Intersect(p, q) \in PortLists
         /\ \A t \in Transports : \A x : x \in Has(Intersect(p, q)[t]) <=> x \in Has(p[t]) /\ x \in Has(q[t])
<1>1. PICK u : u = Intersect(p, q)
  OBVIOUS
<1>2. u = [t \in Transports |->
            Merge(Flat([m \in DOMAIN p[t] |-> Flat([n \in DOMAIN q[t] |-> Common(p[t][m], q[t][n])])]))]
  BY <1>1 DEF Intersect
<1>3. ASSUME NEW t \in Transports
      PROVE  /\ u[t] \in RangeLists
             /\ \A x : x \in Has(u[t]) <=> x \in Has(p[t]) /\ x \in Has(q[t])
  <2>1. PICK xs \in RangeLists : xs = p[t]
    BY DEF PortLists
  <2>2. PICK ys \in RangeLists : ys = q[t]
    BY DEF PortLists
  <2>3. PICK ls : ls = [m \in DOMAIN xs |-> Flat([n \in DOMAIN ys |-> Common(xs[m], ys[n])])]
    OBVIOUS
  <2>4. u[t] = Merge(Flat(ls))
    BY <1>2, <2>1, <2>2, <2>3
  <2>5. /\ Merge(Flat(ls)) \in RangeLists
        /\ \A x : x \in Has(Merge(Flat(ls))) <=> x \in Has(xs) /\ x \in Has(ys)
    BY <2>3, MeetIs
  <2> QED
    BY <2>1, <2>2, <2>4, <2>5
<1>4. u \in PortLists
  BY <1>2, <1>3 DEF PortLists
<1> QED
  BY <1>1, <1>3, <1>4

LEMMA MinusIs ==
  ASSUME NEW p \in PortLists, NEW q \in PortLists
  PROVE  /\ Minus(p, q) \in PortLists
         /\ \A t \in Transports : \A x : x \in Has(Minus(p, q)[t]) <=> x \in Has(p[t]) /\ x \notin Has(q[t])
<1>1. PICK u : u = Minus(p, q)
  OBVIOUS
<1>2. u = [t \in Transports |-> Cut(p[t], q[t])]
  BY <1>1 DEF Minus
<1>3. \A t \in Transports : p[t] \in RangeLists /\ q[t] \in RangeLists
  BY DEF PortLists
<1>4. ASSUME NEW t \in Transports
      PROVE  /\ u[t] \in RangeLists
             /\ \A x : x \in Has(u[t]) <=> x \in Has(p[t]) /\ x \notin Has(q[t])
  BY <1>2, <1>3, CutIs
<1>5. u \in PortLists
  BY <1>2, <1>4 DEF PortLists
<1> QED
  BY <1>1, <1>4, <1>5

---------------------------------------------------------------------------

\* A set without ports has no range.
LEMMA NoPortsIs ==
  /\ NoPorts \in PortLists
  /\ \A t \in Transports : NoPorts[t] = << >> /\ Apart(NoPorts[t]) /\ Has(NoPorts[t]) = {}
<1>1. << >> \in RangeLists /\ Has(<< >>) = {} /\ Apart(<< >>)
  BY DEF RangeLists, Has, Apart
<1> QED
  BY <1>1 DEF NoPorts, PortLists

\* A list that is empty holds nothing, and one that is not holds a port.
LEMMA HoldsSome ==
  ASSUME NEW s \in RangeLists
  PROVE  s = << >> <=> Has(s) = {}
<1>1. CASE s = << >>
  BY <1>1 DEF Has
<1>2. CASE s # << >>
  <2>1. 1 \in DOMAIN s /\ s[1] \in Ranges
    BY <1>2 DEF RangeLists
  <2>2. s[1].from \in 0..MaxPort /\ s[1].from <= s[1].from /\ s[1].from <= s[1].to
    BY <2>1, PortsAssumption DEF Ranges
  <2>3. s[1].from \in Has(s)
    BY <2>1, <2>2 DEF Has
  <2> QED
    BY <1>2, <2>3
<1> QED
  BY <1>1, <1>2

\* The ports of all traffic.
LEMMA AllPortsIs ==
  /\ AllPorts \in PortLists
  /\ \A t \in Transports : \A x : x \in Has(AllPorts[t]) <=> x \in 0..MaxPort /\ (t \in {"tcp", "udp"} \/ x = 0)
<1>1. MaxPort \in Nat
  BY PortsAssumption
<1>2. 0 \in 0..MaxPort /\ MaxPort \in 0..MaxPort /\ 0 <= MaxPort
  BY <1>1
<1>3. ASSUME NEW t \in Transports
      PROVE  /\ AllPorts[t] \in RangeLists
             /\ \A x : x \in Has(AllPorts[t]) <=> x \in 0..MaxPort /\ (t \in {"tcp", "udp"} \/ x = 0)
  <2>1. PICK b \in 0..MaxPort : b = IF t \in {"tcp", "udp"} THEN MaxPort ELSE 0
    BY <1>2
  <2>2. PICK r \in Ranges : r = Span(0, b) /\ r.from = 0 /\ r.to = b
    <3>1. 0 <= b
      BY <1>1
    <3> QED
      BY <1>2, <3>1, SpanIs
  <2>3. AllPorts[t] = <<r>>
    BY <2>1, <2>2 DEF AllPorts
  <2>4. <<r>> \in RangeLists
    BY DEF RangeLists
  <2>5. \A x \in 0..MaxPort : (0 <= x /\ x <= b) <=> (t \in {"tcp", "udp"} \/ x = 0)
    <3>1. CASE t \in {"tcp", "udp"}
      BY <1>1, <2>1, <3>1
    <3>2. CASE t \notin {"tcp", "udp"}
      BY <1>1, <2>1, <3>2
    <3> QED
      BY <3>1, <3>2
  <2> QED
    BY <2>2, <2>3, <2>4, <2>5, OneRange
<1>4. AllPorts \in PortLists
  <2>1. DOMAIN AllPorts = Transports /\ AllPorts = [t \in Transports |-> AllPorts[t]]
    BY DEF AllPorts
  <2> QED
    BY <1>3, <2>1 DEF PortLists
<1> QED
  BY <1>3, <1>4

\* The ports of a rule are those of the packets it is about.
LEMMA RulePortsAre ==
  ASSUME NEW r \in FirewallRules
  PROVE  /\ RulePorts(r) \in PortLists
         /\ \A t \in Transports : \A x \in Has(AllPorts[t]) : x \in Has(RulePorts(r)[t]) <=> Covers(r, t, x)
<1>1. MaxPort \in Nat /\ r.from \in {Missing} \cup 0..MaxPort /\ r.to \in {Missing} \cup 0..MaxPort
  BY PortsAssumption
<1>2. PICK lo \in 0..MaxPort : lo = IF r.from = Missing THEN 0 ELSE r.from
  BY <1>1
<1>3. PICK hi \in 0..MaxPort : hi = IF r.to = Missing THEN MaxPort ELSE r.to
  BY <1>1
<1>4. PICK u : u = RulePorts(r)
  OBVIOUS
<1>5. u = ProtoPorts(r.protocol, lo, hi)
  BY <1>2, <1>3, <1>4 DEF RulePorts
<1>6. \A t, x : Covers(r, t, x) <=> \/ r.protocol = "all"
                                   \/ /\ r.protocol = t
                                      /\ t \in {"tcp", "udp"} => (lo <= x /\ x <= hi) \/ (hi <= x /\ x <= lo)
  BY <1>2, <1>3 DEF Covers
<1>7. \A t \in Transports : \A x : x \in Has(AllPorts[t]) <=> x \in 0..MaxPort /\ (t \in {"tcp", "udp"} \/ x = 0)
  BY AllPortsIs
<1>8. CASE r.protocol = "all"
  <2>1. u = AllPorts
    BY <1>5, <1>8 DEF ProtoPorts
  <2> QED
    BY <1>4, <1>6, <1>8, <2>1, AllPortsIs
<1>9. ASSUME NEW q \in Ranges, r.protocol \in Transports, u = [NoPorts EXCEPT ![r.protocol] = <<q>>]
      PROVE  /\ u \in PortLists
             /\ \A t \in Transports : \A x : x \in Has(u[t]) <=> t = r.protocol /\ x \in 0..MaxPort /\ q.from <= x /\ x <= q.to
  <2>1. <<q>> \in RangeLists
    BY DEF RangeLists
  <2>2. u \in PortLists /\ \A t \in Transports : u[t] = IF t = r.protocol THEN <<q>> ELSE << >>
    BY <1>9, <2>1, NoPortsIs DEF PortLists
  <2>3. \A x : x \notin Has(<< >>)
    BY DEF Has
  <2> QED
    BY <2>2, <2>3, OneRange
<1>10. CASE r.protocol \in {"icmp", "icmpv6"}
  <2>1. PICK q \in Ranges : q = Span(0, 0) /\ q.from = 0 /\ q.to = 0
    BY <1>1, SpanIs
  <2>2. r.protocol \in Transports /\ u = [NoPorts EXCEPT ![r.protocol] = <<q>>]
    BY <1>5, <1>10, <2>1 DEF ProtoPorts, Transports
  <2>3. /\ u \in PortLists
        /\ \A t \in Transports : \A x : x \in Has(u[t]) <=> t = r.protocol /\ x \in 0..MaxPort /\ q.from <= x /\ x <= q.to
    BY <1>9, <2>2
  <2>4. \A x \in 0..MaxPort : (0 <= x /\ x <= 0) <=> x = 0
    OBVIOUS
  <2>5. r.protocol # "all" /\ r.protocol \notin {"tcp", "udp"}
    BY <1>10
  <2> QED
    BY <1>4, <1>6, <1>7, <2>1, <2>3, <2>4, <2>5
<1>11. CASE r.protocol \in {"tcp", "udp"}
  <2>1. PICK q \in Ranges : /\ q = IF lo > hi THEN Span(hi, lo) ELSE Span(lo, hi)
                            /\ q.from = IF lo > hi THEN hi ELSE lo
                            /\ q.to = IF lo > hi THEN lo ELSE hi
    <3>1. CASE lo > hi
      <4>1. hi <= lo
        BY <1>1, <3>1
      <4> QED
        BY <3>1, <4>1, SpanIs
    <3>2. CASE ~(lo > hi)
      <4>1. lo <= hi
        BY <1>1, <3>2
      <4> QED
        BY <3>2, <4>1, SpanIs
    <3> QED
      BY <3>1, <3>2
  <2>2. r.protocol \in Transports /\ u = [NoPorts EXCEPT ![r.protocol] = <<q>>]
    BY <1>5, <1>11, <2>1 DEF ProtoPorts, Transports
  <2>3. /\ u \in PortLists
        /\ \A t \in Transports : \A x : x \in Has(u[t]) <=> t = r.protocol /\ x \in 0..MaxPort /\ q.from <= x /\ x <= q.to
    BY <1>9, <2>2
  <2>4. \A x \in 0..MaxPort : (q.from <= x /\ x <= q.to) <=> (lo <= x /\ x <= hi) \/ (hi <= x /\ x <= lo)
    BY <1>1, <2>1
  <2>5. r.protocol # "all"
    BY <1>11
  <2> QED
    BY <1>4, <1>6, <1>7, <1>11, <2>3, <2>4, <2>5
<1>12. CASE r.protocol \notin {"all", "icmp", "icmpv6", "tcp", "udp"}
  <2>1. u = NoPorts
    BY <1>5, <1>12 DEF ProtoPorts
  <2>2. r.protocol \notin Transports /\ r.protocol # "all"
    BY <1>12 DEF Transports
  <2> QED
    BY <1>4, <1>6, <2>1, <2>2, NoPortsIs
<1> QED
  BY <1>8, <1>10, <1>11, <1>12

---------------------------------------------------------------------------

\* The m-th of the rules is the first that is about the packet.
Decides(rs, m, t, x) ==
  /\ m \in DOMAIN rs
  /\ Covers(rs[m], t, x)
  /\ \A i \in DOMAIN rs : i < m => ~Covers(rs[i], t, x)

\* No rule is about the packet.
Open(rs, t, x) == \A i \in DOMAIN rs : ~Covers(rs[i], t, x)

PortTypes ==
  /\ offered \in PortLists /\ undecided \in PortLists /\ allowed \in PortLists
  /\ rules \in Seq(FirewallRules)
  /\ \A t \in Transports : Apart(allowed[t])

\* Packet by packet, what is undecided and what is let through.
ByPacket ==
  \A t \in Transports : \A x \in Has(AllPorts[t]) :
    /\ x \in Has(undecided[t]) <=> x \in Has(offered[t]) /\ Open(rules, t, x)
    /\ x \in Has(allowed[t]) <=> x \in Has(offered[t]) /\ \E m \in DOMAIN rules : Decides(rules, m, t, x) /\ rules[m].allow

PortsInv == PortTypes /\ ByPacket

\* What one more rule decides is what was open and it is about.
LEMMA OneMoreRule ==
  ASSUME NEW rs \in Seq(FirewallRules), NEW r \in FirewallRules, NEW t, NEW x
  PROVE  /\ Append(rs, r) \in Seq(FirewallRules)
         /\ Open(Append(rs, r), t, x) <=> Open(rs, t, x) /\ ~Covers(r, t, x)
         /\ (\E m \in DOMAIN Append(rs, r) : Decides(Append(rs, r), m, t, x) /\ Append(rs, r)[m].allow)
              <=> \/ \E m \in DOMAIN rs : Decides(rs, m, t, x) /\ rs[m].allow
                  \/ Open(rs, t, x) /\ Covers(r, t, x) /\ r.allow
<1>1. PICK k \in Nat : k = Len(rs) /\ DOMAIN rs = 1..k
  OBVIOUS
<1>2. PICK q : q = Append(rs, r)
  OBVIOUS
<1>3. q \in Seq(FirewallRules) /\ DOMAIN q = 1..(k + 1) /\ q[k + 1] = r /\ \A i \in 1..k : q[i] = rs[i]
  BY <1>1, <1>2
<1>4. \A i : i \in 1..(k + 1) <=> i \in 1..k \/ i = k + 1
  OBVIOUS
<1>5. Open(q, t, x) <=> Open(rs, t, x) /\ ~Covers(r, t, x)
  BY <1>1, <1>3, <1>4 DEF Open
<1>6. \A m \in 1..k : Decides(q, m, t, x) <=> Decides(rs, m, t, x)
  <2> TAKE m \in 1..k
  <2>1. m \in 1..(k + 1) /\ q[m] = rs[m] /\ \A i \in 1..(k + 1) : i < m => i \in 1..k
    BY <1>3
  <2>2. (\A i \in 1..(k + 1) : i < m => ~Covers(q[i], t, x)) <=> \A i \in 1..k : i < m => ~Covers(rs[i], t, x)
    BY <1>3, <1>4, <2>1
  <2> QED
    BY <1>1, <1>3, <2>1, <2>2 DEF Decides
<1>7. Decides(q, k + 1, t, x) <=> Open(rs, t, x) /\ Covers(r, t, x)
  <2>1. \A i \in 1..(k + 1) : i < k + 1 <=> i \in 1..k
    OBVIOUS
  <2>2. (\A i \in 1..(k + 1) : i < k + 1 => ~Covers(q[i], t, x)) <=> \A i \in 1..k : ~Covers(rs[i], t, x)
    BY <1>3, <1>4, <2>1
  <2> QED
    BY <1>1, <1>3, <1>4, <2>2 DEF Decides, Open
<1> QED
  BY <1>1, <1>2, <1>3, <1>4, <1>5, <1>6, <1>7

LEMMA PortsStart ==
  ASSUME PortsInit
  PROVE  PortsInv
<1>1. PICK r \in FirewallRules, q \in FirewallRules : offered = Union(RulePorts(r), RulePorts(q))
  BY DEF PortsInit
<1>2. undecided = offered /\ allowed = NoPorts /\ rules = << >>
  BY DEF PortsInit
<1>3. offered \in PortLists
  BY <1>1, RulePortsAre, UnionIs
<1>4. rules \in Seq(FirewallRules) /\ DOMAIN rules = {}
  BY <1>2
<1>5. PortTypes
  BY <1>2, <1>3, <1>4, NoPortsIs DEF PortTypes
<1>6. ByPacket
  BY <1>2, <1>4, NoPortsIs DEF ByPacket, Open
<1> QED
  BY <1>5, <1>6 DEF PortsInv

LEMMA RuleKeepsPorts ==
  ASSUME PortsInv, NEW r \in FirewallRules, ApplyRule(r)
  PROVE  PortsInv'
<1>1. /\ offered \in PortLists /\ undecided \in PortLists /\ allowed \in PortLists
      /\ rules \in Seq(FirewallRules) /\ \A t \in Transports : Apart(allowed[t])
  BY DEF PortsInv, PortTypes
<1>2. RulePorts(r) \in PortLists
  BY RulePortsAre
<1>3. PICK newly : newly = Intersect(undecided, RulePorts(r))
  OBVIOUS
<1>4. /\ newly \in PortLists
      /\ \A t \in Transports : \A x : x \in Has(newly[t]) <=> x \in Has(undecided[t]) /\ x \in Has(RulePorts(r)[t])
  BY <1>1, <1>2, <1>3, IntersectIs
<1>5. rules' = Append(rules, r) /\ offered' = offered
  BY DEF ApplyRule
<1>6. IF IsEmpty(newly) THEN undecided' = undecided /\ allowed' = allowed
      ELSE /\ allowed' = IF r.allow THEN Union(allowed, newly) ELSE allowed
           /\ undecided' = Minus(undecided, newly)
  BY <1>3 DEF ApplyRule
<1>7. /\ undecided' \in PortLists /\ allowed' \in PortLists /\ \A t \in Transports : Apart(allowed'[t])
      /\ \A t \in Transports : \A x :
           /\ x \in Has(undecided'[t]) <=> x \in Has(undecided[t]) /\ x \notin Has(newly[t])
           /\ x \in Has(allowed'[t]) <=> x \in Has(allowed[t]) \/ (r.allow /\ x \in Has(newly[t]))
  <2>1. CASE IsEmpty(newly)
    <3>1. undecided' = undecided /\ allowed' = allowed
      BY <1>6, <2>1
    <3>2. \A t \in Transports : Has(newly[t]) = {}
      BY <2>1 DEF IsEmpty, Has
    <3> QED
      BY <1>1, <3>1, <3>2
  <2>2. CASE ~IsEmpty(newly)
    <3>1. undecided' = Minus(undecided, newly) /\ allowed' = IF r.allow THEN Union(allowed, newly) ELSE allowed
      BY <1>6, <2>2
    <3>2. PICK left : left = Minus(undecided, newly)
      OBVIOUS
    <3>3. left \in PortLists /\ \A t \in Transports : \A x : x \in Has(left[t]) <=> x \in Has(undecided[t]) /\ x \notin Has(newly[t])
      BY <1>1, <1>4, <3>2, MinusIs
    <3>4. PICK more : more = Union(allowed, newly)
      OBVIOUS
    <3>5. /\ more \in PortLists
          /\ \A t \in Transports : /\ Apart(more[t])
                                   /\ \A x : x \in Has(more[t]) <=> x \in Has(allowed[t]) \/ x \in Has(newly[t])
      BY <1>1, <1>4, <3>4, UnionIs
    <3>6. r.allow \in BOOLEAN
      BY PortsAssumption
    <3>7. undecided' = left /\ allowed' = IF r.allow THEN more ELSE allowed
      BY <3>1, <3>2, <3>4
    <3>8. CASE r.allow
      BY <3>3, <3>5, <3>7, <3>8
    <3>9. CASE ~r.allow
      BY <1>1, <3>3, <3>7, <3>9
    <3> QED
      BY <3>8, <3>9
  <2> QED
    BY <2>1, <2>2
<1>8. PortTypes'
  <2>1. rules' \in Seq(FirewallRules)
    BY <1>1, <1>5
  <2> QED
    BY <1>1, <1>5, <1>7, <2>1 DEF PortTypes
<1>9. ASSUME NEW t \in Transports, NEW x \in Has(AllPorts[t])
      PROVE  /\ x \in Has(undecided'[t]) <=> x \in Has(offered'[t]) /\ Open(rules', t, x)
             /\ x \in Has(allowed'[t]) <=> /\ x \in Has(offered'[t])
                                          /\ \E m \in DOMAIN rules' : Decides(rules', m, t, x) /\ rules'[m].allow
  <2>1. /\ x \in Has(undecided[t]) <=> x \in Has(offered[t]) /\ Open(rules, t, x)
        /\ x \in Has(allowed[t]) <=> x \in Has(offered[t]) /\ \E m \in DOMAIN rules : Decides(rules, m, t, x) /\ rules[m].allow
    BY DEF PortsInv, ByPacket
  <2>2. x \in Has(RulePorts(r)[t]) <=> Covers(r, t, x)
    BY RulePortsAre
  <2>3. PICK next : next = Append(rules, r)
    OBVIOUS
  <2>4. /\ Open(next, t, x) <=> Open(rules, t, x) /\ ~Covers(r, t, x)
        /\ (\E m \in DOMAIN next : Decides(next, m, t, x) /\ next[m].allow)
             <=> \/ \E m \in DOMAIN rules : Decides(rules, m, t, x) /\ rules[m].allow
                 \/ Open(rules, t, x) /\ Covers(r, t, x) /\ r.allow
    BY <1>1, <2>3, OneMoreRule
  <2>5. rules' = next /\ offered' = offered
    BY <1>5, <2>3
  <2>6. x \in Has(newly[t]) <=> x \in Has(undecided[t]) /\ Covers(r, t, x)
    BY <1>4, <2>2
  <2>7. x \in Has(undecided'[t]) <=> x \in Has(undecided[t]) /\ ~Covers(r, t, x)
    BY <1>7, <2>6
  <2>8. x \in Has(allowed'[t]) <=> x \in Has(allowed[t]) \/ (r.allow /\ x \in Has(undecided[t]) /\ Covers(r, t, x))
    BY <1>7, <2>6
  <2> QED
    BY <2>1, <2>4, <2>5, <2>7, <2>8
<1>10. ByPacket'
  BY <1>9 DEF ByPacket
<1> QED
  BY <1>8, <1>10 DEF PortsInv

LEMMA PortsKept ==
  PortsInv /\ [PortsNext]_portVars => PortsInv'
<1> SUFFICES ASSUME PortsInv, [PortsNext]_portVars
             PROVE  PortsInv'
  OBVIOUS
<1>1. CASE PortsNext
  BY <1>1, RuleKeepsPorts DEF PortsNext
<1>2. CASE UNCHANGED portVars
  BY <1>2 DEF portVars, PortsInv, PortTypes, ByPacket
<1> QED
  BY <1>1, <1>2

\* The packets of a set of ports.
LEMMA PacketsAre ==
  ASSUME NEW p \in PortLists
  PROVE  \A pk : pk \in PortsIn(p) <=> pk \in Transports \X (0..MaxPort) /\ pk[2] \in Has(p[pk[1]])
BY DEF PortsIn, Has

LEMMA PortsImply ==
  ASSUME PortsInv
  PROVE  FirstRuleDecides
<1>1. /\ offered \in PortLists /\ undecided \in PortLists /\ allowed \in PortLists
      /\ rules \in Seq(FirewallRules) /\ \A t \in Transports : Apart(allowed[t])
  BY DEF PortsInv, PortTypes
<1>2. AllPorts \in PortLists
  BY AllPortsIs
<1>3. ASSUME NEW pk \in PortsIn(AllPorts)
      PROVE  LET about == {i \in DOMAIN rules : Covers(rules[i], pk[1], pk[2])}
             IN /\ pk \in PortsIn(allowed) <=>
                     pk \in PortsIn(offered) /\ about # {} /\ rules[Min(about)].allow
                /\ pk \in PortsIn(undecided) <=> pk \in PortsIn(offered) /\ about = {}
  <2> DEFINE about == {i \in DOMAIN rules : Covers(rules[i], pk[1], pk[2])}
  <2>1. PICK t \in Transports, x \in 0..MaxPort : t = pk[1] /\ x = pk[2] /\ x \in Has(AllPorts[t])
    BY <1>2, <1>3, PacketsAre
  <2>2. /\ pk \in PortsIn(allowed) <=> x \in Has(allowed[t])
        /\ pk \in PortsIn(offered) <=> x \in Has(offered[t])
        /\ pk \in PortsIn(undecided) <=> x \in Has(undecided[t])
    BY <1>1, <1>2, <1>3, <2>1, PacketsAre
  <2>3. /\ x \in Has(undecided[t]) <=> x \in Has(offered[t]) /\ Open(rules, t, x)
        /\ x \in Has(allowed[t]) <=> x \in Has(offered[t]) /\ \E m \in DOMAIN rules : Decides(rules, m, t, x) /\ rules[m].allow
    BY <2>1 DEF PortsInv, ByPacket
  <2>4. Open(rules, t, x) <=> about = {}
    BY <2>1 DEF Open
  <2>5. about \in SUBSET Nat
    <3>1. DOMAIN rules \subseteq Nat
      BY <1>1
    <3> QED
      BY <3>1
  <2>6. \A m \in DOMAIN rules : Decides(rules, m, t, x) <=> about # {} /\ m = Min(about)
    <3> TAKE m \in DOMAIN rules
    <3>1. Decides(rules, m, t, x) <=> m \in about /\ \A i \in about : ~(i < m)
      BY <2>1 DEF Decides
    <3>2. about # {} => Min(about) \in about /\ \A i \in about : Min(about) <= i
      BY <2>5, LeastExists
    <3>3. ASSUME Decides(rules, m, t, x)
          PROVE  about # {} /\ m = Min(about)
      <4>1. m \in about /\ Min(about) \in about /\ Min(about) <= m /\ ~(Min(about) < m)
        BY <3>1, <3>2, <3>3
      <4>2. m \in Nat /\ Min(about) \in Nat
        BY <2>5, <4>1
      <4> HIDE DEF about
      <4> QED
        BY <4>1, <4>2
    <3>4. ASSUME about # {}, m = Min(about)
          PROVE  Decides(rules, m, t, x)
      <4>1. m \in about /\ \A i \in about : m <= i
        BY <3>2, <3>4
      <4>2. \A i \in about : i \in Nat /\ m \in Nat
        BY <2>5, <4>1
      <4> HIDE DEF about
      <4> QED
        BY <3>1, <4>1, <4>2
    <3> HIDE DEF about
    <3> QED
      BY <3>3, <3>4
  <2>7. about # {} => Min(about) \in DOMAIN rules
    BY <2>5, LeastExists
  <2> HIDE DEF about
  <2>8. (\E m \in DOMAIN rules : Decides(rules, m, t, x) /\ rules[m].allow) <=> about # {} /\ rules[Min(about)].allow
    BY <2>6, <2>7
  <2>9. /\ pk \in PortsIn(allowed) <=> pk \in PortsIn(offered) /\ about # {} /\ rules[Min(about)].allow
        /\ pk \in PortsIn(undecided) <=> pk \in PortsIn(offered) /\ about = {}
    BY <2>2, <2>3, <2>4, <2>8
  <2> QED
    BY <2>9 DEF about
<1>4. Tidy(allowed)
  <2> SUFFICES ASSUME NEW t \in Transports
               PROVE  /\ \A i \in DOMAIN allowed[t] : allowed[t][i].from <= allowed[t][i].to
                      /\ \A i \in DOMAIN allowed[t] \ {1} : allowed[t][i - 1].to + 1 < allowed[t][i].from
    BY DEF Tidy
  <2>1. PICK s \in RangeLists : s = allowed[t] /\ Apart(s)
    BY <1>1 DEF PortLists
  <2>2. PICK k \in Nat : k = Len(s) /\ DOMAIN s = 1..k /\ \A i \in 1..k : s[i] \in Ranges
    BY <2>1 DEF RangeLists
  <2>3. \A i \in 1..k : s[i].from <= s[i].to
    BY <2>2 DEF Ranges
  <2>4. ASSUME NEW i \in (1..k) \ {1}
        PROVE  s[i - 1].to + 1 < s[i].from
    <3>1. PICK j \in 1..(k - 1) : j = i - 1 /\ j + 1 = i
      BY <2>2, <2>4
    <3> QED
      BY <2>1, <2>2, <3>1 DEF Apart
  <2> QED
    BY <2>1, <2>2, <2>3, <2>4
<1>5. Transport(allowed) <=> \E pk \in PortsIn(allowed) : pk[1] \in {"tcp", "udp"}
  <2>1. \A t \in Transports : allowed[t] # << >> <=> \E x \in 0..MaxPort : x \in Has(allowed[t])
    <3> TAKE t \in Transports
    <3>1. allowed[t] \in RangeLists
      BY <1>1 DEF PortLists
    <3>2. Has(allowed[t]) \subseteq 0..MaxPort
      BY DEF Has
    <3> QED
      BY <3>1, <3>2, HoldsSome
  <2>2. ASSUME NEW t \in {"tcp", "udp"}, NEW x \in 0..MaxPort, x \in Has(allowed[t])
        PROVE  \E pk \in PortsIn(allowed) : pk[1] \in {"tcp", "udp"}
    <3>1. PICK pk : pk = <<t, x>>
      OBVIOUS
    <3>2. pk \in Transports \X (0..MaxPort) /\ pk[1] = t /\ pk[2] = x
      BY <3>1 DEF Transports
    <3>3. pk \in PortsIn(allowed)
      BY <1>1, <2>2, <3>2, PacketsAre
    <3> QED
      BY <3>2, <3>3
  <2>3. ASSUME NEW pk \in PortsIn(allowed), pk[1] \in {"tcp", "udp"}
        PROVE  allowed[pk[1]] # << >>
    <3>1. pk \in Transports \X (0..MaxPort) /\ pk[2] \in Has(allowed[pk[1]])
      BY <1>1, <2>3, PacketsAre
    <3> QED
      BY <2>1, <3>1
  <2>4. "tcp" \in Transports /\ "udp" \in Transports
    BY DEF Transports
  <2> QED
    BY <2>1, <2>2, <2>3, <2>4 DEF Transport
<1> QED
  BY <1>3, <1>4, <1>5 DEF FirstRuleDecides

\* However the ranges of the rules overlap, touch and cut each other to
\* pieces, FirstMatch lets a packet through exactly if it is offered and the
\* first rule that is about it allows it, and keeps what it let through
\* sorted and without ranges that overlap or touch.
THEOREM FirstMatchDecides == PortsSpec => []FirstRuleDecides
<1>1. PortsInit => PortsInv
  BY PortsStart
<1>2. PortsInv => FirstRuleDecides
  BY PortsImply
<1> QED
  BY <1>1, <1>2, PortsKept, PTL DEF PortsSpec

=============================================================================
