----------------------------- MODULE AgeStore -----------------------------
(***************************************************************************)
(* The store every replica shares: PostgreSQL with Apache AGE.  It keeps   *)
(* the contract of GraphStore in tables: the graph's vertices and          *)
(* relationships, the edges that wait for an endpoint, one provenance row  *)
(* for every element, source and scope, and the removal epoch.             *)
(*                                                                         *)
(* Each operation is one transaction that holds the graph's advisory lock  *)
(* from its first statement, so each is one action; one that fails rolls   *)
(* back and is no step.  The tables are created before, in a transaction   *)
(* of their own, and the first to create them accounts for what an older   *)
(* build left in the graph.                                                *)
(***************************************************************************)
EXTENDS GraphContract, FiniteSetsExt

CONSTANT LegacySource   \* whoever asserted what was there before provenance was

ASSUME AgeAssumption == LegacySource \in Origins

VARIABLES
  vertices,       \* node id -> last_seen
  relationships,  \* edge key -> the edge
  waiting,        \* edge key -> the parked edge and since when it waits
  looked,         \* when a write last looked for expired parked edges
  provenance,     \* rows: who asserted which element, and when last
  epoch,          \* the removal epoch
  tables          \* the provenance tables exist

ageVars == <<now, vertices, relationships, waiting, looked, provenance, epoch, tables>>
graphTables == <<vertices, relationships, waiting, looked>>

\* The key of an element.
NodeKey(n) == <<"n", n>>
EdgeKey(k) == <<"e", k>>

\* The time of the origin's row for the element, 0 without one.
SeenAt(rows, x, o) == Max({0} \cup {r.at : r \in {q \in rows : q.of = x /\ q.by = o}})

\* The memory store this one stands for.  Its maps of origins are the rows.
Memory == INSTANCE GraphStore WITH
  nodes <- vertices, edges <- relationships, pending <- waiting,
  pendingSwept <- looked, SweepPendingEvery <- 0, removals <- epoch,
  nodeOrigins <- [n \in Nodes |-> [o \in Origins |-> SeenAt(provenance, NodeKey(n), o)]],
  edgeOrigins <- [k \in Edges |-> [o \in Origins |-> SeenAt(provenance, EdgeKey(k), o)]]

\* The elements the store holds.
Held == {NodeKey(n) : n \in DOMAIN vertices}
          \cup {EdgeKey(k) : k \in DOMAIN relationships \cup DOMAIN waiting}

\* The same, with the rows of the elements it holds only.
Live == INSTANCE GraphStore WITH
  nodes <- vertices, edges <- relationships, pending <- waiting,
  pendingSwept <- looked, SweepPendingEvery <- 0, removals <- epoch,
  nodeOrigins <- [n \in Nodes |-> [o \in Origins |->
    IF NodeKey(n) \in Held THEN SeenAt(provenance, NodeKey(n), o) ELSE 0]],
  edgeOrigins <- [k \in Edges |-> [o \in Origins |->
    IF EdgeKey(k) \in Held THEN SeenAt(provenance, EdgeKey(k), o) ELSE 0]]

\* A new graph, or one that a build without provenance has filled.
AgeInit ==
  /\ now = 1
  /\ \E old \in {{}, Nodes \ Invalid} :
       /\ vertices = [n \in old |-> 1]
       /\ relationships = [k \in {l \in Edges : From[l] \in old /\ To[l] \in old}
                             |-> [seen |-> 1, inferred |-> FALSE]]
  /\ waiting = [k \in {} |-> 0]
  /\ looked = 0
  /\ provenance = {}
  /\ epoch = 0
  /\ tables = FALSE

---------------------------------------------------------------------------
(***************************************************************************)
(* Provenance.                                                             *)
(***************************************************************************)

\* Fault: a row takes the time of the last write.
InsertedAnew(rows, xs, o, seen) ==
  {r \in rows : r.of \notin xs \/ r.by # o} \cup [of : xs, by : {o}, at : {seen}]

\* The rows once o is recorded on the elements xs: a conflict keeps the
\* later time.
InsertOrigins(rows, xs, o, seen) ==
  {r \in rows : r.of \notin xs \/ r.by # o}
    \cup {[of |-> x, by |-> o, at |-> Max({seen, SeenAt(rows, x, o)})] : x \in xs}

\* The tables are created; everything already in the graph was asserted by
\* someone.
PrepareProvenance ==
  /\ ~tables
  /\ tables' = TRUE
  /\ provenance' = InsertOrigins({}, Held, LegacySource, now)
  /\ UNCHANGED <<now, graphTables, epoch>>

---------------------------------------------------------------------------
(***************************************************************************)
(* Writing an event.                                                       *)
(***************************************************************************)

\* A guess refreshes the stamp of a stated edge; any other write is merged
\* over what is there, and a stated one takes the mark of a guess away.
LandEdge(stored, k, e) ==
  IF e.inferred /\ k \in DOMAIN stored /\ ~stored[k].inferred
  THEN [stored[k] EXCEPT !.seen = e.seen]
  ELSE e

LandEdges(stored, batch) ==
  [k \in DOMAIN stored \cup DOMAIN batch |->
     IF k \in DOMAIN batch THEN LandEdge(stored, k, batch[k]) ELSE stored[k]]

\* The edge's statement matches both its endpoints.
Matches(k, present) == {From[k], To[k]} \subseteq present

\* One transaction: the vertices, then the edges parked for them, each once,
\* then the event's own edges, landed or parked, and who asserted it all.
UpsertBatch(o, seen, observed, ns, es) ==
  LET expired == {k \in DOMAIN waiting : waiting[k].at < now - PendingEdgeTTL}
      taken   == {k \in DOMAIN waiting \ expired : From[k] \in ns \/ To[k] \in ns}
      present == DOMAIN vertices \cup ns
      retried == {k \in taken : Matches(k, present)}
      landed  == {k \in DOMAIN es : Matches(k, present)}
      parked  == DOMAIN es \ landed
  IN /\ tables
     /\ vertices' = [n \in present |-> IF n \in ns THEN observed ELSE vertices[n]]
     /\ relationships' =
          LandEdges(LandEdges(relationships, [k \in retried |-> waiting[k].edge]),
                    Restrict(es, landed))
     /\ waiting' = [k \in (DOMAIN waiting \ (expired \cup retried)) \cup parked |->
                      IF k \in parked THEN [edge |-> es[k], at |-> now] ELSE waiting[k]]
     /\ looked' = now
     /\ provenance' =
          InsertOrigins({r \in provenance : r.of \notin {EdgeKey(k) : k \in expired}},
                        {NodeKey(n) : n \in ns} \cup {EdgeKey(k) : k \in DOMAIN es},
                        o, seen)
     /\ UNCHANGED <<now, epoch, tables>>

\* What ApplyEvent hands to any store: the event without what is outside the
\* ontology, with the time its assertions carry.
AgeApplyEvent(shape, taken, observed) ==
  LET dropped == shape.nodes \cap Invalid
      kept    == {k \in DOMAIN shape.edges : {From[k], To[k]} \cap dropped = {}}
  IN UpsertBatch(shape.origin, IF shape.origin \in Snapshots THEN taken ELSE now, observed,
                 shape.nodes \ dropped,
                 [k \in kept |-> [seen |-> observed, inferred |-> shape.edges[k]]])

---------------------------------------------------------------------------
(***************************************************************************)
(* Removing elements.                                                      *)
(***************************************************************************)

\* The rows a snapshot of o does not repeat.
Omitted(o, taken) == {r \in provenance : r.by = o /\ r.at < taken}

\* The elements only such rows speak for.
Unasserted(o, taken) ==
  {r.of : r \in {q \in Omitted(o, taken) : \A p \in provenance : p.of = q.of => p.by = o}}

\* The epoch moves in the transaction that removed something.
BumpRemovals(removed) ==
  /\ epoch' = IF removed = {} THEN epoch ELSE epoch + 1
  /\ epoch' <= MaxRemovals

\* The omissions of a snapshot: edges go, graph or parked; then nodes, with
\* their edges, of which those that someone asserts wait.
AgeSweep(o, taken) ==
  LET gone     == Unasserted(o, taken)
      left     == provenance \ Omitted(o, taken)
      nodes    == {n \in DOMAIN vertices : NodeKey(n) \in gone}
      edges    == {k \in DOMAIN relationships \cup DOMAIN waiting : EdgeKey(k) \in gone}
      incident == {k \in DOMAIN relationships \ edges : {From[k], To[k]} \cap nodes # {}}
      parked   == {k \in incident : \E r \in left : r.of = EdgeKey(k)}
  IN /\ tables
     /\ o \in Snapshots
     /\ vertices' = Restrict(vertices, DOMAIN vertices \ nodes)
     /\ relationships' =
          Restrict(relationships, DOMAIN relationships \ (edges \cup incident))
     /\ waiting' = [k \in (DOMAIN waiting \ edges) \cup parked |->
                      IF k \in parked THEN [edge |-> relationships[k], at |-> now]
                                      ELSE waiting[k]]
     /\ provenance' = left
     /\ BumpRemovals(nodes \cup edges \cup incident)
     /\ UNCHANGED <<now, looked, tables>>

\* What was last seen before the cutoff is deleted, edges first; rows go by
\* their own time.
AgePrune(before) ==
  LET nodes == {n \in DOMAIN vertices : vertices[n] < before}
      stale == {k \in DOMAIN relationships : relationships[k].seen < before}
  IN /\ tables
     /\ vertices' = Restrict(vertices, DOMAIN vertices \ nodes)
     /\ relationships' = Restrict(relationships,
          {k \in DOMAIN relationships \ stale : {From[k], To[k]} \cap nodes = {}})
     /\ provenance' = {r \in provenance : r.at >= before}
     /\ BumpRemovals(nodes \cup stale)
     /\ UNCHANGED <<now, waiting, looked, tables>>

AgeTick ==
  /\ now < MaxTime
  /\ now' = now + 1
  /\ UNCHANGED <<graphTables, provenance, epoch, tables>>

AgeNext ==
  \/ PrepareProvenance
  \/ \E s \in Shapes, taken, observed \in 1..now : AgeApplyEvent(s, taken, observed)
  \/ \E o \in Snapshots, taken \in 1..now : AgeSweep(o, taken)
  \/ \E before \in 1..now : AgePrune(before)
  \/ AgeTick

AgeSpec == AgeInit /\ [][AgeNext]_ageVars

---------------------------------------------------------------------------
(***************************************************************************)
(* Properties.                                                             *)
(***************************************************************************)

\* A step of the memory store, on what the tables stand for.
StepAsMemory ==
  \/ PrepareProvenance
  \/ Memory!Tick
  \/ \E s \in Shapes, taken, observed \in 1..now : Memory!ApplyEvent(s, taken, observed)
  \/ \E o \in Snapshots, taken \in 1..now : Memory!Sweep(o, taken)
  \/ \E before \in 1..now : Live!Prune(before)

\* The shared store steps as the memory store does: every write and every
\* sweep, from any graph and any rows, is one of its writes or sweeps; and so
\* is every prune, but that the rows of what it removes stay until their own
\* time (age.Store.Prune against memory.Store.Prune).
AgeStepsAsMemory == [][StepAsMemory]_ageVars
=============================================================================
