--------------------------- MODULE IngestPipeline ---------------------------
(***************************************************************************)
(* Ingestion end to end: the event bus, as BatchContract promises it, and  *)
(* the graph store it writes.  The normalizer's handler applies an event   *)
(* and its Sweep applies a snapshot's omissions; each is one call of the   *)
(* store, which serialises them, so the bus and the store step together.   *)
(* The analyzer's pruner, which the store serialises too, runs beside      *)
(* them.                                                                   *)
(*                                                                         *)
(* An event is taken and observed when its batch is published: the engine  *)
(* stamps the one and the collectors the other with the clock.             *)
(***************************************************************************)
EXTENDS GraphStore

CONSTANTS
  Batches,   \* the ingests
  Size,      \* how many messages each takes
  ShapeOf,   \* message -> what its event carries
  TTLs       \* settings of GRAPH_TTL, which 0 turns off

VARIABLES
  published, applied, sweeps,
  at,        \* batch -> when it was taken, 0 before that
  ttl        \* how long an element may go unobserved; 0 when pruning is off

busVars == <<published, applied, sweeps>>
pipelineVars == <<graphVars, busVars, at, ttl>>

Bus == INSTANCE BatchContract WITH Scopes <- Snapshots

Messages == Bus!Messages
MessagesOf(b) == Bus!MessagesOf(b)

\* Every message has an event.
ASSUME PipelineAssumption ==
  /\ Messages \subseteq DOMAIN ShapeOf
  /\ \A m \in DOMAIN ShapeOf : IsShape(ShapeOf[m])
  /\ TTLs \subseteq Nat

OriginOf(m) == ShapeOf[m].origin

PipelineInit == Init /\ Bus!Init /\ at = [b \in Batches |-> 0] /\ ttl \in TTLs

\* When the events of the batch were taken.
Taken(b) == at[b]

\* The batch is taken: its events carry this time from now on.
Ingest(b) ==
  /\ at[b] = 0
  /\ at' = [at EXCEPT ![b] = now]
  /\ UNCHANGED <<graphVars, busVars, ttl>>

\* A message of a batch that was taken reaches the bus.
Publish(m) ==
  /\ at[m[1]] # 0
  /\ Bus!Publish(m)
  /\ UNCHANGED <<graphVars, at, ttl>>

\* The normalizer handles a message.
Handle(m) ==
  /\ Bus!Apply(m)
  /\ ApplyEvent(ShapeOf[m], Taken(m[1]), at[m[1]])
  /\ UNCHANGED <<at, ttl>>

\* The normalizer applies the omissions of a batch's snapshot.
SweepBatch(b, o) ==
  /\ \E m \in MessagesOf(b) : OriginOf(m) = o
  /\ Bus!Retract(b, o)
  /\ Sweep(o, Taken(b))
  /\ UNCHANGED <<at, ttl>>

\* The analyzer's leader removes what has not been observed for the TTL.
PruneByTTL ==
  /\ ttl > 0
  /\ Prune(now - ttl)
  /\ UNCHANGED <<busVars, at, ttl>>

PipelineTick == Tick /\ UNCHANGED <<busVars, at, ttl>>

PipelineNext ==
  \/ \E b \in Batches : Ingest(b)
  \/ \E m \in Messages : Publish(m) \/ Handle(m)
  \/ \E b \in Batches, o \in Snapshots : SweepBatch(b, o)
  \/ PruneByTTL
  \/ PipelineTick

PipelineSpec == PipelineInit /\ [][PipelineNext]_pipelineVars

---------------------------------------------------------------------------
(***************************************************************************)
(* Properties.                                                             *)
(***************************************************************************)

\* The nodes an event leaves in the graph, and the edges it lands by itself.
NodesListed(m) == ShapeOf[m].nodes \ Invalid
EdgesListed(m) ==
  {k \in DOMAIN ShapeOf[m].edges : From[k] \in NodesListed(m) /\ To[k] \in NodesListed(m)}

\* No newer snapshot of the same source and scope has been applied.
Newest(m) ==
  \A b \in Batches :
    (<<b, OriginOf(m)>> \in DOMAIN sweeps /\ sweeps[<<b, OriginOf(m)>>] > 0)
      => at[b] <= at[m[1]]

\* The newest snapshot stands.  Whatever order messages arrive in, however
\* often one is redelivered, whichever older snapshot is swept before or
\* after it, what a snapshot lists and no newer one was applied over is in
\* the graph.  It holds while pruning is off.
NewestSnapshotStands ==
  ttl = 0 =>
    \A m \in applied :
      OriginOf(m) \in Snapshots /\ Newest(m)
        => NodesListed(m) \subseteq DOMAIN nodes /\ EdgesListed(m) \subseteq DOMAIN edges

\* An element a partial observation asserted is never retracted by omission:
\* no sweep of any scope removes it, although snapshots assert it too and
\* stop doing so.
PartialNeverRetracted ==
  ttl = 0 =>
    \A m \in applied :
      OriginOf(m) \notin Snapshots
        => NodesListed(m) \subseteq DOMAIN nodes /\ EdgesListed(m) \subseteq DOMAIN edges

\* Neither of the two is ever undone by what arrives, and in what order
\* (Normalizer.Handle, Normalizer.Sweep).
ListedStands == NewestSnapshotStands /\ PartialNeverRetracted

\* A retraction is by the asserter: a node leaves the graph in a sweep only
\* if the source and scope of that sweep asserted it before.
RetractedByItsAsserter ==
  [][\A b \in Batches, o \in Snapshots :
       sweeps'[<<b, o>>] # sweeps[<<b, o>>] =>
         \A n \in DOMAIN nodes \ DOMAIN nodes' :
           \E m \in applied : OriginOf(m) = o /\ n \in NodesListed(m)]_pipelineVars

\* "Prune removes nodes and edges last observed before the cutoff": a node
\* that an applied event observed since then stays.
PrunedWereUnobserved ==
  [][PruneByTTL => \A n \in DOMAIN nodes \ DOMAIN nodes' :
                \A m \in applied : n \in NodesListed(m) => at[m[1]] < now - ttl]_pipelineVars
=============================================================================
