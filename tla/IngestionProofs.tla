-------------------------- MODULE IngestionProofs --------------------------
(***************************************************************************)
(* What is read of the infrastructure and how it is stored, for every set  *)
(* of nodes, edges, origins, events, statements and policies: the graph    *)
(* store in memory, alone and behind the event bus; the store in tables,   *)
(* which steps as the one in memory does; the collectors that read         *)
(* policies, with the red team that puts their claims to AWS; those of     *)
(* clusters; and the one of Terraform plans.                               *)
(***************************************************************************)
EXTENDS IngestPipeline, AgeStore, EscalationAudit, ResourceExposure, KubeReach, PlanExposure, TLAPS

---------------------------------------------------------------------------
(***************************************************************************)
(* The store in memory: the invariants by induction over the three kinds   *)
(* of step: the batch write, the sweep and the prune.                      *)
(***************************************************************************)

\* The inductive invariant.  NoDangling and ParkedWaits are inductive on top
\* of the types; ParkedWithinTTL needs the expiry check to lie in the past.
IInv ==
  /\ TypeOK
  /\ NoDangling
  /\ ParkedWaits
  /\ OriginsHaveElements
  /\ ParkedWithinTTL
  /\ pendingSwept <= now

\* What an event's parts must be for a batch write: every event the engine
\* applies has them.
IsBatch(o, seen, observed, ns, es) ==
  /\ o \in Origins
  /\ seen \in Nat
  /\ observed \in Nat
  /\ ns \subseteq Nodes
  /\ DOMAIN es \subseteq Edges
  /\ es \in [DOMAIN es -> Edge]

---------------------------------------------------------------------------
(***************************************************************************)
(* The operators.                                                          *)
(***************************************************************************)

\* Writing a batch of edges to a map of edges gives a map of edges.
LEMMA PutEdgesType ==
  ASSUME NEW stored, stored \in [DOMAIN stored -> Edge],
         NEW batch, batch \in [DOMAIN batch -> Edge]
  PROVE  /\ DOMAIN PutEdges(stored, batch) = DOMAIN stored \cup DOMAIN batch
         /\ PutEdges(stored, batch)
              \in [DOMAIN stored \cup DOMAIN batch -> Edge]
  BY DEF PutEdges, PutEdge, Edge

\* An edge stated in a map of edges stays stated whatever is written to it.
LEMMA PutEdgesKeepsFacts ==
  ASSUME NEW stored, NEW batch, NEW k \in DOMAIN stored,
         stored[k] \in Edge, k \in DOMAIN batch => batch[k] \in Edge,
         ~stored[k].inferred
  PROVE  ~PutEdges(stored, batch)[k].inferred
  BY DEF PutEdges, PutEdge, Supersedes, Edge

\* Noting, withdrawing and ageing assertions keeps a map of times.
LEMMA OriginTypes ==
  ASSUME NEW os \in [Origins -> Nat], NEW o \in Origins, NEW t \in Nat
  PROVE  /\ Note(os, o, t) \in [Origins -> Nat]
         /\ Withdraw(os, o, t) \in [Origins -> Nat]
         /\ Aged(os, t) \in [Origins -> Nat]
         /\ NoOrigins \in [Origins -> Nat]
         /\ os = NoOrigins => Withdraw(os, o, t) = NoOrigins
         /\ os = NoOrigins => Aged(os, t) = NoOrigins
  BY DEF Note, Withdraw, Aged, NoOrigins

---------------------------------------------------------------------------
(***************************************************************************)
(* The batch write.                                                        *)
(***************************************************************************)

\* A batch write keeps the invariant: what it lands has both ends, what it
\* parks lacks one, and the expiry check drops what waited out its time.
LEMMA UpsertPreserves ==
  ASSUME IInv,
         NEW o, NEW STATE seen, NEW observed, NEW ns, NEW es,
         IsBatch(o, seen, observed, ns, es),
         UpsertBatchFrom(o, seen, observed, ns, es)
  PROVE  IInv'
<1> DEFINE expired     == ExpiredPending
           onHold      == DOMAIN pending \ expired
           present     == DOMAIN nodes \cup ns
           released    == {k \in onHold : Incident(k, ns) /\ CanLand(k, present)}
           landing     == {k \in DOMAIN es : CanLand(k, present)}
           parking     == DOMAIN es \ landing
           parkedBatch == [k \in released |-> pending[k].edge]
           afterParked == PutEdges(edges, parkedBatch)
<1>1. /\ pendingSwept' = IF SweepPendingDue THEN now ELSE pendingSwept
      /\ nodes' = [n \in present |-> IF n \in ns THEN observed ELSE nodes[n]]
      /\ edges' = PutEdges(afterParked, Restrict(es, landing))
      /\ pending' = [k \in (onHold \ released) \cup parking |->
                       IF k \in parking THEN [edge |-> es[k], at |-> now]
                                        ELSE pending[k]]
      /\ now' = now
      /\ removals' = removals
  BY DEF UpsertBatchFrom
<1>2. /\ nodeOrigins' = [n \in Nodes |->
                           IF n \in ns THEN Note(nodeOrigins[n], o, seen)
                                       ELSE nodeOrigins[n]]
      /\ edgeOrigins' = [k \in Edges |->
                           LET kept == IF k \in expired THEN NoOrigins
                                                        ELSE edgeOrigins[k]
                           IN IF k \in DOMAIN es THEN Note(kept, o, seen) ELSE kept]
  BY DEF UpsertBatchFrom
<1> HIDE DEF expired
<1>3. expired \subseteq DOMAIN pending
  BY DEF expired, ExpiredPending
<1>4. /\ parkedBatch \in [released -> Edge]
      /\ DOMAIN parkedBatch = released
      /\ released \subseteq Edges
  BY <1>3 DEF IInv, TypeOK, Parked
<1>5. /\ DOMAIN afterParked = DOMAIN edges \cup released
      /\ afterParked \in [DOMAIN edges \cup released -> Edge]
  BY <1>4, PutEdgesType DEF IInv, TypeOK
<1>6. /\ DOMAIN Restrict(es, landing) = landing
      /\ Restrict(es, landing) \in [landing -> Edge]
      /\ landing \subseteq Edges
  BY DEF Restrict, IsBatch
<1>7. /\ DOMAIN edges' = DOMAIN edges \cup released \cup landing
      /\ edges' \in [DOMAIN edges' -> Edge]
  BY <1>1, <1>5, <1>6, PutEdgesType, ZenonT(60)
<1>8. /\ DOMAIN nodes' = present
      /\ DOMAIN pending' = (onHold \ released) \cup parking
  BY <1>1
<1>9. TypeOK'
  <2>1. nodes' \in [DOMAIN nodes' -> Nat] /\ DOMAIN nodes' \subseteq Nodes
    BY <1>1, <1>8 DEF IInv, TypeOK, IsBatch
  <2>2. edges' \in [DOMAIN edges' -> Edge] /\ DOMAIN edges' \subseteq Edges
    BY <1>4, <1>6, <1>7 DEF IInv, TypeOK
  <2>3. pending' \in [DOMAIN pending' -> Parked] /\ DOMAIN pending' \subseteq Edges
    BY <1>1, <1>8 DEF IInv, TypeOK, Parked, IsBatch
  <2>4. pendingSwept' \in Nat /\ now' \in Nat /\ removals' \in Nat
    BY <1>1 DEF IInv, TypeOK
  <2>5. nodeOrigins' \in [Nodes -> [Origins -> Nat]]
    BY <1>2, OriginTypes DEF IInv, TypeOK, IsBatch
  <2>6. edgeOrigins' \in [Edges -> [Origins -> Nat]]
    BY <1>2, OriginTypes DEF IInv, TypeOK, IsBatch
  <2>7. QED
    BY <2>1, <2>2, <2>3, <2>4, <2>5, <2>6 DEF TypeOK
<1>10. NoDangling'
  BY <1>7, <1>8 DEF IInv, NoDangling, CanLand
<1>11. ParkedWaits'
  BY <1>8 DEF IInv, ParkedWaits, CanLand, Incident
<1>12. OriginsHaveElements'
  <2>1. ASSUME NEW n \in Nodes, nodeOrigins'[n] # NoOrigins
        PROVE  n \in DOMAIN nodes'
    BY <2>1, <1>2, <1>8 DEF IInv, OriginsHaveElements
  <2>2. ASSUME NEW k \in Edges, edgeOrigins'[k] # NoOrigins
        PROVE  k \in DOMAIN edges' \cup DOMAIN pending'
    BY <2>2, <1>2, <1>7, <1>8 DEF IInv, OriginsHaveElements
  <2>3. QED
    BY <2>1, <2>2 DEF OriginsHaveElements
<1>13. pendingSwept' <= now'
  BY <1>1 DEF IInv, TypeOK
<1>14. ParkedWithinTTL'
  <2> SUFFICES ASSUME NEW k \in DOMAIN pending'
               PROVE  pendingSwept' <= pending'[k].at + PendingEdgeTTL
    BY DEF ParkedWithinTTL
  <2>1. CASE k \in parking
    BY <2>1, <1>1, <1>8, <1>13, GraphAssumption DEF IInv, TypeOK
  <2>2. CASE k \notin parking
    <3>1. k \in onHold /\ pending'[k] = pending[k] /\ pending[k].at \in Nat
      BY <2>2, <1>1, <1>8 DEF IInv, TypeOK, Parked
    <3>2. CASE ~SweepPendingDue
      BY <3>1, <3>2, <1>1 DEF IInv, ParkedWithinTTL
    <3>3. CASE SweepPendingDue
      BY <3>1, <3>3, <1>1, GraphAssumption
         DEF expired, ExpiredPending, IInv, TypeOK
    <3>4. QED
      BY <3>2, <3>3
  <2>3. QED
    BY <2>1, <2>2
<1>15. QED
  BY <1>9, <1>10, <1>11, <1>12, <1>13, <1>14 DEF IInv

---------------------------------------------------------------------------
(***************************************************************************)
(* The sweep.                                                              *)
(***************************************************************************)

\* A sweep keeps the invariant: an edge whose node goes is dropped with its
\* record, or parked if someone still asserts it.
LEMMA SweepPreserves ==
  ASSUME IInv, NEW o \in Origins, NEW taken \in Nat, Sweep(o, taken)
  PROVE  IInv'
<1> DEFINE goneEdges == Retracted(edgeOrigins, o, taken)
           goneNodes == Retracted(nodeOrigins, o, taken) \cap DOMAIN nodes
           kept      == DOMAIN edges \ goneEdges
           detached  == {k \in kept : Incident(k, goneNodes)}
           reparked  == {k \in detached : StillAsserted(k, o, taken)}
           leaving   == (goneEdges \cap (DOMAIN edges \cup DOMAIN pending)) \cup detached
<1>1. /\ nodes' = Restrict(nodes, DOMAIN nodes \ goneNodes)
      /\ edges' = Restrict(edges, kept \ detached)
      /\ pending' = [k \in (DOMAIN pending \ goneEdges) \cup reparked |->
                       IF k \in reparked THEN [edge |-> edges[k], at |-> now]
                                         ELSE pending[k]]
      /\ nodeOrigins' = [n \in Nodes |-> Withdraw(nodeOrigins[n], o, taken)]
      /\ edgeOrigins' = [k \in Edges |-> Withdraw(edgeOrigins[k], o, taken)]
      /\ removals' = removals + RemovalSignal(goneNodes, leaving)
      /\ now' = now
      /\ pendingSwept' = pendingSwept
  BY DEF Sweep
<1>2. /\ DOMAIN nodes' = DOMAIN nodes \ goneNodes
      /\ DOMAIN edges' = kept \ detached
      /\ DOMAIN pending' = (DOMAIN pending \ goneEdges) \cup reparked
  BY <1>1 DEF Restrict
<1>3. TypeOK'
  <2>1. nodes' \in [DOMAIN nodes' -> Nat] /\ DOMAIN nodes' \subseteq Nodes
    BY <1>1, <1>2 DEF IInv, TypeOK, Restrict
  <2>2. edges' \in [DOMAIN edges' -> Edge] /\ DOMAIN edges' \subseteq Edges
    BY <1>1, <1>2 DEF IInv, TypeOK, Restrict
  <2>3. pending' \in [DOMAIN pending' -> Parked] /\ DOMAIN pending' \subseteq Edges
    BY <1>1, <1>2 DEF IInv, TypeOK, Parked
  <2>4. pendingSwept' \in Nat /\ now' \in Nat /\ removals' \in Nat
    BY <1>1 DEF IInv, TypeOK, RemovalSignal
  <2>5. nodeOrigins' \in [Nodes -> [Origins -> Nat]]
    BY <1>1, OriginTypes DEF IInv, TypeOK
  <2>6. edgeOrigins' \in [Edges -> [Origins -> Nat]]
    BY <1>1, OriginTypes DEF IInv, TypeOK
  <2>7. QED
    BY <2>1, <2>2, <2>3, <2>4, <2>5, <2>6 DEF TypeOK
\* An edge both of whose ends stay keeps them: those with an end that goes
\* are detached.
<1>4. NoDangling'
  <2> SUFFICES ASSUME NEW k \in DOMAIN edges'
               PROVE  From[k] \in DOMAIN nodes' /\ To[k] \in DOMAIN nodes'
    BY DEF NoDangling
  <2>1. k \in DOMAIN edges /\ ~Incident(k, goneNodes)
    BY <1>2
  <2>2. QED
    BY <2>1, <1>2 DEF IInv, NoDangling, Incident
\* A parked edge waited already, or waits for the node that just went.
<1>5. ParkedWaits'
  <2> SUFFICES ASSUME NEW k \in DOMAIN pending'
               PROVE  From[k] \notin DOMAIN nodes' \/ To[k] \notin DOMAIN nodes'
    BY DEF ParkedWaits
  <2>1. CASE k \in reparked
    BY <2>1, <1>2 DEF Incident
  <2>2. CASE k \in DOMAIN pending
    BY <2>2, <1>2 DEF IInv, ParkedWaits
  <2>3. QED
    BY <2>1, <2>2, <1>2
<1>6. OriginsHaveElements'
  <2>1. ASSUME NEW n \in Nodes, nodeOrigins'[n] # NoOrigins
        PROVE  n \in DOMAIN nodes'
    <3>1. Withdraw(nodeOrigins[n], o, taken) # NoOrigins
      BY <2>1, <1>1
    <3>2. nodeOrigins[n] # NoOrigins
      BY <3>1, OriginTypes DEF IInv, TypeOK
    <3>3. n \notin goneNodes
      BY <3>1 DEF Retracted
    <3>4. QED
      BY <3>2, <3>3, <1>2 DEF IInv, OriginsHaveElements
  <2>2. ASSUME NEW k \in Edges, edgeOrigins'[k] # NoOrigins
        PROVE  k \in DOMAIN edges' \cup DOMAIN pending'
    <3>1. Withdraw(edgeOrigins[k], o, taken) # NoOrigins
      BY <2>2, <1>1
    <3>2. edgeOrigins[k] # NoOrigins
      BY <3>1, OriginTypes DEF IInv, TypeOK
    <3>3. k \notin goneEdges
      BY <3>1 DEF Retracted
    <3>4. k \in DOMAIN edges \cup DOMAIN pending
      BY <3>2 DEF IInv, OriginsHaveElements
    <3>5. k \in detached => k \in reparked
      BY <3>1 DEF StillAsserted
    <3>6. QED
      BY <3>3, <3>4, <3>5, <1>2
  <2>3. QED
    BY <2>1, <2>2 DEF OriginsHaveElements
<1>7. pendingSwept' <= now'
  BY <1>1 DEF IInv
<1>8. ParkedWithinTTL'
  <2> SUFFICES ASSUME NEW k \in DOMAIN pending'
               PROVE  pendingSwept' <= pending'[k].at + PendingEdgeTTL
    BY DEF ParkedWithinTTL
  <2>1. CASE k \in reparked
    BY <2>1, <1>1, <1>2, GraphAssumption DEF IInv, TypeOK
  <2>2. CASE k \notin reparked
    BY <2>2, <1>1, <1>2 DEF IInv, ParkedWithinTTL
  <2>3. QED
    BY <2>1, <2>2
<1>9. QED
  BY <1>3, <1>4, <1>5, <1>6, <1>7, <1>8 DEF IInv

---------------------------------------------------------------------------
(***************************************************************************)
(* The prune.                                                              *)
(***************************************************************************)

\* A prune keeps the invariant: a node goes with its edges and their records.
LEMMA PrunePreserves ==
  ASSUME IInv, NEW before \in Int, Prune(before)
  PROVE  IInv'
<1> DEFINE goneNodes == {n \in DOMAIN nodes : Stale(nodes[n], before)}
           goneEdges == {k \in DOMAIN edges :
                           Stale(edges[k].seen, before) \/ Incident(k, goneNodes)}
<1>1. /\ nodes' = Restrict(nodes, DOMAIN nodes \ goneNodes)
      /\ edges' = Restrict(edges, DOMAIN edges \ goneEdges)
      /\ nodeOrigins' = [n \in Nodes |-> IF n \in goneNodes THEN NoOrigins
                                         ELSE Aged(nodeOrigins[n], before)]
      /\ edgeOrigins' = [k \in Edges |-> IF k \in goneEdges THEN NoOrigins
                                         ELSE Aged(edgeOrigins[k], before)]
      /\ removals' = removals + RemovalSignal(goneNodes, goneEdges)
      /\ now' = now
      /\ pending' = pending
      /\ pendingSwept' = pendingSwept
  BY DEF Prune
<1>2. /\ DOMAIN nodes' = DOMAIN nodes \ goneNodes
      /\ DOMAIN edges' = DOMAIN edges \ goneEdges
  BY <1>1 DEF Restrict
<1>3. TypeOK'
  <2>1. nodes' \in [DOMAIN nodes' -> Nat] /\ DOMAIN nodes' \subseteq Nodes
    BY <1>1, <1>2 DEF IInv, TypeOK, Restrict
  <2>2. edges' \in [DOMAIN edges' -> Edge] /\ DOMAIN edges' \subseteq Edges
    BY <1>1, <1>2 DEF IInv, TypeOK, Restrict
  <2>3. removals' \in Nat
    <3> HIDE DEF goneNodes, goneEdges
    <3>1. RemovalSignal(goneNodes, goneEdges) \in {0, 1}
      BY DEF RemovalSignal
    <3>2. QED
      BY <3>1, <1>1 DEF IInv, TypeOK
  <2>4. nodeOrigins' \in [Nodes -> [Origins -> Nat]]
    BY <1>1, OriginTypes DEF IInv, TypeOK, Aged, NoOrigins
  <2>5. edgeOrigins' \in [Edges -> [Origins -> Nat]]
    BY <1>1, OriginTypes DEF IInv, TypeOK, Aged, NoOrigins
  <2>6. QED
    BY <2>1, <2>2, <2>3, <2>4, <2>5, <1>1 DEF TypeOK, IInv
<1>4. NoDangling'
  BY <1>2 DEF IInv, NoDangling, Incident
<1>5. ParkedWaits'
  BY <1>1, <1>2 DEF IInv, ParkedWaits
<1>6. OriginsHaveElements'
  <2>1. ASSUME NEW n \in Nodes, nodeOrigins'[n] # NoOrigins
        PROVE  n \in DOMAIN nodes'
    <3>1. n \notin goneNodes /\ Aged(nodeOrigins[n], before) # NoOrigins
      BY <2>1, <1>1
    <3>2. nodeOrigins[n] # NoOrigins
      BY <3>1 DEF Aged, NoOrigins
    <3>3. QED
      BY <3>1, <3>2, <1>2 DEF IInv, OriginsHaveElements
  <2>2. ASSUME NEW k \in Edges, edgeOrigins'[k] # NoOrigins
        PROVE  k \in DOMAIN edges' \cup DOMAIN pending'
    <3>1. k \notin goneEdges /\ Aged(edgeOrigins[k], before) # NoOrigins
      BY <2>2, <1>1
    <3>2. edgeOrigins[k] # NoOrigins
      BY <3>1 DEF Aged, NoOrigins
    <3>3. QED
      BY <3>1, <3>2, <1>1, <1>2 DEF IInv, OriginsHaveElements
  <2>3. QED
    BY <2>1, <2>2 DEF OriginsHaveElements
<1>7. pendingSwept' <= now' /\ ParkedWithinTTL'
  BY <1>1 DEF IInv, ParkedWithinTTL
<1>8. QED
  BY <1>3, <1>4, <1>5, <1>6, <1>7 DEF IInv

---------------------------------------------------------------------------
(***************************************************************************)
(* The specification.                                                      *)
(***************************************************************************)

\* Every event the engine applies is a batch write of a well-formed batch.
LEMMA EventIsBatch ==
  ASSUME IInv, NEW shape, IsShape(shape), NEW taken \in Nat, NEW observed \in Nat
  PROVE  LET dropped == shape.nodes \cap Invalid
             kept    == {k \in DOMAIN shape.edges :
                           From[k] \notin dropped /\ To[k] \notin dropped}
         IN IsBatch(shape.origin,
                    IF shape.origin \in Snapshots THEN taken ELSE now,
                    observed,
                    shape.nodes \ dropped,
                    [k \in kept |-> [seen |-> observed, inferred |-> shape.edges[k]]])
<1>1. now \in Nat
  BY DEF IInv, TypeOK
<1>2. QED
  BY <1>1 DEF IsShape, IsBatch, Edge

\* Every step of the store, or none, keeps the invariant.
LEMMA StepPreserves == IInv /\ [Next]_graphVars => IInv'
<1> SUFFICES ASSUME IInv, [Next]_graphVars
             PROVE  IInv'
  OBVIOUS
<1>1. ASSUME NEW s \in Shapes, NEW taken \in 1..now, NEW observed \in 1..now,
             ApplyEvent(s, taken, observed)
      PROVE  IInv'
  <2>1. taken \in Nat /\ observed \in Nat /\ IsShape(s)
    BY GraphAssumption DEF IInv, TypeOK
  <2>2. QED
    BY <1>1, <2>1, EventIsBatch, UpsertPreserves DEF ApplyEvent
<1>2. ASSUME NEW o \in Snapshots, NEW taken \in 1..now, Sweep(o, taken)
      PROVE  IInv'
  <2>1. taken \in Nat /\ o \in Origins
    BY GraphAssumption DEF IInv, TypeOK
  <2>2. QED
    BY <1>2, <2>1, SweepPreserves
<1>3. ASSUME NEW before \in 1..now, Prune(before)
      PROVE  IInv'
  <2>1. before \in Nat
    BY DEF IInv, TypeOK
  <2>2. QED
    BY <1>3, <2>1, PrunePreserves
<1>4. CASE Tick
  BY <1>4 DEF Tick, IInv, TypeOK, NoDangling, ParkedWaits, OriginsHaveElements,
              ParkedWithinTTL
<1>5. CASE UNCHANGED graphVars
  BY <1>5 DEF graphVars, IInv, TypeOK, NoDangling, ParkedWaits, OriginsHaveElements,
              ParkedWithinTTL
<1>6. QED
  BY <1>1, <1>2, <1>3, <1>4, <1>5 DEF Next

\* The invariant holds of the empty store.
LEMMA InitEstablishes == Init => IInv
  BY DEF Init, IInv, TypeOK, NoDangling, ParkedWaits, OriginsHaveElements,
         ParkedWithinTTL, NoOrigins, Edge, Parked

\* The inductive invariant holds in every reachable state of the store.
THEOREM StoreInvariant == Spec => []IInv
  BY InitEstablishes, StepPreserves, PTL DEF Spec

\* The store's variables keep their types under every operation.
THEOREM StoreTypes == Spec => []TypeOK
<1>1. IInv => TypeOK
  BY DEF IInv
<1>2. QED
  BY <1>1, StoreInvariant, PTL

\* No write, sweep or prune ever leaves an edge without one of its ends, and
\* no edge with both ends present is left waiting.
THEOREM EdgesStayInPlace == Spec => []EdgesInPlace
<1>1. IInv => EdgesInPlace
  BY DEF IInv, EdgesInPlace
<1>2. QED
  BY <1>1, StoreInvariant, PTL

\* Whatever leaves the store takes the record of who asserted it along.
THEOREM OriginsFollowElements == Spec => []OriginsHaveElements
<1>1. IInv => OriginsHaveElements
  BY DEF IInv
<1>2. QED
  BY <1>1, StoreInvariant, PTL

\* The expiry check misses no parked edge that was due when it ran.
THEOREM ParkedEdgesExpire == Spec => []ParkedWithinTTL
<1>1. IInv => ParkedWithinTTL
  BY DEF IInv
<1>2. QED
  BY <1>1, StoreInvariant, PTL

\* Edges, provenance and the waiting list are in place at once, in every state
\* (UpsertBatchFrom, Sweep, Prune).
THEOREM EverythingStaysInPlace == Spec => []EverythingInPlace
<1>1. EdgesInPlace /\ OriginsHaveElements /\ ParkedWithinTTL => EverythingInPlace
  BY DEF EverythingInPlace
<1>2. QED
  BY <1>1, EdgesStayInPlace, OriginsFollowElements, ParkedEdgesExpire, PTL

---------------------------------------------------------------------------
(***************************************************************************)
(* What a step may not do.                                                 *)
(***************************************************************************)

\* The edges a step keeps of the ones it found keep being facts.
FactsKept ==
  \A k \in DOMAIN edges \cap DOMAIN edges' :
    ~edges[k].inferred => ~edges'[k].inferred

\* A batch write turns no stored fact into a guess, neither by the parked
\* edges it lands nor by its own.
LEMMA UpsertKeepsFacts ==
  ASSUME IInv,
         NEW o, NEW STATE seen, NEW observed, NEW ns, NEW es,
         IsBatch(o, seen, observed, ns, es),
         UpsertBatchFrom(o, seen, observed, ns, es)
  PROVE  FactsKept
<1> SUFFICES ASSUME NEW k \in DOMAIN edges, ~edges[k].inferred
             PROVE  ~edges'[k].inferred
  BY DEF FactsKept
<1> DEFINE onHold      == DOMAIN pending \ ExpiredPending
           present     == DOMAIN nodes \cup ns
           released    == {j \in onHold : Incident(j, ns) /\ CanLand(j, present)}
           landing     == {j \in DOMAIN es : CanLand(j, present)}
           parkedBatch == [j \in released |-> pending[j].edge]
           afterParked == PutEdges(edges, parkedBatch)
<1>1. edges' = PutEdges(afterParked, Restrict(es, landing))
  BY DEF UpsertBatchFrom
<1>2. parkedBatch \in [DOMAIN parkedBatch -> Edge]
  BY DEF IInv, TypeOK, Parked
<1>3. /\ Restrict(es, landing) \in [DOMAIN Restrict(es, landing) -> Edge]
      /\ edges \in [DOMAIN edges -> Edge]
  BY DEF Restrict, IsBatch, IInv, TypeOK
<1>4. ~afterParked[k].inferred
  BY <1>2, <1>3, PutEdgesKeepsFacts
<1>5. /\ k \in DOMAIN afterParked
      /\ afterParked[k] \in Edge
  <2> HIDE DEF parkedBatch
  <2>1. /\ DOMAIN afterParked = DOMAIN edges \cup DOMAIN parkedBatch
        /\ afterParked \in [DOMAIN edges \cup DOMAIN parkedBatch -> Edge]
    BY <1>2, <1>3, PutEdgesType
  <2>2. QED
    BY <2>1
<1> HIDE DEF afterParked
<1>6. ~PutEdges(afterParked, Restrict(es, landing))[k].inferred
  BY <1>3, <1>4, <1>5, PutEdgesKeepsFacts
<1>7. QED
  BY <1>1, <1>6

\* No write of a guess ever replaces a stated edge in the graph.
THEOREM GuessesNeverReplaceFacts == Spec => FactsStay
<1>1. IInv /\ [Next]_graphVars => [FactsKept]_graphVars
  <2> SUFFICES ASSUME IInv, [Next]_graphVars
               PROVE  FactsKept
    OBVIOUS
  <2>1. ASSUME NEW s \in Shapes, NEW taken \in 1..now, NEW observed \in 1..now,
               ApplyEvent(s, taken, observed)
        PROVE  FactsKept
    <3>1. taken \in Nat /\ observed \in Nat /\ IsShape(s)
      BY GraphAssumption DEF IInv, TypeOK
    <3>2. QED
      BY <2>1, <3>1, EventIsBatch, UpsertKeepsFacts DEF ApplyEvent
  <2>2. ASSUME NEW o \in Snapshots, NEW taken \in 1..now, Sweep(o, taken)
        PROVE  FactsKept
    BY <2>2 DEF Sweep, Restrict, FactsKept
  <2>3. ASSUME NEW before \in 1..now, Prune(before)
        PROVE  FactsKept
    BY <2>3 DEF Prune, Restrict, FactsKept
  <2>4. CASE Tick
    BY <2>4 DEF Tick, FactsKept
  <2>5. CASE UNCHANGED graphVars
    BY <2>5 DEF graphVars, FactsKept
  <2>6. QED
    BY <2>1, <2>2, <2>3, <2>4, <2>5 DEF Next
<1>2. QED
  BY <1>1, StoreInvariant, PTL DEF Spec, FactsStay, FactsKept

\* What was in the graph is still there, or the removal epoch moved.
RemovalSignalled ==
  ~(DOMAIN nodes \subseteq DOMAIN nodes' /\ DOMAIN edges \subseteq DOMAIN edges')
    => removals' > removals

\* A delta reader is told of every removal: no operation of the store takes
\* a node or an edge away without moving the epoch.
THEOREM EveryRemovalMovesTheEpoch == Spec => RemovalsAreSignalled
<1>1. IInv /\ [Next]_graphVars => [RemovalSignalled]_graphVars
  <2> SUFFICES ASSUME IInv, [Next]_graphVars
               PROVE  RemovalSignalled
    OBVIOUS
  <2>1. ASSUME NEW s \in Shapes, NEW taken \in 1..now, NEW observed \in 1..now,
               ApplyEvent(s, taken, observed)
        PROVE  RemovalSignalled
    BY <2>1 DEF ApplyEvent, UpsertBatchFrom, PutEdges, RemovalSignalled
  <2>2. ASSUME NEW o \in Snapshots, NEW taken \in 1..now, Sweep(o, taken)
        PROVE  RemovalSignalled
    <3> DEFINE goneEdges == Retracted(edgeOrigins, o, taken)
               goneNodes == Retracted(nodeOrigins, o, taken) \cap DOMAIN nodes
               kept      == DOMAIN edges \ goneEdges
               detached  == {k \in kept : Incident(k, goneNodes)}
               leaving   == (goneEdges \cap (DOMAIN edges \cup DOMAIN pending))
                              \cup detached
    <3>1. /\ nodes' = Restrict(nodes, DOMAIN nodes \ goneNodes)
          /\ edges' = Restrict(edges, kept \ detached)
          /\ removals' = removals + RemovalSignal(goneNodes, leaving)
      BY <2>2 DEF Sweep
    <3> HIDE DEF goneEdges, goneNodes
    <3>2. CASE goneNodes = {} /\ leaving = {}
      <4>1. DOMAIN edges \subseteq kept \ detached
        BY <3>2
      <4>2. QED
        BY <3>1, <3>2, <4>1 DEF Restrict, RemovalSignalled
    <3>3. CASE ~(goneNodes = {} /\ leaving = {})
      <4>1. RemovalSignal(goneNodes, leaving) = 1
        BY <3>3 DEF RemovalSignal
      <4>2. QED
        BY <3>1, <4>1 DEF RemovalSignalled, IInv, TypeOK
    <3>4. QED
      BY <3>2, <3>3
  <2>3. ASSUME NEW before \in 1..now, Prune(before)
        PROVE  RemovalSignalled
    <3> DEFINE goneNodes == {n \in DOMAIN nodes : Stale(nodes[n], before)}
               goneEdges == {k \in DOMAIN edges :
                               Stale(edges[k].seen, before) \/ Incident(k, goneNodes)}
    <3>1. /\ nodes' = Restrict(nodes, DOMAIN nodes \ goneNodes)
          /\ edges' = Restrict(edges, DOMAIN edges \ goneEdges)
          /\ removals' = removals + RemovalSignal(goneNodes, goneEdges)
      BY <2>3 DEF Prune
    <3> HIDE DEF goneNodes, goneEdges
    <3>2. CASE goneNodes = {} /\ goneEdges = {}
      BY <3>1, <3>2 DEF Restrict, RemovalSignalled
    <3>3. CASE ~(goneNodes = {} /\ goneEdges = {})
      <4>1. RemovalSignal(goneNodes, goneEdges) = 1
        BY <3>3 DEF RemovalSignal
      <4>2. QED
        BY <3>1, <4>1 DEF RemovalSignalled, IInv, TypeOK
    <3>4. QED
      BY <3>2, <3>3
  <2>4. CASE Tick
    BY <2>4 DEF Tick, RemovalSignalled
  <2>5. CASE UNCHANGED graphVars
    BY <2>5 DEF graphVars, RemovalSignalled
  <2>6. QED
    BY <2>1, <2>2, <2>3, <2>4, <2>5 DEF Next
<1>2. QED
  BY <1>1, StoreInvariant, PTL DEF Spec, RemovalsAreSignalled, RemovalSignalled

\* Facts stay facts and removals move the epoch, in every step (FactsStay,
\* RemovalsAreSignalled).
THEOREM WritesAlwaysKeepTheirWord == Spec => WritesKeepTheirWord
BY GuessesNeverReplaceFacts, EveryRemovalMovesTheEpoch, PTL DEF WritesKeepTheirWord

---------------------------------------------------------------------------
(***************************************************************************)
(* Ingestion end to end: what a snapshot lists and no newer one was        *)
(* applied over is in the graph, what a partial observation listed is      *)
(* never retracted, and a sweep removes what its own source and scope      *)
(* asserted.                                                               *)
(***************************************************************************)

\* What an applied event asserts, it asserts since it was taken, if it is a
\* snapshot's, and at some time if it is not.
Since(m) == IF OriginOf(m) \in Snapshots THEN at[m[1]] ELSE 1

\* No newer snapshot of its source and scope was applied over the event.
Stands(m) == OriginOf(m) \in Snapshots => Newest(m)

\* The record of who asserted what still has the assertions of the event.
Recorded(m) ==
  /\ \A n \in NodesListed(m) : nodeOrigins[n][OriginOf(m)] >= Since(m)
  /\ \A k \in EdgesListed(m) : edgeOrigins[k][OriginOf(m)] >= Since(m)

\* A sweep takes an origin's assertions back only if they are older than its
\* snapshot, and only an event of that origin records them anew.
AssertionsStand == ttl = 0 => \A m \in applied : Stands(m) => Recorded(m)

\* What an origin is recorded to assert, an event of it listed.
Asserts(n, o) == \E m \in applied : OriginOf(m) = o /\ n \in NodesListed(m)
Owned == \A n \in Nodes, o \in Origins : nodeOrigins[n][o] # 0 => Asserts(n, o)

\* What was published or swept was taken before, and not after now.
Dated ==
  /\ at \in [Batches -> Nat] /\ now \in Nat /\ now >= 1 /\ ttl \in TTLs
  /\ \A b \in Batches : at[b] <= now
  /\ published \subseteq Messages /\ applied \subseteq published
  /\ \A m \in published : at[m[1]] # 0
  /\ sweeps \in [Batches \X Snapshots -> {0, 1}]
  /\ \A b \in Batches, o \in Snapshots : sweeps[<<b, o>>] # 0 => at[b] # 0

PipelineInv == IInv /\ Dated /\ AssertionsStand /\ Owned

\* A message is of its batch, and has an event of the graph's elements.
LEMMA MessageHasEvent ==
  ASSUME NEW m \in Messages
  PROVE  /\ m[1] \in Batches /\ m \in MessagesOf(m[1])
         /\ m \in DOMAIN ShapeOf
         /\ OriginOf(m) \in Origins
         /\ NodesListed(m) \subseteq Nodes
         /\ EdgesListed(m) \subseteq Edges
<1>1. m \in DOMAIN ShapeOf /\ IsShape(ShapeOf[m])
  BY PipelineAssumption
<1>2. m[1] \in Batches /\ m \in MessagesOf(m[1])
  BY DEF Messages, Bus!Messages, MessagesOf, Bus!MessagesOf
<1>3. QED
  BY <1>1, <1>2 DEF IsShape, OriginOf, NodesListed, EdgesListed

---------------------------------------------------------------------------
(***************************************************************************)
(* What the record of assertions becomes in a step of the store.           *)
(***************************************************************************)

\* Noting an assertion takes none back, dates the one noted, and adds no
\* other (Note).
LEMMA NoteRaises ==
  ASSUME NEW os \in [Origins -> Nat], NEW o \in Origins, NEW t \in Nat, NEW p \in Origins
  PROVE  /\ Note(os, o, t)[p] >= os[p]
         /\ Note(os, o, t)[o] >= t
         /\ p # o => Note(os, o, t)[p] = os[p]
BY DEF Note

\* A sweep takes back its own origin's assertions, of those the older ones
\* (Withdraw).
LEMMA WithdrawSpares ==
  ASSUME NEW os \in [Origins -> Nat], NEW o \in Origins, NEW t \in Nat, NEW p \in Origins
  PROVE  /\ Withdraw(os, o, t)[p] # os[p] => p = o /\ os[p] < t
         /\ Withdraw(os, o, t)[p] # 0 => os[p] # 0
BY DEF Withdraw

\* An event's write takes no assertion back, except of a parked edge whose time
\* is over, and dates every one the event makes (UpsertBatchFrom).
LEMMA EventRecords ==
  ASSUME IInv, NEW m \in Messages, NEW t \in Nat,
         ApplyEvent(ShapeOf[m], t, t)
  PROVE  LET seen == IF OriginOf(m) \in Snapshots THEN t ELSE now
         IN /\ \A n \in Nodes, p \in Origins : nodeOrigins'[n][p] >= nodeOrigins[n][p]
            /\ \A n \in NodesListed(m) : nodeOrigins'[n][OriginOf(m)] >= seen
            /\ \A n \in Nodes, p \in Origins :
                 nodeOrigins'[n][p] # nodeOrigins[n][p] => p = OriginOf(m) /\ n \in NodesListed(m)
            /\ \A k \in Edges \ DOMAIN pending, p \in Origins :
                 edgeOrigins'[k][p] >= edgeOrigins[k][p]
            /\ \A k \in EdgesListed(m) : edgeOrigins'[k][OriginOf(m)] >= seen
<1> DEFINE seen == IF OriginOf(m) \in Snapshots THEN t ELSE now
           dropped == ShapeOf[m].nodes \cap Invalid
           kept == {k \in DOMAIN ShapeOf[m].edges : From[k] \notin dropped /\ To[k] \notin dropped}
           expired == ExpiredPending
<1>1. /\ nodeOrigins' = [n \in Nodes |-> IF n \in ShapeOf[m].nodes \ dropped
                                         THEN Note(nodeOrigins[n], OriginOf(m), seen)
                                         ELSE nodeOrigins[n]]
      /\ edgeOrigins' = [k \in Edges |->
                           LET before == IF k \in expired THEN NoOrigins ELSE edgeOrigins[k]
                           IN IF k \in kept THEN Note(before, OriginOf(m), seen) ELSE before]
  BY DEF ApplyEvent, UpsertBatchFrom, OriginOf
<1>2. seen \in Nat /\ OriginOf(m) \in Origins /\ NodesListed(m) \subseteq Nodes
      /\ EdgesListed(m) \subseteq Edges
  BY MessageHasEvent DEF IInv, TypeOK
<1>3. expired \subseteq DOMAIN pending
  BY DEF ExpiredPending
<1>4. ShapeOf[m].nodes \ dropped = NodesListed(m) /\ EdgesListed(m) \subseteq kept
  BY DEF NodesListed, EdgesListed
<1>5. /\ nodeOrigins \in [Nodes -> [Origins -> Nat]] /\ edgeOrigins \in [Edges -> [Origins -> Nat]]
      /\ NoOrigins \in [Origins -> Nat]
  BY DEF IInv, TypeOK, NoOrigins
<1> HIDE DEF seen, dropped, kept, expired
<1>6. ASSUME NEW n \in Nodes, NEW p \in Origins
      PROVE  /\ nodeOrigins'[n][p] >= nodeOrigins[n][p]
             /\ n \in NodesListed(m) => nodeOrigins'[n][OriginOf(m)] >= seen
             /\ nodeOrigins'[n][p] # nodeOrigins[n][p] => p = OriginOf(m) /\ n \in NodesListed(m)
  <2>1. nodeOrigins[n] \in [Origins -> Nat] /\ nodeOrigins[n][p] \in Nat
    BY <1>5
  <2>2. nodeOrigins'[n] = IF n \in NodesListed(m) THEN Note(nodeOrigins[n], OriginOf(m), seen)
                                                  ELSE nodeOrigins[n]
    BY <1>1, <1>4
  <2>3. QED
    BY <2>1, <2>2, <1>2, NoteRaises
<1>7. ASSUME NEW k \in Edges, NEW p \in Origins
      PROVE  /\ k \notin DOMAIN pending => edgeOrigins'[k][p] >= edgeOrigins[k][p]
             /\ k \in EdgesListed(m) => edgeOrigins'[k][OriginOf(m)] >= seen
  <2> DEFINE before == IF k \in expired THEN NoOrigins ELSE edgeOrigins[k]
  <2>1. before \in [Origins -> Nat] /\ before[p] \in Nat /\ edgeOrigins[k][p] \in Nat
    BY <1>5
  <2>2. edgeOrigins'[k] = IF k \in kept THEN Note(before, OriginOf(m), seen) ELSE before
    BY <1>1
  <2>3. k \notin DOMAIN pending => before = edgeOrigins[k]
    BY <1>3
  <2> HIDE DEF before
  <2>4. QED
    BY <2>1, <2>2, <2>3, <1>2, <1>4, NoteRaises
<1>8. QED
  BY <1>2, <1>6, <1>7 DEF seen

\* What stands is there: the listed elements of an event are in the graph, and
\* its edges do not wait, as long as the record has their assertions (Recorded).
LEMMA RecordedIsThere ==
  ASSUME PipelineInv, NEW m \in applied, Recorded(m)
  PROVE  /\ NodesListed(m) \subseteq DOMAIN nodes
         /\ EdgesListed(m) \subseteq DOMAIN edges
         /\ EdgesListed(m) \cap DOMAIN pending = {}
<1>1. m \in Messages /\ Since(m) \in Nat \ {0}
  BY MessageHasEvent DEF PipelineInv, Dated, Since
<1>2. OriginOf(m) \in Origins /\ NodesListed(m) \subseteq Nodes /\ EdgesListed(m) \subseteq Edges
  BY <1>1, MessageHasEvent
<1>3. /\ \A n \in Nodes : nodeOrigins[n] # NoOrigins => n \in DOMAIN nodes
      /\ \A k \in Edges : edgeOrigins[k] # NoOrigins => k \in DOMAIN edges \cup DOMAIN pending
      /\ \A k \in DOMAIN pending : From[k] \notin DOMAIN nodes \/ To[k] \notin DOMAIN nodes
  BY DEF PipelineInv, IInv, OriginsHaveElements, ParkedWaits
<1>4. NoOrigins[OriginOf(m)] = 0
  BY <1>2 DEF NoOrigins
<1>5. NodesListed(m) \subseteq DOMAIN nodes
  BY <1>1, <1>2, <1>3, <1>4 DEF Recorded
<1>6. \A k \in EdgesListed(m) : k \in DOMAIN edges \cup DOMAIN pending
  BY <1>1, <1>2, <1>3, <1>4 DEF Recorded
<1>7. \A k \in EdgesListed(m) : From[k] \in NodesListed(m) /\ To[k] \in NodesListed(m)
  BY DEF EdgesListed
<1>8. QED
  BY <1>3, <1>5, <1>6, <1>7

---------------------------------------------------------------------------
(***************************************************************************)
(* The steps.                                                              *)
(***************************************************************************)

\* Whether a snapshot stands, and since when it asserts, moves only with the
\* time of its batch, which is settled once.
LEMMA StandsBefore ==
  ASSUME PipelineInv, Dated', NEW m \in applied,
         \A b \in Batches : at[b] # 0 => at'[b] = at[b],
         \A b \in Batches, o \in Snapshots : sweeps[<<b, o>>] # 0 => sweeps'[<<b, o>>] # 0,
         Stands(m)'
  PROVE  Stands(m) /\ Since(m)' = Since(m)
<1>1. m \in Messages /\ m[1] \in Batches /\ at[m[1]] # 0 /\ at'[m[1]] = at[m[1]]
  BY MessageHasEvent DEF PipelineInv, Dated
<1>2. Since(m)' = Since(m)
  BY <1>1 DEF Since, OriginOf
<1>3. ASSUME OriginOf(m) \in Snapshots
      PROVE  Newest(m)
  <2>1. Newest(m)'
    BY <1>3 DEF Stands, OriginOf
  <2>2. DOMAIN sweeps = Batches \X Snapshots /\ DOMAIN sweeps' = Batches \X Snapshots
    BY DEF PipelineInv, Dated
  <2>3. ASSUME NEW b \in Batches, <<b, OriginOf(m)>> \in DOMAIN sweeps,
               sweeps[<<b, OriginOf(m)>>] > 0
        PROVE  at[b] <= at[m[1]]
    <3>1. sweeps[<<b, OriginOf(m)>>] # 0 /\ at[b] # 0
      BY <2>3, <1>3 DEF PipelineInv, Dated
    <3>2. sweeps'[<<b, OriginOf(m)>>] # 0 /\ at'[b] = at[b]
      BY <3>1, <1>3
    <3>3. sweeps'[<<b, OriginOf(m)>>] \in {0, 1}
      BY <1>3 DEF Dated
    <3>4. sweeps'[<<b, OriginOf(m)>>] > 0 /\ <<b, OriginOf(m)>> \in DOMAIN sweeps'
      BY <3>2, <3>3, <2>2, <1>3
    <3>5. at'[b] <= at'[m[1]]
      BY <3>4, <2>1 DEF Newest, OriginOf
    <3>6. QED
      BY <3>2, <3>5, <1>1
  <2>4. QED
    BY <2>3 DEF Newest
<1>4. QED
  BY <1>2, <1>3 DEF Stands

\* Handling a message dates what its event asserts, and takes nothing back
\* from what stands, since that is there (RecordedIsThere).
LEMMA HandleKeeps ==
  ASSUME PipelineInv, NEW m \in Messages, Handle(m)
  PROVE  PipelineInv'
<1>1. /\ m \in published /\ applied' = applied \cup {m}
      /\ published' = published /\ sweeps' = sweeps /\ at' = at /\ ttl' = ttl
      /\ ApplyEvent(ShapeOf[m], at[m[1]], at[m[1]])
  BY DEF Handle, Bus!Apply, Taken
<1>2. /\ m[1] \in Batches /\ m \in DOMAIN ShapeOf /\ OriginOf(m) \in Origins
      /\ at[m[1]] \in 1..now /\ at[m[1]] \in Nat
  BY <1>1, MessageHasEvent DEF PipelineInv, Dated
<1>3. now' = now
  BY <1>1 DEF ApplyEvent, UpsertBatchFrom
<1>4. IInv'
  <2>1. IsShape(ShapeOf[m])
    BY <1>2, PipelineAssumption
  <2>2. QED
    BY <1>1, <1>2, <2>1, EventIsBatch, UpsertPreserves DEF ApplyEvent, PipelineInv
<1>5. Dated'
  BY <1>1, <1>3 DEF PipelineInv, Dated
<1> DEFINE seen == IF OriginOf(m) \in Snapshots THEN at[m[1]] ELSE now
<1>6. /\ \A n \in Nodes, p \in Origins : nodeOrigins'[n][p] >= nodeOrigins[n][p]
      /\ \A n \in NodesListed(m) : nodeOrigins'[n][OriginOf(m)] >= seen
      /\ \A n \in Nodes, p \in Origins :
           nodeOrigins'[n][p] # nodeOrigins[n][p] => p = OriginOf(m) /\ n \in NodesListed(m)
      /\ \A k \in Edges \ DOMAIN pending, p \in Origins : edgeOrigins'[k][p] >= edgeOrigins[k][p]
      /\ \A k \in EdgesListed(m) : edgeOrigins'[k][OriginOf(m)] >= seen
  BY <1>1, <1>2, EventRecords DEF PipelineInv
<1>7. /\ nodeOrigins \in [Nodes -> [Origins -> Nat]] /\ nodeOrigins' \in [Nodes -> [Origins -> Nat]]
      /\ edgeOrigins \in [Edges -> [Origins -> Nat]] /\ edgeOrigins' \in [Edges -> [Origins -> Nat]]
  BY <1>4 DEF PipelineInv, IInv, TypeOK
<1>8. AssertionsStand'
  <2> SUFFICES ASSUME ttl' = 0, NEW p \in applied', Stands(p)'
               PROVE  Recorded(p)'
    BY DEF AssertionsStand
  <2>1. CASE p = m
    <3>1. Since(m)' <= seen /\ Since(m)' \in Nat /\ seen \in Nat
      BY <1>1, <1>2 DEF Since, OriginOf, PipelineInv, Dated
    <3>2. NodesListed(m) \subseteq Nodes /\ EdgesListed(m) \subseteq Edges
      BY MessageHasEvent
    <3> HIDE DEF seen
    <3>3. /\ \A n \in NodesListed(m) : nodeOrigins'[n][OriginOf(m)] >= Since(m)'
          /\ \A k \in EdgesListed(m) : edgeOrigins'[k][OriginOf(m)] >= Since(m)'
      BY <1>2, <1>6, <1>7, <3>1, <3>2
    <3>4. QED
      BY <2>1, <3>3 DEF Recorded, NodesListed, EdgesListed, OriginOf
  <2>2. CASE p \in applied
    <3>1. Stands(p) /\ Since(p)' = Since(p)
      BY <2>2, <1>1, <1>5, StandsBefore
    <3>2. Recorded(p)
      BY <2>2, <3>1, <1>1 DEF PipelineInv, AssertionsStand
    <3>3. EdgesListed(p) \cap DOMAIN pending = {}
      BY <2>2, <3>2, RecordedIsThere
    <3>4. /\ p \in Messages /\ OriginOf(p) \in Origins /\ NodesListed(p) \subseteq Nodes
          /\ EdgesListed(p) \subseteq Edges /\ Since(p) \in Nat
      BY <2>2, MessageHasEvent DEF PipelineInv, Dated, Since
    <3>5. /\ \A n \in NodesListed(p) : nodeOrigins'[n][OriginOf(p)] >= Since(p)'
          /\ \A k \in EdgesListed(p) : edgeOrigins'[k][OriginOf(p)] >= Since(p)'
      BY <1>6, <1>7, <3>1, <3>2, <3>3, <3>4 DEF Recorded
    <3>6. QED
      BY <3>5 DEF Recorded, NodesListed, EdgesListed, OriginOf
  <2>3. QED
    BY <2>1, <2>2, <1>1
<1>9. Owned'
  <2> SUFFICES ASSUME NEW n \in Nodes, NEW o \in Origins, nodeOrigins'[n][o] # 0
               PROVE  Asserts(n, o)'
    BY DEF Owned
  <2>1. CASE nodeOrigins'[n][o] # nodeOrigins[n][o]
    BY <2>1, <1>1, <1>6 DEF Asserts, OriginOf, NodesListed
  <2>2. CASE nodeOrigins'[n][o] = nodeOrigins[n][o]
    <3>1. Asserts(n, o)
      BY <2>2 DEF PipelineInv, Owned
    <3>2. QED
      BY <3>1, <1>1 DEF Asserts, OriginOf, NodesListed
  <2>3. QED
    BY <2>1, <2>2
<1>10. QED
  BY <1>4, <1>5, <1>8, <1>9 DEF PipelineInv

\* A sweep takes back only what an older snapshot of its own scope asserted:
\* what stands asserted it at the sweep's time or later.
LEMMA SweepKeeps ==
  ASSUME PipelineInv, NEW b \in Batches, NEW o \in Snapshots, SweepBatch(b, o)
  PROVE  PipelineInv'
<1>1. /\ MessagesOf(b) # {} /\ MessagesOf(b) \subseteq applied /\ sweeps[<<b, o>>] = 0
      /\ sweeps' = [sweeps EXCEPT ![<<b, o>>] = 1]
      /\ published' = published /\ applied' = applied /\ at' = at /\ ttl' = ttl
      /\ Sweep(o, at[b])
  BY DEF SweepBatch, Bus!Retract, Taken, MessagesOf
<1>2. o \in Origins /\ at[b] \in 1..now /\ at[b] \in Nat
  <2>1. PICK m \in MessagesOf(b) : m \in applied
    BY <1>1
  <2>2. m[1] = b
    BY DEF MessagesOf, Bus!MessagesOf
  <2>3. QED
    BY <2>1, <2>2, GraphAssumption DEF PipelineInv, Dated
<1>3. now' = now
  BY <1>1 DEF Sweep
<1>4. IInv'
  BY <1>1, <1>2, SweepPreserves DEF PipelineInv
<1>5. Dated'
  <2>1. sweeps' \in [Batches \X Snapshots -> {0, 1}]
    BY <1>1 DEF PipelineInv, Dated
  <2>2. ASSUME NEW c \in Batches, NEW p \in Snapshots, sweeps'[<<c, p>>] # 0
        PROVE  at[c] # 0
    <3>1. CASE c = b
      BY <3>1, <1>2
    <3>2. CASE c # b
      <4>1. sweeps'[<<c, p>>] = sweeps[<<c, p>>]
        BY <3>2, <1>1 DEF PipelineInv, Dated
      <4>2. QED
        BY <4>1, <2>2 DEF PipelineInv, Dated
    <3>3. QED
      BY <3>1, <3>2
  <2>3. QED
    BY <1>1, <1>3, <2>1, <2>2 DEF PipelineInv, Dated
<1>6. /\ nodeOrigins' = [n \in Nodes |-> Withdraw(nodeOrigins[n], o, at[b])]
      /\ edgeOrigins' = [k \in Edges |-> Withdraw(edgeOrigins[k], o, at[b])]
      /\ nodeOrigins \in [Nodes -> [Origins -> Nat]] /\ edgeOrigins \in [Edges -> [Origins -> Nat]]
  BY <1>1 DEF Sweep, PipelineInv, IInv, TypeOK
<1>7. ASSUME NEW p \in Origins
      PROVE  /\ \A n \in Nodes : nodeOrigins'[n][p] # nodeOrigins[n][p]
                                   => p = o /\ nodeOrigins[n][p] < at[b]
             /\ \A k \in Edges : edgeOrigins'[k][p] # edgeOrigins[k][p]
                                   => p = o /\ edgeOrigins[k][p] < at[b]
             /\ \A n \in Nodes : nodeOrigins'[n][p] # 0 => nodeOrigins[n][p] # 0
  <2>1. ASSUME NEW n \in Nodes
        PROVE  /\ nodeOrigins'[n][p] # nodeOrigins[n][p] => p = o /\ nodeOrigins[n][p] < at[b]
               /\ nodeOrigins'[n][p] # 0 => nodeOrigins[n][p] # 0
    <3>1. nodeOrigins[n] \in [Origins -> Nat]
             /\ nodeOrigins'[n] = Withdraw(nodeOrigins[n], o, at[b])
      BY <1>6
    <3>2. QED
      BY <3>1, <1>2, WithdrawSpares
  <2>2. ASSUME NEW k \in Edges
        PROVE  edgeOrigins'[k][p] # edgeOrigins[k][p] => p = o /\ edgeOrigins[k][p] < at[b]
    <3>1. edgeOrigins[k] \in [Origins -> Nat]
             /\ edgeOrigins'[k] = Withdraw(edgeOrigins[k], o, at[b])
      BY <1>6
    <3>2. QED
      BY <3>1, <1>2, WithdrawSpares
  <2>3. QED
    BY <2>1, <2>2
<1>8. AssertionsStand'
  <2> SUFFICES ASSUME ttl' = 0, NEW m \in applied, Stands(m)'
               PROVE  Recorded(m)'
    BY <1>1 DEF AssertionsStand
  <2>1. \A c \in Batches, p \in Snapshots : sweeps[<<c, p>>] # 0 => sweeps'[<<c, p>>] # 0
    BY <1>1 DEF PipelineInv, Dated
  <2>2. Stands(m) /\ Since(m)' = Since(m)
    BY <1>1, <1>5, <2>1, StandsBefore
  <2>3. Recorded(m)
    BY <2>2, <1>1 DEF PipelineInv, AssertionsStand
  <2>4. /\ m \in Messages /\ OriginOf(m) \in Origins /\ NodesListed(m) \subseteq Nodes
        /\ EdgesListed(m) \subseteq Edges /\ Since(m) \in Nat
    BY MessageHasEvent DEF PipelineInv, Dated, Since
  \* The sweep's own snapshot counts among the newer ones from now on.
  <2>5. OriginOf(m) = o => at[b] <= Since(m)
    <3> SUFFICES ASSUME OriginOf(m) = o
                 PROVE  at[b] <= Since(m)
      OBVIOUS
    <3>1. Newest(m)'
      BY DEF Stands, OriginOf
    <3>2. sweeps'[<<b, o>>] = 1 /\ <<b, o>> \in DOMAIN sweeps'
      BY <1>1 DEF PipelineInv, Dated
    <3>3. at[b] <= at[m[1]]
      BY <3>1, <3>2, <1>1 DEF Newest, OriginOf
    <3>4. QED
      BY <3>3 DEF Since
  <2>6. /\ \A n \in NodesListed(m) : nodeOrigins'[n][OriginOf(m)] >= Since(m)'
        /\ \A k \in EdgesListed(m) : edgeOrigins'[k][OriginOf(m)] >= Since(m)'
    <3>1. ASSUME NEW n \in NodesListed(m)
          PROVE  nodeOrigins'[n][OriginOf(m)] >= Since(m)
      <4>1. nodeOrigins[n][OriginOf(m)] >= Since(m) /\ nodeOrigins[n][OriginOf(m)] \in Nat
        BY <2>3, <2>4, <1>6 DEF Recorded
      <4>2. nodeOrigins'[n][OriginOf(m)] = nodeOrigins[n][OriginOf(m)]
        BY <4>1, <1>7, <1>2, <2>4, <2>5
      <4>3. QED
        BY <4>1, <4>2
    <3>2. ASSUME NEW k \in EdgesListed(m)
          PROVE  edgeOrigins'[k][OriginOf(m)] >= Since(m)
      <4>1. edgeOrigins[k][OriginOf(m)] >= Since(m) /\ edgeOrigins[k][OriginOf(m)] \in Nat
        BY <2>3, <2>4, <1>6 DEF Recorded
      <4>2. edgeOrigins'[k][OriginOf(m)] = edgeOrigins[k][OriginOf(m)]
        BY <4>1, <1>7, <1>2, <2>4, <2>5
      <4>3. QED
        BY <4>1, <4>2
    <3>3. QED
      BY <3>1, <3>2, <2>2
  <2>7. QED
    BY <2>6 DEF Recorded, NodesListed, EdgesListed, OriginOf
<1>9. Owned'
  <2> SUFFICES ASSUME NEW n \in Nodes, NEW p \in Origins, nodeOrigins'[n][p] # 0
               PROVE  Asserts(n, p)'
    BY DEF Owned
  <2>1. Asserts(n, p)
    BY <1>7 DEF PipelineInv, Owned
  <2>2. QED
    BY <2>1, <1>1 DEF Asserts, OriginOf, NodesListed
<1>10. QED
  BY <1>4, <1>5, <1>8, <1>9 DEF PipelineInv
\* A step that leaves the record of assertions alone, and the batches that were
\* applied or swept as they are, keeps what was recorded.
LEMMA RecordKept ==
  ASSUME PipelineInv, Dated', IInv',
         nodeOrigins' = nodeOrigins, edgeOrigins' = edgeOrigins,
         applied' = applied, sweeps' = sweeps, ttl' = ttl,
         \A b \in Batches : at[b] # 0 => at'[b] = at[b]
  PROVE  PipelineInv'
<1>1. AssertionsStand'
  <2> SUFFICES ASSUME ttl' = 0, NEW m \in applied, Stands(m)'
               PROVE  Recorded(m)'
    BY DEF AssertionsStand
  <2>1. Stands(m) /\ Since(m)' = Since(m)
    BY StandsBefore
  <2>2. Recorded(m)
    BY <2>1 DEF PipelineInv, AssertionsStand
  <2>3. QED
    BY <2>1, <2>2 DEF Recorded, NodesListed, EdgesListed, OriginOf
<1>2. Owned'
  BY DEF PipelineInv, Owned, Asserts, NodesListed, OriginOf
<1>3. QED
  BY <1>1, <1>2 DEF PipelineInv

\* A batch that is taken now has no message on the bus and was not swept.
LEMMA IngestKeeps ==
  ASSUME PipelineInv, NEW b \in Batches, Ingest(b)
  PROVE  PipelineInv'
<1>1. /\ at[b] = 0 /\ at' = [at EXCEPT ![b] = now] /\ UNCHANGED <<graphVars, busVars, ttl>>
  BY DEF Ingest
<1>2. IInv'
  <2>1. UNCHANGED graphVars
    BY <1>1 DEF graphVars
  <2>2. QED
    BY <2>1, StepPreserves DEF PipelineInv
<1>3. \A c \in Batches : at'[c] = IF c = b THEN now ELSE at[c]
  BY <1>1 DEF PipelineInv, Dated
<1>4. Dated'
  <2>1. \A m \in published : m[1] \in Batches
    BY MessageHasEvent DEF PipelineInv, Dated
  <2>2. QED
    BY <1>1, <1>3, <2>1 DEF PipelineInv, Dated, graphVars, busVars
<1>5. QED
  BY <1>1, <1>2, <1>3, <1>4, RecordKept DEF graphVars, busVars

\* A message reaches the bus after its batch was taken.
LEMMA PublishKeeps ==
  ASSUME PipelineInv, NEW m \in Messages, Publish(m)
  PROVE  PipelineInv'
<1>1. /\ at[m[1]] # 0 /\ published' = published \cup {m}
      /\ UNCHANGED <<applied, sweeps, graphVars, at, ttl>>
  BY DEF Publish, Bus!Publish
<1>2. IInv'
  <2>1. UNCHANGED graphVars
    BY <1>1 DEF graphVars
  <2>2. QED
    BY <2>1, StepPreserves DEF PipelineInv
<1>3. Dated'
  BY <1>1 DEF PipelineInv, Dated, graphVars
<1>4. QED
  BY <1>1, <1>2, <1>3, RecordKept DEF graphVars

\* A prune happens only while pruning is on; it takes assertions back, and adds none.
LEMMA PruneKeeps ==
  ASSUME PipelineInv, PruneByTTL
  PROVE  PipelineInv'
<1>1. /\ ttl > 0 /\ UNCHANGED <<busVars, at, ttl>> /\ Prune(now - ttl)
  BY DEF PruneByTTL
<1>2. now - ttl \in Int /\ ttl \in Nat
  BY PipelineAssumption, SMT DEF PipelineInv, Dated, IInv, TypeOK
<1>3. IInv'
  BY <1>1, <1>2, PrunePreserves DEF PipelineInv
<1>4. now' = now
  BY <1>1 DEF Prune
<1>5. Dated'
  BY <1>1, <1>4 DEF PipelineInv, Dated, busVars
<1>6. AssertionsStand'
  BY <1>1, <1>2 DEF AssertionsStand
<1>7. Owned'
  <2> SUFFICES ASSUME NEW n \in Nodes, NEW o \in Origins, nodeOrigins'[n][o] # 0
               PROVE  Asserts(n, o)'
    BY DEF Owned
  <2>1. nodeOrigins[n][o] # 0
    BY <1>1 DEF Prune, Aged, NoOrigins
  <2>2. Asserts(n, o)
    BY <2>1 DEF PipelineInv, Owned
  <2>3. QED
    BY <2>2, <1>1 DEF Asserts, OriginOf, NodesListed, busVars
<1>8. QED
  BY <1>3, <1>5, <1>6, <1>7 DEF PipelineInv

\* Every step of the pipeline, or none, keeps the invariant.
LEMMA PipelineSteps == PipelineInv /\ [PipelineNext]_pipelineVars => PipelineInv'
<1> SUFFICES ASSUME PipelineInv, [PipelineNext]_pipelineVars
             PROVE  PipelineInv'
  OBVIOUS
<1>1. CASE PipelineTick
  <2>1. Tick /\ UNCHANGED <<busVars, at, ttl>>
    BY <1>1 DEF PipelineTick
  <2>2. IInv'
    BY <2>1, StepPreserves DEF PipelineInv, Next
  <2>3. Dated'
    BY <2>1 DEF Tick, PipelineInv, Dated, busVars
  <2>4. QED
    BY <2>1, <2>2, <2>3, RecordKept DEF Tick, busVars
<1>2. CASE UNCHANGED pipelineVars
  <2>1. UNCHANGED graphVars
    BY <1>2 DEF pipelineVars, graphVars
  <2>2. IInv'
    BY <2>1, StepPreserves DEF PipelineInv
  <2>3. Dated'
    BY <1>2 DEF pipelineVars, graphVars, busVars, PipelineInv, Dated
  <2>4. QED
    BY <1>2, <2>2, <2>3, RecordKept DEF pipelineVars, graphVars, busVars
<1>3. QED
  BY <1>1, <1>2, IngestKeeps, PublishKeeps, HandleKeeps, SweepKeeps, PruneKeeps DEF PipelineNext

\* Nothing was taken, published, swept or asserted at the start.
LEMMA PipelineStarts == PipelineInit => PipelineInv
<1> SUFFICES ASSUME PipelineInit
             PROVE  PipelineInv
  OBVIOUS
<1>1. Init
  BY DEF PipelineInit
<1>2. IInv
  BY <1>1, InitEstablishes
<1>3. Dated
  BY <1>1 DEF PipelineInit, Init, Bus!Init, Dated
<1>4. AssertionsStand
  BY DEF PipelineInit, Bus!Init, AssertionsStand
<1>5. Owned
  BY <1>1 DEF Init, NoOrigins, Owned
<1>6. QED
  BY <1>2, <1>3, <1>4, <1>5 DEF PipelineInv

---------------------------------------------------------------------------
(***************************************************************************)
(* The theorems.                                                           *)
(***************************************************************************)

\* The pipeline's inductive invariant holds in every reachable state.
THEOREM PipelineInvariant == PipelineSpec => []PipelineInv
  BY PipelineStarts, PipelineSteps, PTL DEF PipelineSpec

\* What a snapshot lists and no newer one was applied over is in the graph, and
\* what a partial observation listed stays there, in whatever order messages and
\* sweeps come and however often one is redelivered (Handle, Sweep).
THEOREM ListedAlwaysStands == PipelineSpec => []ListedStands
<1>1. PipelineInv => ListedStands
  <2> SUFFICES ASSUME PipelineInv, ttl = 0, NEW m \in applied, Stands(m)
               PROVE  NodesListed(m) \subseteq DOMAIN nodes /\ EdgesListed(m) \subseteq DOMAIN edges
    BY DEF ListedStands, NewestSnapshotStands, PartialNeverRetracted, Stands
  <2>1. Recorded(m)
    BY DEF PipelineInv, AssertionsStand
  <2>2. QED
    BY <2>1, RecordedIsThere
<1>2. QED
  BY <1>1, PipelineInvariant, PTL

\* A sweep removes a node only if its own source and scope asserted it before:
\* whose record the node leaves with is the sweep's (Sweep).
LEMMA SweepRemovesItsOwn ==
  ASSUME PipelineInv, [PipelineNext]_pipelineVars,
         NEW b \in Batches, NEW o \in Snapshots, sweeps'[<<b, o>>] # sweeps[<<b, o>>],
         NEW n \in DOMAIN nodes \ DOMAIN nodes'
  PROVE  Asserts(n, o)
<1>1. PICK c \in Batches, p \in Snapshots : SweepBatch(c, p)
  BY DEF PipelineNext, pipelineVars, busVars, PipelineTick, PruneByTTL, Handle, Publish, Ingest, Bus!Publish, Bus!Apply
<1>2. /\ sweeps' = [sweeps EXCEPT ![<<c, p>>] = 1] /\ Sweep(p, at[c])
  BY <1>1 DEF SweepBatch, Bus!Retract, Taken
<1>3. p = o
  <2>1. <<b, o>> \in DOMAIN sweeps /\ <<c, p>> \in DOMAIN sweeps
    BY DEF PipelineInv, Dated
  <2>2. QED
    BY <1>2, <2>1
<1>4. nodeOrigins[n][p] # 0
  BY <1>2 DEF Sweep, Retracted, Restrict
<1>5. n \in Nodes /\ o \in Origins
  BY GraphAssumption DEF PipelineInv, IInv, TypeOK
<1>6. QED
  BY <1>3, <1>4, <1>5 DEF PipelineInv, Owned

\* A retraction is by the asserter (Normalizer.Sweep, Retract).
THEOREM RetractionsAreByTheAsserter == PipelineSpec => RetractedByItsAsserter
<1> DEFINE Own == \A b \in Batches, o \in Snapshots :
                    sweeps'[<<b, o>>] # sweeps[<<b, o>>] =>
                      \A n \in DOMAIN nodes \ DOMAIN nodes' :
                        \E m \in applied : OriginOf(m) = o /\ n \in NodesListed(m)
<1>1. PipelineInv /\ [PipelineNext]_pipelineVars => [Own]_pipelineVars
  BY SweepRemovesItsOwn DEF Asserts
<1>2. QED
  BY <1>1, PipelineInvariant, PTL DEF PipelineSpec, RetractedByItsAsserter

---------------------------------------------------------------------------
(***************************************************************************)
(* The store in tables.  A row says who asserted an element and when last; *)
(* read as maps, the rows are what the memory store keeps.                 *)
(***************************************************************************)

Keys == {NodeKey(n) : n \in Nodes} \cup {EdgeKey(k) : k \in Edges}
Row == [of : Keys, by : Origins, at : Nat \ {0}]

\* The table's primary key: one row for an element and an origin.
Rows(rows) ==
  /\ rows \subseteq Row
  /\ \A p, q \in rows : p.of = q.of /\ p.by = q.by => p = q

\* The rows of an element, of the nodes and of the edges, as maps.
Times(rows, x) == [p \in Origins |-> SeenAt(rows, x, p)]
NodeRows(rows) == [n \in Nodes |-> Times(rows, NodeKey(n))]
EdgeRows(rows) == [k \in Edges |-> Times(rows, EdgeKey(k))]

AgeTypes ==
  /\ now \in Nat /\ now >= 1
  /\ DOMAIN vertices \subseteq Nodes /\ vertices \in [DOMAIN vertices -> Nat]
  /\ DOMAIN relationships \subseteq Edges /\ relationships \in [DOMAIN relationships -> Edge]
  /\ DOMAIN waiting \subseteq Edges /\ waiting \in [DOMAIN waiting -> Parked]
  /\ looked \in Nat /\ looked <= now
  /\ epoch \in Nat
  /\ Rows(provenance)

\* An edge is in the graph with both its ends or waits for one, and so never
\* both: what a prune leaves in the graph does not wait.
TablesInPlace ==
  /\ \A k \in DOMAIN relationships : From[k] \in DOMAIN vertices /\ To[k] \in DOMAIN vertices
  /\ \A k \in DOMAIN waiting : From[k] \notin DOMAIN vertices \/ To[k] \notin DOMAIN vertices

AgeInv == AgeTypes /\ TablesInPlace

\* The larger of two is the greatest of them (Max).
LEMMA GreatestOfTwo ==
  ASSUME NEW a \in Int, NEW b \in Int
  PROVE  Max({a, b}) = IF a >= b THEN a ELSE b
<1> DEFINE g == IF a >= b THEN a ELSE b
<1>1. g \in {a, b} /\ \A y \in {a, b} : g >= y
  OBVIOUS
<1>2. \A x \in {a, b} : (\A y \in {a, b} : x >= y) => x = g
  OBVIOUS
<1>3. QED
  BY <1>1, <1>2 DEF Max

\* The key of a node is not that of another, nor of an edge (NodeKey, EdgeKey).
LEMMA KeysDiffer ==
  /\ \A m, n : NodeKey(m) = NodeKey(n) => m = n
  /\ \A j, k : EdgeKey(j) = EdgeKey(k) => j = k
  /\ \A n, k : NodeKey(n) # EdgeKey(k)
BY DEF NodeKey, EdgeKey

\* The time of an element's assertion is that of its row, and 0 without one
\* (SeenAt).
LEMMA SeenAtRow ==
  ASSUME NEW rows, Rows(rows), NEW x, NEW o
  PROVE  /\ \A r \in rows : r.of = x /\ r.by = o => SeenAt(rows, x, o) = r.at
         /\ (\A r \in rows : r.of # x \/ r.by # o) => SeenAt(rows, x, o) = 0
         /\ SeenAt(rows, x, o) \in Nat
         /\ SeenAt(rows, x, o) # 0
              => \E r \in rows : r.of = x /\ r.by = o /\ r.at = SeenAt(rows, x, o)
<1> DEFINE mine == {q \in rows : q.of = x /\ q.by = o}
<1>1. CASE mine = {}
  <2>1. {0} \cup {r.at : r \in mine} = {0, 0}
    BY <1>1
  <2>2. SeenAt(rows, x, o) = 0
    BY <2>1, GreatestOfTwo DEF SeenAt
  <2>3. QED
    BY <1>1, <2>2
<1>2. ASSUME NEW r \in mine
      PROVE  SeenAt(rows, x, o) = r.at /\ r.at \in Nat \ {0} /\ \A q \in mine : q = r
  <2>1. \A q \in mine : q = r
    BY DEF Rows
  <2>2. r.at \in Nat \ {0}
    BY DEF Rows, Row
  <2>3. {0} \cup {q.at : q \in mine} = {0, r.at}
    BY <2>1
  <2>4. Max({0, r.at}) = r.at
    BY <2>2, GreatestOfTwo
  <2>5. QED
    BY <2>1, <2>2, <2>3, <2>4 DEF SeenAt
<1>3. QED
  BY <1>1, <1>2

\* The maps of the rows are maps of times (NodeRows, EdgeRows).
LEMMA RowMaps ==
  ASSUME NEW rows, Rows(rows)
  PROVE  /\ NodeRows(rows) \in [Nodes -> [Origins -> Nat]]
         /\ EdgeRows(rows) \in [Edges -> [Origins -> Nat]]
BY SeenAtRow DEF NodeRows, EdgeRows, Times

\* Rows that go take their assertions with them, and no others.
LEMMA RowsThatStay ==
  ASSUME NEW rows, Rows(rows), NEW kept \in SUBSET rows
  PROVE  /\ Rows(kept)
         /\ \A x, p : SeenAt(kept, x, p) = IF \E r \in kept : r.of = x /\ r.by = p
                                           THEN SeenAt(rows, x, p) ELSE 0
<1>1. Rows(kept)
  BY DEF Rows
<1>2. ASSUME NEW x, NEW p
      PROVE  SeenAt(kept, x, p) = IF \E r \in kept : r.of = x /\ r.by = p
                                  THEN SeenAt(rows, x, p) ELSE 0
  <2>1. CASE \E r \in kept : r.of = x /\ r.by = p
    <3>1. PICK r \in kept : r.of = x /\ r.by = p
      BY <2>1
    <3>2. SeenAt(kept, x, p) = r.at
      BY <1>1, <3>1, SeenAtRow
    <3>3. SeenAt(rows, x, p) = r.at
      BY <3>1, SeenAtRow
    <3>4. QED
      BY <2>1, <3>2, <3>3
  <2>2. CASE \A r \in kept : r.of # x \/ r.by # p
    BY <1>1, <2>2, SeenAtRow
  <2>3. QED
    BY <2>1, <2>2
<1>3. QED
  BY <1>1, <1>2

\* An assertion that is inserted is dated, unless a later one is there already;
\* the others are as they were (InsertOrigins).
LEMMA RowsInserted ==
  ASSUME NEW rows, Rows(rows), NEW xs \in SUBSET Keys, NEW o \in Origins, NEW seen \in Nat \ {0}
  PROVE  /\ Rows(InsertOrigins(rows, xs, o, seen))
         /\ \A x, p : SeenAt(InsertOrigins(rows, xs, o, seen), x, p)
                        = IF x \in xs /\ p = o
                          THEN IF seen > SeenAt(rows, x, o) THEN seen ELSE SeenAt(rows, x, o)
                          ELSE SeenAt(rows, x, p)
<1> DEFINE old == {r \in rows : r.of \notin xs \/ r.by # o}
           Later(x) == IF seen > SeenAt(rows, x, o) THEN seen ELSE SeenAt(rows, x, o)
           new == old \cup {[of |-> x, by |-> o, at |-> Later(x)] : x \in xs}
<1>1. \A x : SeenAt(rows, x, o) \in Nat
  BY SeenAtRow
<1>2. \A x : Max({seen, SeenAt(rows, x, o)}) = Later(x)
  BY <1>1, GreatestOfTwo
<1>3. InsertOrigins(rows, xs, o, seen) = new
  BY <1>2 DEF InsertOrigins
<1>4. \A x : Later(x) \in Nat \ {0}
  BY <1>1
<1> HIDE DEF Later
<1>5. new \subseteq Row
  BY <1>4 DEF Rows, Row
<1>6. \A p, q \in new : p.of = q.of /\ p.by = q.by => p = q
  BY DEF Rows
<1>7. Rows(new)
  BY <1>5, <1>6 DEF Rows
<1>8. ASSUME NEW x, NEW p
      PROVE  SeenAt(new, x, p) = IF x \in xs /\ p = o THEN Later(x) ELSE SeenAt(rows, x, p)
  <2>1. CASE x \in xs /\ p = o
    <3> DEFINE r == [of |-> x, by |-> o, at |-> Later(x)]
    <3>1. r \in new /\ r.of = x /\ r.by = p /\ r.at = Later(x)
      BY <2>1
    <3> HIDE DEF new, r
    <3>2. SeenAt(new, x, p) = Later(x)
      BY <1>7, <3>1, SeenAtRow
    <3>3. QED
      BY <2>1, <3>2
  <2>2. CASE ~(x \in xs /\ p = o)
    <3>1. CASE \E r \in rows : r.of = x /\ r.by = p
      <4>1. PICK r \in rows : r.of = x /\ r.by = p
        BY <3>1
      <4>2. r \in new
        BY <4>1, <2>2
      <4> HIDE DEF new
      <4>3. SeenAt(new, x, p) = r.at /\ SeenAt(rows, x, p) = r.at
        BY <1>7, <4>1, <4>2, SeenAtRow
      <4>4. QED
        BY <2>2, <4>3
    <3>2. CASE \A r \in rows : r.of # x \/ r.by # p
      <4>1. \A r \in new : r.of # x \/ r.by # p
        BY <3>2, <2>2
      <4> HIDE DEF new
      <4>2. SeenAt(new, x, p) = 0 /\ SeenAt(rows, x, p) = 0
        BY <1>7, <4>1, <3>2, SeenAtRow
      <4>3. QED
        BY <2>2, <4>2
    <3>3. QED
      BY <3>1, <3>2
  <2>3. QED
    BY <2>1, <2>2
<1>9. QED
  BY <1>3, <1>7, <1>8 DEF Later

\* What is inserted is noted in the maps (Note).
LEMMA InsertedIsNoted ==
  ASSUME NEW rows, Rows(rows), NEW xs \in SUBSET Keys, NEW o \in Origins, NEW seen \in Nat \ {0}
  PROVE  \A x : Times(InsertOrigins(rows, xs, o, seen), x)
                 = IF x \in xs THEN Note(Times(rows, x), o, seen) ELSE Times(rows, x)
<1> DEFINE new == InsertOrigins(rows, xs, o, seen)
<1>1. ASSUME NEW x
      PROVE  Times(new, x) = IF x \in xs THEN Note(Times(rows, x), o, seen) ELSE Times(rows, x)
  <2>1. \A p : SeenAt(new, x, p) = IF x \in xs /\ p = o
                                   THEN IF seen > SeenAt(rows, x, o) THEN seen ELSE SeenAt(rows, x, o)
                                   ELSE SeenAt(rows, x, p)
    BY RowsInserted
  <2> HIDE DEF new
  <2>2. CASE x \in xs /\ seen > Times(rows, x)[o]
    <3>1. Note(Times(rows, x), o, seen) = [p \in Origins |-> IF p = o THEN seen ELSE SeenAt(rows, x, p)]
      BY <2>2 DEF Note, Times
    <3>2. Times(new, x) = [p \in Origins |-> IF p = o THEN seen ELSE SeenAt(rows, x, p)]
      BY <2>1, <2>2 DEF Times
    <3>3. QED
      BY <2>2, <3>1, <3>2
  <2>3. CASE x \in xs /\ ~(seen > Times(rows, x)[o])
    BY <2>1, <2>3 DEF Note, Times
  <2>4. CASE x \notin xs
    BY <2>1, <2>4 DEF Times
  <2>5. QED
    BY <2>2, <2>3, <2>4
<1>2. QED
  BY <1>1

---------------------------------------------------------------------------
(***************************************************************************)
(* Its sweep is the memory store's.                                        *)
(***************************************************************************)

\* The rows a sweep leaves, as a map, are the map withdrawn from (Omitted,
\* Withdraw).
LEMMA OmittedAreWithdrawn ==
  ASSUME Rows(provenance), NEW o \in Origins, NEW taken \in Nat, NEW x
  PROVE  LET left == provenance \ Omitted(o, taken)
         IN /\ Times(left, x) = Withdraw(Times(provenance, x), o, taken)
            /\ (\E r \in left : r.of = x) <=> Times(left, x) # NoOrigins
            /\ x \in Unasserted(o, taken) <=> Times(provenance, x)[o] # 0 /\ Times(left, x) = NoOrigins
<1> DEFINE left == provenance \ Omitted(o, taken)
<1>1. \A r \in provenance : r \in left <=> ~(r.by = o /\ r.at < taken)
  BY DEF Omitted
<1>2. Rows(left)
  BY RowsThatStay
<1>3. \A p : SeenAt(left, x, p) = IF \E r \in left : r.of = x /\ r.by = p
                                  THEN SeenAt(provenance, x, p) ELSE 0
  BY RowsThatStay
<1>4. \A r \in provenance : r.by \in Origins /\ r.at \in Nat \ {0}
  BY DEF Rows, Row
<1>5. Times(left, x) = Withdraw(Times(provenance, x), o, taken)
  <2>1. ASSUME NEW p \in Origins
        PROVE  SeenAt(left, x, p) = IF p = o /\ SeenAt(provenance, x, o) < taken
                                    THEN 0 ELSE SeenAt(provenance, x, p)
    <3>1. CASE \E r \in provenance : r.of = x /\ r.by = p
      <4>1. PICK r \in provenance : r.of = x /\ r.by = p
        BY <3>1
      <4>2. SeenAt(provenance, x, p) = r.at
        BY <4>1, SeenAtRow
      <4>3. (\E q \in left : q.of = x /\ q.by = p) <=> r \in left
        BY <4>1 DEF Rows
      <4>4. SeenAt(left, x, p) = IF r \in left THEN r.at ELSE 0
        BY <1>3, <4>2, <4>3
      <4>5. p = o => SeenAt(provenance, x, o) = r.at
        BY <4>2
      <4>6. r \in left <=> ~(p = o /\ r.at < taken)
        BY <1>1, <4>1
      <4> HIDE DEF left
      <4>7. CASE p = o
        BY <4>2, <4>4, <4>5, <4>6, <4>7
      <4>8. CASE p # o
        BY <4>2, <4>4, <4>6, <4>8
      <4>9. QED
        BY <4>7, <4>8
    <3>2. CASE \A r \in provenance : r.of # x \/ r.by # p
      <4>1. SeenAt(provenance, x, p) = 0
        BY <3>2, SeenAtRow
      <4>2. ~\E r \in left : r.of = x /\ r.by = p
        BY <3>2
      <4> HIDE DEF left
      <4>3. SeenAt(left, x, p) = 0
        BY <1>3, <4>2
      <4>4. QED
        BY <4>1, <4>3
    <3>3. QED
      BY <3>1, <3>2
  <2> HIDE DEF left
  <2>2. CASE SeenAt(provenance, x, o) < taken
    BY <2>1, <2>2 DEF Withdraw, Times
  <2>3. CASE ~(SeenAt(provenance, x, o) < taken)
    BY <2>1, <2>3 DEF Withdraw, Times
  <2>4. QED
    BY <2>2, <2>3
<1>6. (\E r \in left : r.of = x) <=> Times(left, x) # NoOrigins
  <2>1. ASSUME NEW r \in left, r.of = x
        PROVE  Times(left, x) # NoOrigins
    <3>1. SeenAt(left, x, r.by) # 0 /\ r.by \in Origins
      BY <1>2, <1>4, <2>1, SeenAtRow
    <3>2. QED
      BY <3>1 DEF NoOrigins, Times
  <2>2. ASSUME \A r \in left : r.of # x
        PROVE  Times(left, x) = NoOrigins
    BY <1>2, <2>2, SeenAtRow DEF NoOrigins, Times
  <2>3. QED
    BY <2>1, <2>2
<1>7. x \in Unasserted(o, taken) <=> Times(provenance, x)[o] # 0 /\ Times(left, x) = NoOrigins
  <2>1. ASSUME x \in Unasserted(o, taken)
        PROVE  Times(provenance, x)[o] # 0 /\ Times(left, x) = NoOrigins
    <3>1. PICK q \in Omitted(o, taken) : q.of = x /\ \A p \in provenance : p.of = x => p.by = o
      BY <2>1 DEF Unasserted
    <3>2. q \in provenance /\ q.by = o /\ q.at < taken
      BY <3>1 DEF Omitted
    <3>3. \A r \in left : r.of # x
      BY <1>1, <3>1, <3>2 DEF Rows
    <3>4. SeenAt(provenance, x, o) = q.at
      BY <3>1, <3>2, SeenAtRow
    <3>5. QED
      BY <1>4, <1>6, <3>2, <3>3, <3>4 DEF Times
  <2>2. ASSUME Times(provenance, x)[o] # 0, Times(left, x) = NoOrigins
        PROVE  x \in Unasserted(o, taken)
    <3>1. SeenAt(provenance, x, o) # 0
      BY <2>2 DEF Times
    <3>2. PICK q \in provenance : q.of = x /\ q.by = o
      BY <3>1, SeenAtRow
    <3>3. \A r \in left : r.of # x
      BY <1>6, <2>2
    <3>4. \A p \in provenance : p.of = x => p.by = o /\ p.at < taken
      BY <1>1, <3>3
    <3>5. q \in Omitted(o, taken)
      BY <3>2, <3>4 DEF Omitted
    <3>6. QED
      BY <3>2, <3>4, <3>5 DEF Unasserted
  <2>3. QED
    BY <2>1, <2>2
<1>8. QED
  BY <1>5, <1>6, <1>7

\* A sweep of the tables is a sweep of what they stand for (AgeSweep).
LEMMA SweepsAsMemory ==
  ASSUME AgeInv, NEW o \in Snapshots, NEW taken \in Nat, AgeSweep(o, taken)
  PROVE  Memory!Sweep(o, taken)
<1> DEFINE left == provenance \ Omitted(o, taken)
           gone == Unasserted(o, taken)
           goneEdges == Memory!Retracted(EdgeRows(provenance), o, taken)
           goneNodes == Memory!Retracted(NodeRows(provenance), o, taken) \cap DOMAIN vertices
           kept == DOMAIN relationships \ goneEdges
           detached == {k \in kept : Memory!Incident(k, goneNodes)}
           reparked == {k \in detached : Memory!Withdraw(EdgeRows(provenance)[k], o, taken) # Memory!NoOrigins}
           leaving == (goneEdges \cap (DOMAIN relationships \cup DOMAIN waiting)) \cup detached
           lostNodes == {n \in DOMAIN vertices : NodeKey(n) \in gone}
           lostEdges == {k \in DOMAIN relationships \cup DOMAIN waiting : EdgeKey(k) \in gone}
           incident == {k \in DOMAIN relationships \ lostEdges : {From[k], To[k]} \cap lostNodes # {}}
           parked == {k \in incident : \E r \in left : r.of = EdgeKey(k)}
<1>1. /\ vertices' = Restrict(vertices, DOMAIN vertices \ lostNodes)
      /\ relationships' = Restrict(relationships, DOMAIN relationships \ (lostEdges \cup incident))
      /\ waiting' = [k \in (DOMAIN waiting \ lostEdges) \cup parked |->
                       IF k \in parked THEN [edge |-> relationships[k], at |-> now] ELSE waiting[k]]
      /\ provenance' = left
      /\ epoch' = IF lostNodes \cup lostEdges \cup incident = {} THEN epoch ELSE epoch + 1
      /\ epoch' <= MaxRemovals
      /\ now' = now /\ looked' = looked
  BY DEF AgeSweep, BumpRemovals
<1>2. o \in Origins /\ Rows(provenance) /\ epoch \in Nat
  BY GraphAssumption DEF AgeInv, AgeTypes
<1>3. /\ \A k \in Edges : EdgeRows(provenance)[k] = Times(provenance, EdgeKey(k))
      /\ \A n \in Nodes : NodeRows(provenance)[n] = Times(provenance, NodeKey(n))
      /\ DOMAIN EdgeRows(provenance) = Edges /\ DOMAIN NodeRows(provenance) = Nodes
  BY DEF EdgeRows, NodeRows
<1>4. /\ \A os : Memory!Withdraw(os, o, taken) = Withdraw(os, o, taken)
      /\ Memory!NoOrigins = NoOrigins
  BY DEF Memory!Withdraw, Withdraw, Memory!NoOrigins, NoOrigins
<1>a. \A x : /\ Times(left, x) = Withdraw(Times(provenance, x), o, taken)
             /\ (\E r \in left : r.of = x) <=> Times(left, x) # NoOrigins
             /\ x \in gone <=> Times(provenance, x)[o] # 0 /\ Times(left, x) = NoOrigins
  BY <1>2, OmittedAreWithdrawn
<1> HIDE DEF left, gone
<1>5. /\ \A k \in Edges : /\ EdgeRows(left)[k] = Withdraw(EdgeRows(provenance)[k], o, taken)
                          /\ (\E r \in left : r.of = EdgeKey(k)) <=> EdgeRows(left)[k] # NoOrigins
                          /\ EdgeKey(k) \in gone <=> EdgeRows(provenance)[k][o] # 0
                                                       /\ EdgeRows(left)[k] = NoOrigins
      /\ \A n \in Nodes : /\ NodeRows(left)[n] = Withdraw(NodeRows(provenance)[n], o, taken)
                          /\ NodeKey(n) \in gone <=> NodeRows(provenance)[n][o] # 0
                                                       /\ NodeRows(left)[n] = NoOrigins
  <2>1. ASSUME NEW k \in Edges
        PROVE  /\ EdgeRows(left)[k] = Withdraw(EdgeRows(provenance)[k], o, taken)
               /\ (\E r \in left : r.of = EdgeKey(k)) <=> EdgeRows(left)[k] # NoOrigins
               /\ EdgeKey(k) \in gone <=> EdgeRows(provenance)[k][o] # 0
                                            /\ EdgeRows(left)[k] = NoOrigins
    <3>1. EdgeRows(left)[k] = Times(left, EdgeKey(k))
      BY DEF EdgeRows
    <3>2. QED
      BY <1>3, <1>a, <3>1
  <2>2. ASSUME NEW n \in Nodes
        PROVE  /\ NodeRows(left)[n] = Withdraw(NodeRows(provenance)[n], o, taken)
               /\ NodeKey(n) \in gone <=> NodeRows(provenance)[n][o] # 0
                                            /\ NodeRows(left)[n] = NoOrigins
    <3>1. NodeRows(left)[n] = Times(left, NodeKey(n))
      BY DEF NodeRows
    <3>2. QED
      BY <1>3, <1>a, <3>1
  <2>3. QED
    BY <2>1, <2>2
<1>6. /\ goneEdges = {k \in Edges : EdgeKey(k) \in gone}
      /\ goneNodes = {n \in Nodes : NodeKey(n) \in gone} \cap DOMAIN vertices
  BY <1>3, <1>4, <1>5 DEF Memory!Retracted
<1>7. /\ DOMAIN vertices \subseteq Nodes /\ DOMAIN relationships \subseteq Edges
      /\ DOMAIN waiting \subseteq Edges
  BY DEF AgeInv, AgeTypes
<1>8. goneNodes = lostNodes /\ goneEdges \cap (DOMAIN relationships \cup DOMAIN waiting) = lostEdges
  BY <1>6, <1>7
<1> HIDE DEF goneNodes, goneEdges, lostNodes, lostEdges
<1>9. detached = incident
  BY <1>8 DEF Memory!Incident
<1>10. reparked = parked
  BY <1>4, <1>5, <1>7, <1>9
<1>11. /\ kept \ detached = DOMAIN relationships \ (lostEdges \cup incident)
       /\ DOMAIN waiting \ goneEdges = DOMAIN waiting \ lostEdges
       /\ leaving = lostEdges \cup incident
  BY <1>8, <1>9
<1>12. /\ NodeRows(left) = [n \in Nodes |-> Memory!Withdraw(NodeRows(provenance)[n], o, taken)]
       /\ EdgeRows(left) = [k \in Edges |-> Memory!Withdraw(EdgeRows(provenance)[k], o, taken)]
  <2>1. /\ NodeRows(left) = [n \in Nodes |-> NodeRows(left)[n]]
        /\ EdgeRows(left) = [k \in Edges |-> EdgeRows(left)[k]]
    BY DEF NodeRows, EdgeRows
  <2>2. QED
    BY <2>1, <1>4, <1>5
<1> HIDE DEF kept, detached, reparked, leaving, incident, parked
<1>13. epoch' = epoch + Memory!RemovalSignal(goneNodes, leaving)
  BY <1>1, <1>2, <1>8, <1>11 DEF Memory!RemovalSignal
<1>14. NodeRows(provenance)' = NodeRows(left) /\ EdgeRows(provenance)' = EdgeRows(left)
  BY <1>1 DEF NodeRows, EdgeRows, Times, SeenAt
<1>15. /\ vertices' = Memory!Restrict(vertices, DOMAIN vertices \ goneNodes)
       /\ relationships' = Memory!Restrict(relationships, kept \ detached)
       /\ waiting' = [k \in (DOMAIN waiting \ goneEdges) \cup reparked |->
                        IF k \in reparked THEN [edge |-> relationships[k], at |-> now] ELSE waiting[k]]
  BY <1>1, <1>8, <1>10, <1>11 DEF Memory!Restrict, Restrict
<1>16. QED
  BY <1>1, <1>12, <1>13, <1>14, <1>15
     DEF Memory!Sweep, Memory!StillAsserted, NodeRows, EdgeRows, Times, kept, detached, reparked, leaving,
         goneNodes, goneEdges

---------------------------------------------------------------------------
(***************************************************************************)
(* Its write of an event is the memory store's.                            *)
(***************************************************************************)

\* A guess refreshes a stated edge in either store alike (LandEdge, PutEdge).
LEMMA GuessRefreshes ==
  ASSUME NEW e \in Edge, NEW t \in Nat
  PROVE  [e EXCEPT !.seen = t] = [seen |-> t, inferred |-> e.inferred]
BY DEF Edge

\* Edges land by one rule in either store (LandEdges, PutEdges).
LEMMA LandsAsMemory ==
  ASSUME NEW stored, stored \in [DOMAIN stored -> Edge],
         NEW batch, batch \in [DOMAIN batch -> Edge]
  PROVE  LandEdges(stored, batch) = Memory!PutEdges(stored, batch)
<1>1. ASSUME NEW k \in DOMAIN batch
      PROVE  LandEdge(stored, k, batch[k]) = Memory!PutEdge(stored, k, batch[k])
  <2>1. batch[k].inferred \in BOOLEAN /\ batch[k].seen \in Nat
    BY DEF Edge
  <2>2. CASE k \in DOMAIN stored
    <3>1. stored[k] \in Edge /\ stored[k].inferred \in BOOLEAN
      BY <2>2 DEF Edge
    <3>2. [stored[k] EXCEPT !.seen = batch[k].seen]
            = [seen |-> batch[k].seen, inferred |-> stored[k].inferred]
      BY <2>1, <3>1, GuessRefreshes
    <3>3. QED
      BY <2>1, <2>2, <3>1, <3>2 DEF LandEdge, Memory!PutEdge, Memory!Supersedes
  <2>3. CASE k \notin DOMAIN stored
    BY <2>3 DEF LandEdge, Memory!PutEdge
  <2>4. QED
    BY <2>2, <2>3
<1>2. QED
  BY <1>1 DEF LandEdges, Memory!PutEdges

\* Writing edges to edges gives edges, in the instance as in the store itself.
LEMMA LandedType ==
  ASSUME NEW stored, stored \in [DOMAIN stored -> Edge],
         NEW batch, batch \in [DOMAIN batch -> Edge]
  PROVE  /\ DOMAIN LandEdges(stored, batch) = DOMAIN stored \cup DOMAIN batch
         /\ LandEdges(stored, batch) \in [DOMAIN stored \cup DOMAIN batch -> Edge]
<1>1. Memory!PutEdges(stored, batch) = PutEdges(stored, batch)
  <2>1. ASSUME NEW k, NEW e
        PROVE  Memory!PutEdge(stored, k, e) = PutEdge(stored, k, e)
    BY DEF Memory!PutEdge, PutEdge, Memory!Supersedes, Supersedes
  <2>2. QED
    BY <2>1 DEF Memory!PutEdges, PutEdges
<1>2. QED
  BY <1>1, LandsAsMemory, PutEdgesType

\* Deleting the rows of some elements empties their maps, and no others'.
LEMMA RowsDeleted ==
  ASSUME NEW rows, Rows(rows), NEW gone, NEW x
  PROVE  Times({r \in rows : r.of \notin gone}, x) = IF x \in gone THEN NoOrigins ELSE Times(rows, x)
<1> DEFINE kept == {r \in rows : r.of \notin gone}
<1>1. \A p : SeenAt(kept, x, p) = IF \E r \in kept : r.of = x /\ r.by = p
                                  THEN SeenAt(rows, x, p) ELSE 0
  BY RowsThatStay
<1>2. CASE x \in gone
  <2>1. \A p : ~\E r \in kept : r.of = x /\ r.by = p
    BY <1>2
  <2> HIDE DEF kept
  <2>2. \A p : SeenAt(kept, x, p) = 0
    BY <1>1, <2>1
  <2>3. QED
    BY <1>2, <2>2 DEF Times, NoOrigins, kept
<1>3. CASE x \notin gone
  <2>1. ASSUME NEW p
        PROVE  SeenAt(kept, x, p) = SeenAt(rows, x, p)
    <3>1. CASE \E r \in rows : r.of = x /\ r.by = p
      <4>1. \E r \in kept : r.of = x /\ r.by = p
        BY <1>3, <3>1
      <4>2. QED
        BY <1>1, <4>1
    <3>2. CASE \A r \in rows : r.of # x \/ r.by # p
      <4>1. ~\E r \in kept : r.of = x /\ r.by = p
        BY <3>2
      <4>2. SeenAt(kept, x, p) = 0
        BY <1>1, <4>1
      <4>3. SeenAt(rows, x, p) = 0
        BY <3>2, SeenAtRow
      <4>4. QED
        BY <4>2, <4>3
    <3>3. QED
      BY <3>1, <3>2
  <2>2. QED
    BY <1>3, <2>1 DEF Times
<1>4. QED
  BY <1>2, <1>3

\* What a transaction writes, the memory store writes (UpsertBatch).
LEMMA WritesAsMemory ==
  ASSUME AgeInv, NEW o, NEW STATE seen, NEW observed, NEW ns, NEW es,
         IsBatch(o, seen, observed, ns, es), seen # 0,
         UpsertBatch(o, seen, observed, ns, es)
  PROVE  Memory!UpsertBatchFrom(o, seen, observed, ns, es)
<1> DEFINE expired == {k \in DOMAIN waiting : waiting[k].at < now - PendingEdgeTTL}
           present == DOMAIN vertices \cup ns
           retried == {k \in DOMAIN waiting \ expired : (From[k] \in ns \/ To[k] \in ns)
                                                          /\ Matches(k, present)}
           landed == {k \in DOMAIN es : Matches(k, present)}
           parked == DOMAIN es \ landed
           fromWaiting == [k \in retried |-> waiting[k].edge]
           dropped == {EdgeKey(k) : k \in expired}
           rows == {r \in provenance : r.of \notin dropped}
           xs == {NodeKey(n) : n \in ns} \cup {EdgeKey(k) : k \in DOMAIN es}
<1>1. /\ vertices' = [n \in present |-> IF n \in ns THEN observed ELSE vertices[n]]
      /\ relationships' = LandEdges(LandEdges(relationships, fromWaiting), Restrict(es, landed))
      /\ waiting' = [k \in (DOMAIN waiting \ (expired \cup retried)) \cup parked |->
                       IF k \in parked THEN [edge |-> es[k], at |-> now] ELSE waiting[k]]
      /\ looked' = now
      /\ provenance' = InsertOrigins(rows, xs, o, seen)
      /\ now' = now /\ epoch' = epoch
  BY DEF UpsertBatch
<1>2. /\ Rows(provenance) /\ o \in Origins /\ seen \in Nat \ {0} /\ xs \subseteq Keys
      /\ DOMAIN waiting \subseteq Edges /\ DOMAIN es \subseteq Edges /\ ns \subseteq Nodes
  BY DEF AgeInv, AgeTypes, IsBatch, Keys
<1>3. Memory!SweepPendingDue
  BY DEF AgeInv, AgeTypes, Memory!SweepPendingDue
<1>4. Memory!ExpiredPending = expired
  BY <1>3, GraphAssumption DEF Memory!ExpiredPending, AgeInv, AgeTypes, Parked
<1>5. /\ retried = {k \in DOMAIN waiting \ expired : Memory!Incident(k, ns) /\ Memory!CanLand(k, present)}
      /\ landed = {k \in DOMAIN es : Memory!CanLand(k, present)}
  BY DEF Matches, Memory!Incident, Memory!CanLand
<1>6. relationships' = Memory!PutEdges(Memory!PutEdges(relationships, fromWaiting), Restrict(es, landed))
  <2>1. /\ relationships \in [DOMAIN relationships -> Edge]
        /\ fromWaiting \in [DOMAIN fromWaiting -> Edge]
        /\ Restrict(es, landed) \in [DOMAIN Restrict(es, landed) -> Edge]
    BY DEF AgeInv, AgeTypes, Parked, Restrict, IsBatch
  <2> HIDE DEF fromWaiting, landed
  <2>2. LandEdges(relationships, fromWaiting) = Memory!PutEdges(relationships, fromWaiting)
    BY <2>1, LandsAsMemory
  <2> DEFINE first == LandEdges(relationships, fromWaiting)
  <2>3. first \in [DOMAIN first -> Edge]
    BY <2>1, LandedType
  <2> HIDE DEF first
  <2>4. LandEdges(first, Restrict(es, landed)) = Memory!PutEdges(first, Restrict(es, landed))
    BY <2>1, <2>3, LandsAsMemory
  <2>5. QED
    BY <1>1, <2>2, <2>4 DEF first
<1>7. Rows(rows) /\ Rows(provenance')
  BY <1>1, <1>2, RowsThatStay, RowsInserted
<1>8. /\ \A k \in Edges : EdgeKey(k) \in dropped <=> k \in expired
      /\ \A n \in Nodes : NodeKey(n) \notin dropped
      /\ \A k \in Edges : EdgeKey(k) \in xs <=> k \in DOMAIN es
      /\ \A n \in Nodes : NodeKey(n) \in xs <=> n \in ns
  BY KeysDiffer
<1>9. /\ \A n \in Nodes : NodeRows(rows)[n] = NodeRows(provenance)[n]
      /\ \A k \in Edges : EdgeRows(rows)[k] = IF k \in expired THEN NoOrigins ELSE EdgeRows(provenance)[k]
  <2> HIDE DEF dropped, expired
  <2>1. \A x : Times(rows, x) = IF x \in dropped THEN NoOrigins ELSE Times(provenance, x)
    BY <1>2, RowsDeleted
  <2> HIDE DEF rows
  <2>2. QED
    BY <1>8, <2>1 DEF NodeRows, EdgeRows
<1> HIDE DEF rows, xs, dropped, expired
<1>10. /\ NodeRows(provenance') = [n \in Nodes |-> IF n \in ns THEN Note(NodeRows(provenance)[n], o, seen)
                                                   ELSE NodeRows(provenance)[n]]
       /\ EdgeRows(provenance') = [k \in Edges |->
            IF k \in DOMAIN es
            THEN Note(IF k \in expired THEN NoOrigins ELSE EdgeRows(provenance)[k], o, seen)
            ELSE IF k \in expired THEN NoOrigins ELSE EdgeRows(provenance)[k]]
  <2>1. \A x : Times(provenance', x) = IF x \in xs THEN Note(Times(rows, x), o, seen) ELSE Times(rows, x)
    BY <1>1, <1>2, <1>7, InsertedIsNoted
  <2>2. ASSUME NEW n \in Nodes
        PROVE  Times(provenance', NodeKey(n)) = IF n \in ns THEN Note(NodeRows(provenance)[n], o, seen)
                                                ELSE NodeRows(provenance)[n]
    <3>1. Times(rows, NodeKey(n)) = NodeRows(provenance)[n]
      BY <1>9 DEF NodeRows
    <3>2. QED
      BY <1>8, <2>1, <3>1
  <2>3. ASSUME NEW k \in Edges
        PROVE  Times(provenance', EdgeKey(k))
                 = IF k \in DOMAIN es
                   THEN Note(IF k \in expired THEN NoOrigins ELSE EdgeRows(provenance)[k], o, seen)
                   ELSE IF k \in expired THEN NoOrigins ELSE EdgeRows(provenance)[k]
    <3>1. Times(rows, EdgeKey(k)) = IF k \in expired THEN NoOrigins ELSE EdgeRows(provenance)[k]
      BY <1>9 DEF EdgeRows
    <3>2. QED
      BY <1>8, <2>1, <3>1
  <2>4. QED
    BY <2>2, <2>3 DEF NodeRows, EdgeRows
<1>11. NodeRows(provenance)' = NodeRows(provenance') /\ EdgeRows(provenance)' = EdgeRows(provenance')
  BY DEF NodeRows, EdgeRows, Times, SeenAt
<1>12. /\ \A os : Memory!Note(os, o, seen) = Note(os, o, seen)
       /\ Memory!NoOrigins = NoOrigins
       /\ Memory!Restrict(es, landed) = Restrict(es, landed)
  BY DEF Memory!Note, Note, Memory!NoOrigins, NoOrigins, Memory!Restrict, Restrict
<1>13. (DOMAIN waiting \ expired) \ retried = DOMAIN waiting \ (expired \cup retried)
  OBVIOUS
<1>14. /\ NodeRows(provenance)' = [n \in Nodes |-> IF n \in ns THEN Memory!Note(NodeRows(provenance)[n], o, seen)
                                                   ELSE NodeRows(provenance)[n]]
       /\ EdgeRows(provenance)' = [k \in Edges |->
            LET left == IF k \in expired THEN Memory!NoOrigins ELSE EdgeRows(provenance)[k]
            IN IF k \in DOMAIN es THEN Memory!Note(left, o, seen) ELSE left]
  BY <1>10, <1>11, <1>12
<1>15. QED
  BY <1>1, <1>3, <1>4, <1>5, <1>6, <1>12, <1>13, <1>14
     DEF Memory!UpsertBatchFrom, NodeRows, EdgeRows, Times

\* The event that reaches the tables is the one that reaches the memory store,
\* and is written alike (AgeApplyEvent, ApplyEvent).
LEMMA AppliesAsMemory ==
  ASSUME AgeInv, NEW s \in Shapes, NEW taken \in 1..now, NEW observed \in 1..now,
         AgeApplyEvent(s, taken, observed)
  PROVE  Memory!ApplyEvent(s, taken, observed)
<1> DEFINE dropped == s.nodes \cap Invalid
           kept == {k \in DOMAIN s.edges : {From[k], To[k]} \cap dropped = {}}
           seen == IF s.origin \in Snapshots THEN taken ELSE now
           es == [k \in kept |-> [seen |-> observed, inferred |-> s.edges[k]]]
<1>1. UpsertBatch(s.origin, seen, observed, s.nodes \ dropped, es)
  BY DEF AgeApplyEvent
<1>2. IsBatch(s.origin, seen, observed, s.nodes \ dropped, es) /\ seen # 0
  BY GraphAssumption DEF IsShape, IsBatch, Edge, AgeInv, AgeTypes
<1>3. kept = {k \in DOMAIN s.edges : From[k] \notin dropped /\ To[k] \notin dropped}
  OBVIOUS
<1> HIDE DEF es, kept, seen, dropped
<1>4. Memory!UpsertBatchFrom(s.origin, seen, observed, s.nodes \ dropped, es)
  BY <1>1, <1>2, WritesAsMemory
<1>5. QED
  BY <1>3, <1>4 DEF Memory!ApplyEvent, es, kept, seen, dropped

---------------------------------------------------------------------------
(***************************************************************************)
(* Its prune is the memory store's, on the rows of what the tables hold.   *)
(***************************************************************************)

\* The rows of the elements that the tables hold, as maps.
HeldNodeRows ==
  [n \in Nodes |-> [o \in Origins |-> IF NodeKey(n) \in Held THEN SeenAt(provenance, NodeKey(n), o) ELSE 0]]
HeldEdgeRows ==
  [k \in Edges |-> [o \in Origins |-> IF EdgeKey(k) \in Held THEN SeenAt(provenance, EdgeKey(k), o) ELSE 0]]

\* The rows that are old enough to go are the assertions that are forgotten
\* (AgePrune, Aged).
LEMMA RowsAged ==
  ASSUME NEW rows, Rows(rows), NEW before \in Nat, NEW x, NEW p
  PROVE  SeenAt({r \in rows : r.at >= before}, x, p)
           = IF SeenAt(rows, x, p) < before THEN 0 ELSE SeenAt(rows, x, p)
<1> DEFINE kept == {r \in rows : r.at >= before}
<1>1. SeenAt(kept, x, p) = IF \E r \in kept : r.of = x /\ r.by = p THEN SeenAt(rows, x, p) ELSE 0
  BY RowsThatStay
<1>2. CASE \E r \in rows : r.of = x /\ r.by = p
  <2>1. PICK r \in rows : r.of = x /\ r.by = p
    BY <1>2
  <2>2. SeenAt(rows, x, p) = r.at /\ r.at \in Nat
    BY <2>1, SeenAtRow DEF Rows, Row
  <2>3. (\E q \in kept : q.of = x /\ q.by = p) <=> r.at >= before
    BY <2>1 DEF Rows
  <2> HIDE DEF kept
  <2>4. QED
    BY <1>1, <2>2, <2>3 DEF kept
<1>3. CASE \A r \in rows : r.of # x \/ r.by # p
  <2>1. SeenAt(rows, x, p) = 0
    BY <1>3, SeenAtRow
  <2>2. QED
    BY <1>1, <2>1
<1>4. QED
  BY <1>2, <1>3

\* A prune of the tables is a prune of what they hold (AgePrune).
LEMMA PrunesAsMemory ==
  ASSUME AgeInv, NEW before \in Nat, AgePrune(before)
  PROVE  Live!Prune(before)
<1> DEFINE goneNodes == {n \in DOMAIN vertices : vertices[n] < before}
           stale == {k \in DOMAIN relationships : relationships[k].seen < before}
           goneEdges == {k \in DOMAIN relationships : Live!Stale(relationships[k].seen, before)
                                                        \/ Live!Incident(k, goneNodes)}
<1>1. /\ vertices' = Restrict(vertices, DOMAIN vertices \ goneNodes)
      /\ relationships' = Restrict(relationships,
           {k \in DOMAIN relationships \ stale : {From[k], To[k]} \cap goneNodes = {}})
      /\ provenance' = {r \in provenance : r.at >= before}
      /\ epoch' = IF goneNodes \cup stale = {} THEN epoch ELSE epoch + 1
      /\ epoch' <= MaxRemovals
      /\ now' = now /\ waiting' = waiting /\ looked' = looked
  BY DEF AgePrune, BumpRemovals
<1>2. goneNodes = {n \in DOMAIN vertices : Live!Stale(vertices[n], before)}
  BY DEF Live!Stale
<1>3. DOMAIN relationships \ goneEdges
        = {k \in DOMAIN relationships \ stale : {From[k], To[k]} \cap goneNodes = {}}
  BY DEF Live!Stale, Live!Incident
<1>4. goneNodes \cup stale = {} <=> goneNodes = {} /\ goneEdges = {}
  BY DEF Live!Stale, Live!Incident
<1>5. epoch' = epoch + Live!RemovalSignal(goneNodes, goneEdges)
  <2>1. epoch \in Nat
    BY DEF AgeInv, AgeTypes
  <2> HIDE DEF goneNodes, goneEdges, stale
  <2>2. QED
    BY <1>1, <1>4, <2>1 DEF Live!RemovalSignal
<1>6. /\ vertices' = Live!Restrict(vertices, DOMAIN vertices \ goneNodes)
      /\ relationships' = Live!Restrict(relationships, DOMAIN relationships \ goneEdges)
      /\ DOMAIN vertices' = DOMAIN vertices \ goneNodes
      /\ DOMAIN relationships' = DOMAIN relationships \ goneEdges
  <2> HIDE DEF goneNodes, goneEdges, stale
  <2>1. QED
    BY <1>1, <1>3 DEF Live!Restrict, Restrict
<1>7. /\ goneNodes \subseteq DOMAIN vertices /\ goneEdges \subseteq DOMAIN relationships
      /\ DOMAIN relationships \cap DOMAIN waiting = {}
      /\ Rows(provenance)
  BY DEF AgeInv, AgeTypes, TablesInPlace
<1> HIDE DEF goneNodes, goneEdges, stale
<1>8. /\ \A n \in Nodes : NodeKey(n) \in Held <=> n \in DOMAIN vertices
      /\ \A k \in Edges : EdgeKey(k) \in Held <=> k \in DOMAIN relationships \cup DOMAIN waiting
      /\ \A n \in Nodes : (NodeKey(n) \in Held)' <=> n \in DOMAIN vertices'
      /\ \A k \in Edges : (EdgeKey(k) \in Held)' <=> k \in DOMAIN relationships' \cup DOMAIN waiting'
  BY KeysDiffer DEF Held
<1>9. \A x, p : SeenAt(provenance', x, p)
                   = IF SeenAt(provenance, x, p) < before THEN 0 ELSE SeenAt(provenance, x, p)
  BY <1>1, <1>7, RowsAged
<1>10. HeldNodeRows' = [n \in Nodes |-> IF n \in goneNodes THEN Live!NoOrigins
                                        ELSE Live!Aged(HeldNodeRows[n], before)]
  <2>1. ASSUME NEW n \in Nodes
        PROVE  [p \in Origins |-> IF (NodeKey(n) \in Held)' THEN SeenAt(provenance', NodeKey(n), p) ELSE 0]
                 = IF n \in goneNodes THEN Live!NoOrigins ELSE Live!Aged(HeldNodeRows[n], before)
    <3>1. CASE n \in goneNodes
      BY <3>1, <1>6, <1>8 DEF Live!NoOrigins
    <3>2. CASE n \notin goneNodes
      <4>1. (NodeKey(n) \in Held)' <=> NodeKey(n) \in Held
        BY <3>2, <1>6, <1>8
      <4>2. QED
        BY <3>2, <4>1, <1>9 DEF Live!Aged, HeldNodeRows
    <3>3. QED
      BY <3>1, <3>2
  <2>2. QED
    BY <2>1 DEF HeldNodeRows
<1>11. HeldEdgeRows' = [k \in Edges |-> IF k \in goneEdges THEN Live!NoOrigins
                                        ELSE Live!Aged(HeldEdgeRows[k], before)]
  <2>1. ASSUME NEW k \in Edges
        PROVE  [p \in Origins |-> IF (EdgeKey(k) \in Held)' THEN SeenAt(provenance', EdgeKey(k), p) ELSE 0]
                 = IF k \in goneEdges THEN Live!NoOrigins ELSE Live!Aged(HeldEdgeRows[k], before)
    <3>1. CASE k \in goneEdges
      BY <3>1, <1>1, <1>6, <1>7, <1>8 DEF Live!NoOrigins
    <3>2. CASE k \notin goneEdges
      <4>1. (EdgeKey(k) \in Held)' <=> EdgeKey(k) \in Held
        BY <3>2, <1>1, <1>6, <1>8
      <4>2. QED
        BY <3>2, <4>1, <1>9 DEF Live!Aged, HeldEdgeRows
    <3>3. QED
      BY <3>1, <3>2
  <2>2. QED
    BY <2>1 DEF HeldEdgeRows
<1>12. QED
  BY <1>1, <1>2, <1>5, <1>6, <1>10, <1>11 DEF Live!Prune, HeldNodeRows, HeldEdgeRows, goneEdges

---------------------------------------------------------------------------
(***************************************************************************)
(* The tables' invariant, and the theorem.                                 *)
(***************************************************************************)

\* A write lands the edges with both ends and parks the others, and keeps one
\* row for an element and an origin (UpsertBatch).
LEMMA WriteKeepsTables ==
  ASSUME AgeInv, NEW o, NEW STATE seen, NEW observed, NEW ns, NEW es,
         IsBatch(o, seen, observed, ns, es), seen # 0,
         UpsertBatch(o, seen, observed, ns, es)
  PROVE  AgeInv'
<1> DEFINE expired == {k \in DOMAIN waiting : waiting[k].at < now - PendingEdgeTTL}
           present == DOMAIN vertices \cup ns
           retried == {k \in DOMAIN waiting \ expired : (From[k] \in ns \/ To[k] \in ns)
                                                          /\ Matches(k, present)}
           landed == {k \in DOMAIN es : Matches(k, present)}
           parked == DOMAIN es \ landed
           fromWaiting == [k \in retried |-> waiting[k].edge]
           rows == {r \in provenance : r.of \notin {EdgeKey(k) : k \in expired}}
           xs == {NodeKey(n) : n \in ns} \cup {EdgeKey(k) : k \in DOMAIN es}
           first == LandEdges(relationships, fromWaiting)
<1>1. /\ vertices' = [n \in present |-> IF n \in ns THEN observed ELSE vertices[n]]
      /\ relationships' = LandEdges(first, Restrict(es, landed))
      /\ waiting' = [k \in (DOMAIN waiting \ (expired \cup retried)) \cup parked |->
                       IF k \in parked THEN [edge |-> es[k], at |-> now] ELSE waiting[k]]
      /\ looked' = now
      /\ provenance' = InsertOrigins(rows, xs, o, seen)
      /\ now' = now /\ epoch' = epoch
  BY DEF UpsertBatch
<1>2. /\ relationships \in [DOMAIN relationships -> Edge]
      /\ fromWaiting \in [DOMAIN fromWaiting -> Edge] /\ DOMAIN fromWaiting = retried
      /\ Restrict(es, landed) \in [DOMAIN Restrict(es, landed) -> Edge]
      /\ DOMAIN Restrict(es, landed) = landed
  BY DEF AgeInv, AgeTypes, Parked, Restrict, IsBatch
<1>3. Rows(provenance')
  <2>1. /\ Rows(provenance) /\ o \in Origins /\ seen \in Nat \ {0} /\ xs \subseteq Keys
    BY DEF AgeInv, AgeTypes, IsBatch, Keys
  <2>2. Rows(rows)
    BY <2>1, RowsThatStay
  <2> HIDE DEF rows, xs
  <2>3. QED
    BY <1>1, <2>1, <2>2, RowsInserted
<1>4. /\ first \in [DOMAIN relationships \cup retried -> Edge]
      /\ DOMAIN first = DOMAIN relationships \cup retried
  <2> HIDE DEF fromWaiting, retried
  <2>1. QED
    BY <1>2, LandedType
<1>5. /\ DOMAIN relationships' = DOMAIN relationships \cup retried \cup landed
      /\ relationships' \in [DOMAIN relationships' -> Edge]
  <2> HIDE DEF first, landed, retried
  <2>1. /\ DOMAIN LandEdges(first, Restrict(es, landed)) = DOMAIN first \cup landed
        /\ LandEdges(first, Restrict(es, landed)) \in [DOMAIN first \cup landed -> Edge]
    BY <1>2, <1>4, LandedType
  <2>2. QED
    BY <1>1, <1>4, <2>1
<1> HIDE DEF first, fromWaiting
<1>6. /\ DOMAIN vertices' = present
      /\ DOMAIN waiting' = (DOMAIN waiting \ (expired \cup retried)) \cup parked
  BY <1>1
<1>7. AgeTypes'
  <2>1. DOMAIN vertices' \subseteq Nodes /\ vertices' \in [DOMAIN vertices' -> Nat]
    BY <1>1, <1>6 DEF AgeInv, AgeTypes, IsBatch
  <2>2. DOMAIN relationships' \subseteq Edges
    BY <1>5 DEF AgeInv, AgeTypes, IsBatch
  <2>3. DOMAIN waiting' \subseteq Edges /\ waiting' \in [DOMAIN waiting' -> Parked]
    BY <1>1, <1>6 DEF AgeInv, AgeTypes, Parked, IsBatch
  <2>4. epoch' \in Nat /\ looked' \in Nat /\ looked' <= now' /\ now' \in Nat /\ now' >= 1
    BY <1>1 DEF AgeInv, AgeTypes
  <2>5. QED
    BY <1>3, <1>5, <2>1, <2>2, <2>3, <2>4 DEF AgeTypes
<1>8. TablesInPlace'
  <2>1. ASSUME NEW k \in DOMAIN relationships'
        PROVE  From[k] \in DOMAIN vertices' /\ To[k] \in DOMAIN vertices'
    BY <1>5, <1>6 DEF AgeInv, TablesInPlace, Matches
  <2>2. ASSUME NEW k \in DOMAIN waiting'
        PROVE  From[k] \notin DOMAIN vertices' \/ To[k] \notin DOMAIN vertices'
    <3>1. CASE k \in parked
      BY <3>1, <1>6 DEF Matches
    <3>2. CASE k \in DOMAIN waiting \ (expired \cup retried)
      <4>1. ~((From[k] \in ns \/ To[k] \in ns) /\ Matches(k, present))
        BY <3>2
      <4>2. From[k] \notin DOMAIN vertices \/ To[k] \notin DOMAIN vertices
        BY <3>2 DEF AgeInv, TablesInPlace
      <4>3. QED
        BY <4>1, <4>2, <1>6 DEF Matches
    <3>3. QED
      BY <3>1, <3>2, <1>6
  <2>3. QED
    BY <2>1, <2>2 DEF TablesInPlace
<1>9. QED
  BY <1>7, <1>8 DEF AgeInv

\* A sweep takes an edge off with its node, and what it parks lacks that node
\* (AgeSweep).
LEMMA SweepKeepsTables ==
  ASSUME AgeInv, NEW o \in Snapshots, NEW taken \in Nat, AgeSweep(o, taken)
  PROVE  AgeInv'
<1> DEFINE gone == Unasserted(o, taken)
           left == provenance \ Omitted(o, taken)
           lostNodes == {n \in DOMAIN vertices : NodeKey(n) \in gone}
           lostEdges == {k \in DOMAIN relationships \cup DOMAIN waiting : EdgeKey(k) \in gone}
           incident == {k \in DOMAIN relationships \ lostEdges : {From[k], To[k]} \cap lostNodes # {}}
           parked == {k \in incident : \E r \in left : r.of = EdgeKey(k)}
<1>1. /\ vertices' = Restrict(vertices, DOMAIN vertices \ lostNodes)
      /\ relationships' = Restrict(relationships, DOMAIN relationships \ (lostEdges \cup incident))
      /\ waiting' = [k \in (DOMAIN waiting \ lostEdges) \cup parked |->
                       IF k \in parked THEN [edge |-> relationships[k], at |-> now] ELSE waiting[k]]
      /\ provenance' = left
      /\ epoch' = IF lostNodes \cup lostEdges \cup incident = {} THEN epoch ELSE epoch + 1
      /\ now' = now /\ looked' = looked
  BY DEF AgeSweep, BumpRemovals
<1> HIDE DEF gone, left
<1>2. Rows(left)
  BY RowsThatStay DEF left, AgeInv, AgeTypes
<1>3. /\ DOMAIN vertices' = DOMAIN vertices \ lostNodes
      /\ DOMAIN relationships' = DOMAIN relationships \ (lostEdges \cup incident)
      /\ DOMAIN waiting' = (DOMAIN waiting \ lostEdges) \cup parked
  BY <1>1 DEF Restrict
<1>4. parked \subseteq incident /\ incident \subseteq DOMAIN relationships
  OBVIOUS
<1>5. AgeTypes'
  <2>1. DOMAIN vertices' \subseteq Nodes /\ vertices' \in [DOMAIN vertices' -> Nat]
    BY <1>1, <1>3 DEF AgeInv, AgeTypes, Restrict
  <2>2. DOMAIN relationships' \subseteq Edges /\ relationships' \in [DOMAIN relationships' -> Edge]
    BY <1>1, <1>3 DEF AgeInv, AgeTypes, Restrict
  <2>3. DOMAIN waiting' \subseteq Edges /\ waiting' \in [DOMAIN waiting' -> Parked]
    BY <1>1, <1>3, <1>4 DEF AgeInv, AgeTypes, Parked
  <2>4. epoch' \in Nat /\ looked' \in Nat /\ looked' <= now' /\ now' \in Nat /\ now' >= 1
    BY <1>1 DEF AgeInv, AgeTypes
  <2>5. QED
    BY <1>1, <1>2, <2>1, <2>2, <2>3, <2>4 DEF AgeTypes
<1>6. TablesInPlace'
  <2>1. ASSUME NEW k \in DOMAIN relationships'
        PROVE  From[k] \in DOMAIN vertices' /\ To[k] \in DOMAIN vertices'
    BY <1>3 DEF AgeInv, TablesInPlace
  <2>2. ASSUME NEW k \in DOMAIN waiting'
        PROVE  From[k] \notin DOMAIN vertices' \/ To[k] \notin DOMAIN vertices'
    BY <1>3, <1>4 DEF AgeInv, TablesInPlace
  <2>3. QED
    BY <2>1, <2>2 DEF TablesInPlace
<1>7. QED
  BY <1>5, <1>6 DEF AgeInv

\* A prune takes a node's edges with it (AgePrune).
LEMMA PruneKeepsTables ==
  ASSUME AgeInv, NEW before \in Nat, AgePrune(before)
  PROVE  AgeInv'
<1> DEFINE lost == {n \in DOMAIN vertices : vertices[n] < before}
           stale == {k \in DOMAIN relationships : relationships[k].seen < before}
           kept == {k \in DOMAIN relationships \ stale : {From[k], To[k]} \cap lost = {}}
           left == {r \in provenance : r.at >= before}
<1>1. /\ vertices' = Restrict(vertices, DOMAIN vertices \ lost)
      /\ relationships' = Restrict(relationships, kept)
      /\ provenance' = left
      /\ epoch' = IF lost \cup stale = {} THEN epoch ELSE epoch + 1
      /\ now' = now /\ waiting' = waiting /\ looked' = looked
  BY DEF AgePrune, BumpRemovals
<1>2. Rows(left)
  BY RowsThatStay DEF AgeInv, AgeTypes
<1>3. DOMAIN vertices' = DOMAIN vertices \ lost /\ DOMAIN relationships' = kept
  BY <1>1 DEF Restrict
<1>4. AgeTypes'
  <2>1. DOMAIN vertices' \subseteq Nodes /\ vertices' \in [DOMAIN vertices' -> Nat]
    BY <1>1, <1>3 DEF AgeInv, AgeTypes, Restrict
  <2>2. DOMAIN relationships' \subseteq Edges /\ relationships' \in [DOMAIN relationships' -> Edge]
    BY <1>1, <1>3 DEF AgeInv, AgeTypes, Restrict
  <2>3. epoch' \in Nat
    BY <1>1 DEF AgeInv, AgeTypes
  <2>4. QED
    BY <1>1, <1>2, <2>1, <2>2, <2>3 DEF AgeInv, AgeTypes
<1>5. TablesInPlace'
  BY <1>1, <1>3 DEF AgeInv, TablesInPlace
<1>6. QED
  BY <1>4, <1>5 DEF AgeInv

\* Every step of the tables, or none, keeps their invariant.
LEMMA AgeSteps == AgeInv /\ [AgeNext]_ageVars => AgeInv'
<1> SUFFICES ASSUME AgeInv, [AgeNext]_ageVars
             PROVE  AgeInv'
  OBVIOUS
<1>1. CASE PrepareProvenance
  <2>1. /\ provenance' = InsertOrigins({}, Held, LegacySource, now)
        /\ UNCHANGED <<now, graphTables, epoch>>
    BY <1>1 DEF PrepareProvenance
  <2>2. Held \subseteq Keys /\ Rows({}) /\ now \in Nat \ {0}
    BY DEF AgeInv, AgeTypes, Held, Keys, Rows
  <2>3. Rows(provenance')
    BY <2>1, <2>2, AgeAssumption, RowsInserted
  <2>4. QED
    BY <2>1, <2>3 DEF graphTables, AgeInv, AgeTypes, TablesInPlace
<1>2. ASSUME NEW s \in Shapes, NEW taken \in 1..now, NEW observed \in 1..now,
             AgeApplyEvent(s, taken, observed)
      PROVE  AgeInv'
  <2> DEFINE dropped == s.nodes \cap Invalid
             kept == {k \in DOMAIN s.edges : {From[k], To[k]} \cap dropped = {}}
             seen == IF s.origin \in Snapshots THEN taken ELSE now
             es == [k \in kept |-> [seen |-> observed, inferred |-> s.edges[k]]]
  <2>1. UpsertBatch(s.origin, seen, observed, s.nodes \ dropped, es)
    BY <1>2 DEF AgeApplyEvent
  <2>2. IsBatch(s.origin, seen, observed, s.nodes \ dropped, es) /\ seen # 0
    BY GraphAssumption DEF IsShape, IsBatch, Edge, AgeInv, AgeTypes
  <2> HIDE DEF es, kept, seen, dropped
  <2>3. QED
    BY <2>1, <2>2, WriteKeepsTables
<1>3. ASSUME NEW o \in Snapshots, NEW taken \in 1..now, AgeSweep(o, taken)
      PROVE  AgeInv'
  BY <1>3, SweepKeepsTables DEF AgeInv, AgeTypes
<1>4. ASSUME NEW before \in 1..now, AgePrune(before)
      PROVE  AgeInv'
  BY <1>4, PruneKeepsTables DEF AgeInv, AgeTypes
<1>5. CASE AgeTick
  BY <1>5 DEF AgeTick, graphTables, AgeInv, AgeTypes, TablesInPlace
<1>6. CASE UNCHANGED ageVars
  BY <1>6 DEF ageVars, AgeInv, AgeTypes, TablesInPlace
<1>7. QED
  BY <1>1, <1>2, <1>3, <1>4, <1>5, <1>6 DEF AgeNext

\* A graph that an older build has filled has no row, and each edge its ends
\* (AgeInit).
LEMMA AgeStarts == AgeInit => AgeInv
<1> SUFFICES ASSUME AgeInit
             PROVE  AgeInv
  OBVIOUS
<1>1. PICK old \in {{}, Nodes \ Invalid} :
        /\ vertices = [n \in old |-> 1]
        /\ relationships = [k \in {l \in Edges : From[l] \in old /\ To[l] \in old}
                              |-> [seen |-> 1, inferred |-> FALSE]]
  BY DEF AgeInit
<1>2. now = 1 /\ waiting = [k \in {} |-> 0] /\ looked = 0 /\ provenance = {} /\ epoch = 0
  BY DEF AgeInit
<1>3. old \subseteq Nodes
  OBVIOUS
<1>4. AgeTypes
  BY <1>1, <1>2, <1>3 DEF AgeTypes, Rows, Edge
<1>5. TablesInPlace
  BY <1>1, <1>2 DEF TablesInPlace
<1>6. QED
  BY <1>4, <1>5 DEF AgeInv

\* The tables' invariant holds in every reachable state: one row for an element
\* and an origin, and every edge where its ends put it.
THEOREM AgeInvariant == AgeSpec => []AgeInv
  BY AgeStarts, AgeSteps, PTL DEF AgeSpec

\* Time passes for both stores alike (AgeTick).
LEMMA TicksAsMemory == AgeTick => Memory!Tick
BY DEF AgeTick, graphTables, Memory!Tick, SeenAt

\* The store every replica shares implements the store in memory, step by step:
\* each of its transactions is the memory store's operation on what the tables
\* stand for (AgeApplyEvent, AgeSweep, AgePrune).
THEOREM TablesStepAsMemory == AgeSpec => AgeStepsAsMemory
<1>1. AgeInv /\ [AgeNext]_ageVars => [StepAsMemory]_ageVars
  <2> SUFFICES ASSUME AgeInv, AgeNext
               PROVE  StepAsMemory
    OBVIOUS
  <2>1. ASSUME NEW s \in Shapes, NEW taken \in 1..now, NEW observed \in 1..now,
               AgeApplyEvent(s, taken, observed)
        PROVE  Memory!ApplyEvent(s, taken, observed)
    BY <2>1, AppliesAsMemory
  <2>2. ASSUME NEW o \in Snapshots, NEW taken \in 1..now, AgeSweep(o, taken)
        PROVE  Memory!Sweep(o, taken)
    BY <2>2, SweepsAsMemory DEF AgeInv, AgeTypes
  <2>3. ASSUME NEW before \in 1..now, AgePrune(before)
        PROVE  Live!Prune(before)
    BY <2>3, PrunesAsMemory DEF AgeInv, AgeTypes
  <2>4. QED
    BY <2>1, <2>2, <2>3, TicksAsMemory DEF AgeNext, StepAsMemory
<1>2. QED
  BY <1>1, AgeInvariant, PTL DEF AgeSpec, AgeStepsAsMemory

---------------------------------------------------------------------------
(***************************************************************************)
(* The IAM collector, for every account: what is read of a statement only  *)
(* narrows, or only widens, what the action sets say, and the score is     *)
(* monotone in them.                                                       *)
(***************************************************************************)

\* What a set holds is of some document: every Allow is among its grants, and each
\* of its denies is that of a Deny over the whole account.
ReadFrom(set, docs) ==
  /\ \A st \in docs : st.effect = "Allow" => \E g \in set.grants : g.actions = Matched(st)
  /\ \A d \in set.denies : \E st \in docs :
       /\ st.effect = "Deny" /\ st.condition = "none" /\ st.resource \in {"star", "wild"}
       /\ ~st.notAction /\ st.actions = d

\* The inductive invariant.
IamInv ==
  /\ feed \in {"live", "plan"}
  /\ bound \in {"none", "unresolved", "read"}
  /\ attached \subseteq IdentityStatements
  /\ boundary \subseteq BoundaryStatements
  /\ ReadFrom(identity, {st \in attached : Readable(st)})
  /\ ReadFrom(cap, boundary)
  /\ bound = "read" => boundary # {}
  /\ feed = "plan" /\ (\E st \in attached : st.document = "later") => noted

\* A statement read into a set.
LEMMA ReadAdds ==
  ASSUME NEW set, NEW docs, ReadFrom(set, docs), NEW st, st.effect \in {"Allow", "Deny"}
  PROVE  ReadFrom(Read(set, st), docs \cup {st})
<1>1. CASE st.effect = "Allow"
  <2>1. PICK star : Read(set, st) = Grant(set, st, star)
    BY <1>1 DEF Read, Allowed
  <2> DEFINE g == [actions |-> Matched(st), broad |-> Broad(st), star |-> star]
  <2>2. Read(set, st).grants = set.grants \cup {g} /\ Read(set, st).denies = set.denies
    BY <2>1 DEF Grant, ActionSet
  <2>3. g.actions = Matched(st)
    OBVIOUS
  <2> HIDE DEF g
  <2> QED
    BY <1>1, <2>2, <2>3 DEF ReadFrom
<1>2. CASE st.effect = "Deny"
  <2>1. Read(set, st).grants = set.grants
    BY <1>2 DEF Read, Denied, ActionSet
  <2>2. \A d \in Read(set, st).denies :
          \/ d \in set.denies
          \/ /\ st.condition = "none" /\ st.resource \in {"star", "wild"}
             /\ ~st.notAction /\ st.actions = d
    BY <1>2 DEF Read, Denied, ActionSet, Broad
  <2> QED
    BY <1>2, <2>1, <2>2 DEF ReadFrom
<1> QED
  BY <1>1, <1>2

\* A Deny only takes away.
LEMMA DenyNarrows ==
  ASSUME NEW set, NEW st, st.effect # "Allow"
  PROVE  /\ \A a : Grants(Read(set, st), a) => Grants(set, a)
         /\ \A a : GrantsBroadly(Read(set, st), a) => GrantsBroadly(set, a)
         /\ Blanket(Read(set, st)) => Blanket(set)
         /\ set.conditional \subseteq Read(set, st).conditional
<1>1. /\ Read(set, st).grants = set.grants
      /\ set.denies \subseteq Read(set, st).denies
      /\ set.conditional \subseteq Read(set, st).conditional
  BY DEF Read, Denied, ActionSet
<1> QED
  BY <1>1 DEF Grants, GrantsBroadly, Blanket, IsDenied

\* An Allow only adds.
LEMMA AllowWidens ==
  ASSUME NEW set, NEW st, st.effect = "Allow"
  PROVE  /\ \A a : Grants(set, a) => Grants(Read(set, st), a)
         /\ \A a : GrantsBroadly(set, a) => GrantsBroadly(Read(set, st), a)
         /\ Blanket(set) => Blanket(Read(set, st))
         /\ set.conditional = Read(set, st).conditional
<1>1. /\ set.grants \subseteq Read(set, st).grants
      /\ set.denies = Read(set, st).denies
      /\ set.conditional = Read(set, st).conditional
  BY DEF Read, Allowed, Grant, ActionSet
<1> QED
  BY <1>1 DEF Grants, GrantsBroadly, Blanket, IsDenied

\* The score as a function of the votes.
ScoreOf(admin, matches, scoped, unsettled, whole, unresolved) ==
  IF ~admin /\ matches = {} THEN 0
  ELSE IF unresolved \/ (IF admin THEN whole ELSE matches \subseteq unsettled) THEN 50
  ELSE IF admin THEN 99
  ELSE IF matches \subseteq scoped THEN 50
  ELSE 90

ScoreNow ==
  ScoreOf(IsAdmin, DetectPrivesc, {t \in Techniques : ScopedOnly(t)}, {t \in Techniques : Conditional(t)},
          AllActions \in ConditionalDenies, bound = "unresolved")

\* The edge's probability is that function of them.
LEMMA EscalationIs == Escalation = ScoreNow
<1> DEFINE S == {t \in Techniques : ScopedOnly(t)}
           C == {t \in Techniques : Conditional(t)}
<1>1. DetectPrivesc \subseteq Techniques
  BY DEF DetectPrivesc
<1>2. AllScoped(DetectPrivesc) <=> DetectPrivesc \subseteq S
  BY <1>1 DEF AllScoped
<1>3. AllConditional(DetectPrivesc) <=> DetectPrivesc \subseteq C
  BY <1>1 DEF AllConditional
<1> HIDE DEF S, C
<1>4. Escalation = ScoreOf(IsAdmin, DetectPrivesc, S, C, AllActions \in ConditionalDenies, bound = "unresolved")
  BY <1>2, <1>3 DEF Escalation, Escalates, ResourceScoped, DenyUnevaluated, NoteCondition, NoteBoundary,
                     LeastOf, ScoreOf
<1> QED
  BY <1>4 DEF ScoreNow, S, C

\* Where each vote moves one way, the score does.
LEMMA ScoreIsMonotone ==
  ASSUME NEW a1 \in BOOLEAN, NEW m1, NEW s1, NEW c1, NEW w1 \in BOOLEAN, NEW u1 \in BOOLEAN,
         NEW a2 \in BOOLEAN, NEW m2, NEW s2, NEW c2, NEW w2 \in BOOLEAN, NEW u2 \in BOOLEAN,
         a2 => a1, m2 \subseteq m1, s1 \subseteq s2, c1 \subseteq c2, w1 => w2, u1 => u2,
         w1 => m1 \subseteq c1
  PROVE  ScoreOf(a2, m2, s2, c2, w2, u2) <= ScoreOf(a1, m1, s1, c1, w1, u1)
<1>1. m1 \subseteq c1 => m2 \subseteq c2
  OBVIOUS
<1>2. m1 \subseteq s1 => m2 \subseteq s2
  OBVIOUS
<1>3. m1 = {} => m2 = {}
  OBVIOUS
<1> QED
  BY <1>1, <1>2, <1>3 DEF ScoreOf

\* A deny of everything under a condition touches every technique.
LEMMA WholeTouchesAll ==
  ASSUME AllActions \in ConditionalDenies
  PROVE  DetectPrivesc \subseteq {t \in Techniques : Conditional(t)}
BY IamAssumption DEF DetectPrivesc, Conditional

\* What permits less scores no higher.
LEMMA NarrowingLowers ==
  ASSUME principal' = principal,
         \A a \in AllActions : /\ Allows(a)' => Allows(a)
                               /\ BroadlyAllows(a)' => BroadlyAllows(a),
         IsAdmin' => IsAdmin,
         ConditionalDenies \subseteq ConditionalDenies',
         bound = "unresolved" => bound' = "unresolved"
  PROVE  Escalation' <= Escalation
<1> DEFINE S == {t \in Techniques : ScopedOnly(t)}
           C == {t \in Techniques : Conditional(t)}
           W == AllActions \in ConditionalDenies
           U == bound = "unresolved"
<1>1. DetectPrivesc' \subseteq DetectPrivesc
  BY IamAssumption DEF DetectPrivesc, AppliesTo
<1>2. S \subseteq S'
  BY IamAssumption DEF ScopedOnly
<1>3. C \subseteq C'
  BY DEF Conditional
<1>4. IsAdmin \in BOOLEAN /\ IsAdmin' \in BOOLEAN
  BY DEF IsAdmin, Blanket
<1>5. ScoreNow' <= ScoreNow
  <2>1. W => DetectPrivesc \subseteq C
    BY WholeTouchesAll
  <2>2. /\ W \in BOOLEAN /\ W' \in BOOLEAN /\ U \in BOOLEAN /\ U' \in BOOLEAN
        /\ (W => W') /\ (U => U')
    OBVIOUS
  <2>3. /\ ScoreNow = ScoreOf(IsAdmin, DetectPrivesc, S, C, W, U)
        /\ ScoreNow' = ScoreOf(IsAdmin', DetectPrivesc', S', C', W', U')
    BY DEF ScoreNow
  <2> HIDE DEF S, C, W, U
  <2> QED
    BY <1>1, <1>2, <1>3, <1>4, <2>1, <2>2, <2>3, ScoreIsMonotone
<1>6. Escalation = ScoreNow /\ (Escalation = ScoreNow)'
  BY EscalationIs, PTL
<1> QED
  BY <1>5, <1>6

\* What permits more scores no lower.
LEMMA WideningRaises ==
  ASSUME principal' = principal,
         \A a \in AllActions : /\ Allows(a) => Allows(a)'
                               /\ BroadlyAllows(a) => BroadlyAllows(a)',
         IsAdmin => IsAdmin',
         ConditionalDenies' = ConditionalDenies,
         bound' = bound
  PROVE  Escalation' >= Escalation
<1> DEFINE S == {t \in Techniques : ScopedOnly(t)}
           C == {t \in Techniques : Conditional(t)}
           W == AllActions \in ConditionalDenies
           U == bound = "unresolved"
<1>1. DetectPrivesc \subseteq DetectPrivesc'
  BY IamAssumption DEF DetectPrivesc, AppliesTo
<1>2. S' \subseteq S
  BY IamAssumption DEF ScopedOnly
<1>3. C = C'
  BY DEF Conditional
<1>4. IsAdmin \in BOOLEAN /\ IsAdmin' \in BOOLEAN
  BY DEF IsAdmin, Blanket
<1>5. W' => DetectPrivesc' \subseteq C'
  BY IamAssumption DEF DetectPrivesc, Conditional
<1>6. ScoreNow' >= ScoreNow
  <2>1. /\ W \in BOOLEAN /\ W' \in BOOLEAN /\ U \in BOOLEAN /\ U' \in BOOLEAN
        /\ (W' => W) /\ (U' => U)
    OBVIOUS
  <2>2. /\ ScoreNow = ScoreOf(IsAdmin, DetectPrivesc, S, C, W, U)
        /\ ScoreNow' = ScoreOf(IsAdmin', DetectPrivesc', S', C', W', U')
    BY DEF ScoreNow
  <2> HIDE DEF S, C, W, U
  <2> QED
    BY <1>1, <1>2, <1>3, <1>4, <1>5, <2>1, <2>2, ScoreIsMonotone
<1>7. Escalation = ScoreNow /\ (Escalation = ScoreNow)'
  BY EscalationIs, PTL
<1> QED
  BY <1>6, <1>7

---------------------------------------------------------------------------

LEMMA IamInvInit == IamInit => IamInv
BY DEF IamInit, IamInv, ReadFrom, Nothing, ActionSet

LEMMA ReadKeepsInv ==
  ASSUME IamInv, NEW st \in IdentityStatements, ReadStatement(st)
  PROVE  IamInv'
<1> DEFINE docs == {x \in attached : Readable(x)}
<1>1. ReadFrom(identity, docs) /\ st.effect \in {"Allow", "Deny"}
  BY IamAssumption DEF IamInv
<1>2. ReadFrom(identity', docs')
  <2>1. CASE Readable(st)
    <3>1. identity' = Read(identity, st) /\ docs' = docs \cup {st}
      BY <2>1 DEF ReadStatement, Readable
    <3> HIDE DEF docs
    <3> QED
      BY <1>1, <3>1, ReadAdds
  <2>2. CASE ~Readable(st)
    <3>1. identity' = identity /\ docs' = docs
      BY <2>2 DEF ReadStatement, Readable
    <3> HIDE DEF docs
    <3> QED
      BY <1>1, <3>1 DEF ReadFrom
  <2> QED
    BY <2>1, <2>2
<1>3. ReadFrom(cap', boundary')
  BY DEF IamInv, ReadStatement, ReadFrom
<1> QED
  BY <1>2, <1>3 DEF IamInv, ReadStatement

LEMMA BoundaryKeepsInv ==
  ASSUME IamInv, NEW st \in BoundaryStatements, AttachBoundary(st)
  PROVE  IamInv'
<1>1. ReadFrom(cap, boundary) /\ st.effect \in {"Allow", "Deny"}
  BY IamAssumption DEF IamInv
<1>2. cap' = Read(cap, st) /\ boundary' = boundary \cup {st}
  BY DEF AttachBoundary
<1>3. ReadFrom(cap', boundary')
  BY <1>1, <1>2, ReadAdds
<1>4. ReadFrom(identity', {x \in attached' : Readable(x)'})
  BY DEF IamInv, AttachBoundary, ReadFrom, Readable
<1> QED
  BY <1>2, <1>3, <1>4 DEF IamInv, AttachBoundary

\* The steps that read no policy.
LEMMA OthersKeepInv ==
  ASSUME IamInv, AttachUnreadBoundary \/ (\E st \in TrustStatements : ReadTrust(st)) \/ UNCHANGED iamVars
  PROVE  IamInv'
<1>1. /\ feed' = feed /\ attached' = attached /\ identity' = identity /\ boundary' = boundary
      /\ cap' = cap /\ noted' = noted
      /\ bound' = bound \/ bound' = "unresolved"
  BY DEF AttachUnreadBoundary, ReadTrust, iamVars
<1>2. ReadFrom(cap', boundary') /\ ReadFrom(identity', {x \in attached' : Readable(x)'})
  BY <1>1 DEF IamInv, ReadFrom, Readable
<1> QED
  BY <1>1, <1>2 DEF IamInv

LEMMA IamInvNext == IamInv /\ [IamNext]_iamVars => IamInv'
BY ReadKeepsInv, BoundaryKeepsInv, OthersKeepInv DEF IamNext

---------------------------------------------------------------------------

\* What a document permits on some resource, its set grants, unless a Deny on a
\* partial wildcard stands in it.
LEMMA PermittedIsGranted ==
  ASSUME NEW docs, docs \subseteq IdentityStatements \cup BoundaryStatements, NEW set, ReadFrom(set, docs),
         ~\E st \in docs : st.effect = "Deny" /\ st.resource = "wild",
         NEW a, NEW r \in Targets, Satisfiable(docs, a, r)
  PROVE  Grants(set, a)
<1>1. PICK st \in docs : st.effect = "Allow" /\ a \in Matched(st)
  BY DEF Satisfiable
<1>2. PICK g \in set.grants : g.actions = Matched(st)
  BY <1>1 DEF ReadFrom
<1>3. ~IsDenied(set, a)
  <2> SUFFICES ASSUME NEW d \in set.denies, a \in d
               PROVE  FALSE
    BY DEF IsDenied
  <2>1. PICK x \in docs : /\ x.effect = "Deny" /\ x.condition = "none" /\ x.resource \in {"star", "wild"}
                          /\ ~x.notAction /\ x.actions = d
    BY DEF ReadFrom
  <2>2. x.resource = "star"
    BY <2>1
  <2>3. r \in x.covers
    BY <2>2, IamAssumption
  <2> QED
    BY <2>1, <2>3 DEF Satisfiable, Matched
<1> QED
  BY <1>1, <1>2, <1>3 DEF Grants

LEMMA NothingMissed == IamInv => NothingIsMissed
<1> SUFFICES ASSUME IamInv
             PROVE  NothingIsMissed
  OBVIOUS
<1>1. ASSUME CanEscalate, ~WildDeny, ~SilentlyUnread, ~noted
      PROVE  Escalation > 0
  <2>1. {st \in attached : Readable(st)} = attached
    BY <1>1, IamAssumption DEF IamInv, Readable, SilentlyUnread
  <2>2. PICK t \in Techniques : /\ AppliesTo(t)
                               /\ \A a \in t.needs : \E r \in Targets :
                                    Satisfiable(attached, a, r) /\ (Capped => Satisfiable(boundary, a, r))
    BY <1>1 DEF CanEscalate
  <2>3. ReadFrom(identity, attached) /\ ReadFrom(cap, boundary)
    BY <2>1 DEF IamInv
  <2>4. ASSUME NEW a \in t.needs
        PROVE  Allows(a)
    <3>1. PICK r \in Targets : Satisfiable(attached, a, r) /\ (Capped => Satisfiable(boundary, a, r))
      BY <2>2
    <3>2. /\ attached \subseteq IdentityStatements \cup BoundaryStatements
          /\ boundary \subseteq IdentityStatements \cup BoundaryStatements
          /\ ~\E st \in attached : st.effect = "Deny" /\ st.resource = "wild"
          /\ ~\E st \in boundary : st.effect = "Deny" /\ st.resource = "wild"
      BY <1>1 DEF IamInv, WildDeny
    <3>3. Grants(identity, a)
      BY <2>3, <3>1, <3>2, PermittedIsGranted
    <3>4. Capped => Grants(cap, a)
      BY <2>3, <3>1, <3>2, PermittedIsGranted
    <3> QED
      BY <3>3, <3>4 DEF Allows
  <2>5. t \in DetectPrivesc
    BY <2>2, <2>4 DEF DetectPrivesc
  <2> QED
    BY <2>5 DEF Escalation, Escalates, NoteCondition, NoteBoundary, LeastOf
<1>2. ASSUME StrangerAssumes
      PROVE  EntryByTrust
  <2>1. PICK st \in trust : /\ st.effect = "Allow"
                           /\ \/ st.who = "everyone"
                              \/ st.who = "issuer" /\ st.webIdentity
                                   /\ \A patterns \in st.subjects : \E s \in patterns : s # "owner"
    BY <1>2 DEF StrangerAssumes
  <2>2. st.who = "issuer" /\ st.webIdentity /\ (\A patterns \in st.subjects : \E s \in patterns : s # "owner")
          => FederatedOpen(st)
    BY DEF FederatedOpen, SubjectPatterns, SubjectPinned
  <2> QED
    BY <2>1, <2>2 DEF EntryByTrust, TrustsEveryone, OpenFederations
<1> QED
  BY <1>1, <1>2 DEF NothingIsMissed

---------------------------------------------------------------------------

\* Nothing the score is made of but the trust.
LEMMA SameScore ==
  ASSUME UNCHANGED <<principal, identity, bound, cap>>
  PROVE  Escalation' = Escalation
BY DEF Escalation, Escalates, ResourceScoped, DenyUnevaluated, NoteCondition, NoteBoundary, LeastOf, AllScoped,
       AllConditional, Conditional, ScopedOnly, DetectPrivesc, AppliesTo, ConditionalDenies, IsAdmin, BroadlyAllows,
       Allows, Capped

LEMMA ReadFollows ==
  ASSUME IamInv, NEW st \in IdentityStatements, ReadStatement(st)
  PROVE  ScoreFollowsThePermissions
<1>0. /\ UNCHANGED <<principal, bound, boundary, cap>> /\ attached' \ attached = {st}
      /\ st.effect \in {"Allow", "Deny"}
  BY IamAssumption DEF ReadStatement
<1>1. CASE ~Readable(st)
  <2>1. Escalation' = Escalation
    BY <1>0, <1>1, SameScore DEF ReadStatement
  <2> QED
    BY <2>1, EscalationIs DEF ScoreFollowsThePermissions, ScoreNow, ScoreOf
<1>2. CASE Readable(st) /\ st.effect = "Allow"
  <2>1. identity' = Read(identity, st)
    BY <1>2 DEF ReadStatement
  <2>2. /\ \A a : Grants(identity, a) => Grants(identity', a)
        /\ \A a : GrantsBroadly(identity, a) => GrantsBroadly(identity', a)
        /\ Blanket(identity) => Blanket(identity')
        /\ identity.conditional = identity'.conditional
    BY <1>2, <2>1, AllowWidens
  <2>3. Escalation' >= Escalation
    BY <1>0, <2>2, WideningRaises DEF Allows, BroadlyAllows, IsAdmin, ConditionalDenies, Capped
  <2> QED
    BY <1>0, <1>2, <2>3 DEF ScoreFollowsThePermissions
<1>3. CASE Readable(st) /\ st.effect = "Deny"
  <2>1. identity' = Read(identity, st)
    BY <1>3 DEF ReadStatement
  <2>2. /\ \A a : Grants(identity', a) => Grants(identity, a)
        /\ \A a : GrantsBroadly(identity', a) => GrantsBroadly(identity, a)
        /\ Blanket(identity') => Blanket(identity)
        /\ identity.conditional \subseteq identity'.conditional
    BY <1>3, <2>1, DenyNarrows
  <2>3. Escalation' <= Escalation
    BY <1>0, <2>2, NarrowingLowers DEF Allows, BroadlyAllows, IsAdmin, ConditionalDenies, Capped
  <2> QED
    BY <1>0, <1>3, <2>3 DEF ScoreFollowsThePermissions
<1> QED
  BY <1>0, <1>1, <1>2, <1>3

LEMMA BoundaryFollows ==
  ASSUME IamInv, NEW st \in BoundaryStatements, AttachBoundary(st)
  PROVE  ScoreFollowsThePermissions
<1>1. /\ UNCHANGED <<principal, identity>> /\ cap' = Read(cap, st) /\ boundary' \ boundary = {st}
      /\ boundary' # boundary /\ bound' = "read" /\ bound \in {"none", "read"}
      /\ st.effect \in {"Allow", "Deny"}
  BY IamAssumption DEF AttachBoundary
<1>2. SUFFICES ASSUME boundary = {} \/ st.effect = "Deny"
               PROVE  Escalation' <= Escalation
  BY <1>1 DEF ScoreFollowsThePermissions
<1>3. CASE bound = "none"
  BY <1>1, <1>3, NarrowingLowers DEF Allows, BroadlyAllows, IsAdmin, ConditionalDenies, Capped
<1>4. CASE bound = "read"
  <2>1. st.effect = "Deny"
    BY <1>2, <1>4 DEF IamInv
  <2>2. /\ \A a : Grants(cap', a) => Grants(cap, a)
        /\ \A a : GrantsBroadly(cap', a) => GrantsBroadly(cap, a)
        /\ Blanket(cap') => Blanket(cap)
        /\ cap.conditional \subseteq cap'.conditional
    BY <1>1, <2>1, DenyNarrows
  <2> QED
    BY <1>1, <1>4, <2>2, NarrowingLowers DEF Allows, BroadlyAllows, IsAdmin, ConditionalDenies, Capped
<1> QED
  BY <1>1, <1>3, <1>4

LEMMA OthersFollow ==
  ASSUME IamInv, AttachUnreadBoundary \/ (\E st \in TrustStatements : ReadTrust(st))
  PROVE  ScoreFollowsThePermissions
<1>1. CASE AttachUnreadBoundary
  <2>1. Escalation' <= Escalation
    BY <1>1, NarrowingLowers
    DEF AttachUnreadBoundary, Allows, BroadlyAllows, IsAdmin, ConditionalDenies, Capped
  <2> QED
    BY <1>1, <2>1 DEF AttachUnreadBoundary, ScoreFollowsThePermissions
<1>2. CASE \E st \in TrustStatements : ReadTrust(st)
  <2>1. Escalation' = Escalation
    BY <1>2, SameScore DEF ReadTrust
  <2> QED
    BY <2>1, EscalationIs DEF ScoreFollowsThePermissions, ScoreNow, ScoreOf
<1> QED
  BY <1>1, <1>2

\* Type correctness of the IAM collector and what its action sets are of
\* (allowedActions, capByBoundary).
LEMMA IamInvariant == IamSpec => []IamInv
BY IamInvInit, IamInvNext, PTL DEF IamSpec

\* For every set of statements, techniques and resources: whenever some request would
\* let the principal escalate, an edge is drawn or the feed says that something could
\* not be read, and each statement read moves the score the way it moves the
\* permissions (allowedActions, capByBoundary, detectPrivesc, escalation,
\* noteBoundary, noteCondition, trustsEveryone, federatedTrusts).
THEOREM IamScoresAreSound == IamSpec => ScoresAreSound
<1>1. IamInv /\ IamInv' /\ IamNext => ScoreFollowsThePermissions
  BY ReadFollows, BoundaryFollows, OthersFollow DEF IamNext
<1>2. IamInv /\ IamInv' /\ [IamNext]_iamVars => [NothingIsMissed' /\ ScoreFollowsThePermissions]_iamVars
  <2>1. (IamInv => NothingIsMissed)'
    BY NothingMissed, PTL
  <2> QED
    BY <1>1, <2>1
<1> QED
  BY <1>2, IamInvariant, PTL DEF IamSpec, ScoresAreSound

---------------------------------------------------------------------------
(***************************************************************************)
(* The red team's oracle: its answers are of an account that no longer     *)
(* changes, so what is kept is what would be answered again.               *)
(***************************************************************************)

AuditInv ==
  /\ asks \in Nat /\ blips \in Nat
  /\ tally \in [confirmed : Nat, refuted : Nat, unsettled : Nat]
  /\ asks = 0 => DOMAIN memo = {} /\ record.settled = "" /\ tally.confirmed = 0 /\ tally.refuted = 0
  /\ \A r \in DOMAIN memo : memo[r] = CheckEscalation(r) /\ memo[r] # "inconclusive"
  /\ record.settled \in {"allowed", "denied"} => Anywhere \in DOMAIN memo /\ record.settled = memo[Anywhere]
  /\ tally.confirmed > 0 => CheckEscalation(Anywhere) = "allowed"
  /\ tally.refuted > 0 => CheckEscalation(Anywhere) = "denied"

\* A call either keeps what is settled or leaves the memo.
LEMMA AnswerIsKept ==
  ASSUME NEW r, NEW fails \in BOOLEAN, Check(r, fails), UNCHANGED <<iamVars, scp>>, AuditInv
  PROVE  /\ asks' \in Nat \ {0} /\ blips' \in Nat
         /\ \A x \in DOMAIN memo' : memo'[x] = CheckEscalation(x)' /\ memo'[x] # "inconclusive"
         /\ \A x \in DOMAIN memo : x \in DOMAIN memo' /\ memo'[x] = memo[x]
         /\ Answer(r, fails) # "inconclusive" =>
              /\ r \in DOMAIN memo' /\ memo'[r] = Answer(r, fails)
              /\ Answer(r, fails) = CheckEscalation(r)'
<1>1. asks' \in Nat \ {0} /\ blips' \in Nat
  <2>1. asks \in Nat /\ blips \in Nat
    BY DEF AuditInv
  <2>2. asks' = asks + 1 /\ blips' = blips + (IF fails THEN 1 ELSE 0)
    BY DEF Check
  <2> QED
    BY <2>1, <2>2
<1>2. \A x : CheckEscalation(x)' = CheckEscalation(x)
  BY DEF iamVars, CheckEscalation, EvaluatedAllowed, MissingContext, Decision, KeysAbout, Documents, Simulated,
         Asked, AppliesTo
<1>3. Answer(r, fails) # "inconclusive" => Answer(r, fails) = CheckEscalation(r)
  BY DEF Answer, AuditInv
<1>4. CASE Answer(r, fails) = "inconclusive"
  BY <1>1, <1>2, <1>4 DEF Check, AuditInv
<1>5. CASE Answer(r, fails) # "inconclusive"
  <2>1. memo' = [x \in DOMAIN memo \cup {r} |-> IF x = r THEN Answer(r, fails) ELSE memo[x]]
    BY <1>5 DEF Check
  <2>2. r \in DOMAIN memo => memo[r] = Answer(r, fails)
    BY DEF Answer
  <2> QED
    BY <1>1, <1>2, <1>3, <1>5, <2>1, <2>2 DEF AuditInv
<1> QED
  BY <1>4, <1>5

LEMMA AuditInvInit == EscalationAuditInit => AuditInv
<1> SUFFICES ASSUME EscalationAuditInit
             PROVE  AuditInv
  OBVIOUS
<1>1. /\ asks = 0 /\ blips = 0
      /\ tally = [confirmed |-> 0, refuted |-> 0, unsettled |-> 0]
      /\ record.settled = ""
  BY DEF EscalationAuditInit
<1>2. DOMAIN memo = {}
  BY DEF EscalationAuditInit
<1>3. /\ tally \in [confirmed : Nat, refuted : Nat, unsettled : Nat]
      /\ tally.confirmed = 0 /\ tally.refuted = 0
  BY <1>1
<1>4. record.settled \notin {"allowed", "denied"}
  BY <1>1
<1>5. asks \in Nat /\ blips \in Nat
  BY <1>1
<1>6. ~(tally.confirmed > 0) /\ ~(tally.refuted > 0)
  BY <1>3
<1> QED
  BY <1>1, <1>2, <1>3, <1>4, <1>5, <1>6, Zenon DEF AuditInv

LEMMA PathKeepsInv ==
  ASSUME AuditInv, NEW named \in BOOLEAN, NEW other, NEW fails \in BOOLEAN, AttemptPath(named, other, fails)
  PROVE  AuditInv'
<1> DEFINE e == IF named THEN Answer(Anywhere, fails) ELSE "untestable"
<1>1. /\ record' = [outcome |-> Aggregate(e, other), settled |-> e]
      /\ tally' = Counted(e)
      /\ UNCHANGED <<iamVars, scp>>
  BY DEF AttemptPath
<1>2. \A x : CheckEscalation(x)' = CheckEscalation(x)
  BY <1>1
  DEF iamVars, CheckEscalation, EvaluatedAllowed, MissingContext, Decision, KeysAbout, Documents, Simulated, Asked,
      AppliesTo
<1>3. /\ asks' \in Nat \ {0} /\ blips' \in Nat
      /\ \A x \in DOMAIN memo' : memo'[x] = CheckEscalation(x)' /\ memo'[x] # "inconclusive"
      /\ e \in {"allowed", "denied"} =>
           /\ Anywhere \in DOMAIN memo' /\ memo'[Anywhere] = e
           /\ e = CheckEscalation(Anywhere)'
  <2>1. CASE named
    BY <1>1, <2>1, AnswerIsKept DEF AttemptPath
  <2>2. CASE ~named
    <3>1. asks' = asks + 1 /\ UNCHANGED <<memo, blips>> /\ e = "untestable"
      BY <2>2 DEF AttemptPath
    <3>2. asks \in Nat /\ blips \in Nat
      BY DEF AuditInv
    <3>3. asks' \in Nat \ {0} /\ blips' \in Nat
      BY <3>1, <3>2
    <3>4. \A x \in DOMAIN memo' : memo'[x] = CheckEscalation(x)' /\ memo'[x] # "inconclusive"
      BY <1>2, <3>1 DEF AuditInv
    <3> QED
      BY <3>1, <3>3, <3>4
  <2> QED
    BY <2>1, <2>2
<1> HIDE DEF e
<1>4. /\ tally' \in [confirmed : Nat, refuted : Nat, unsettled : Nat]
      /\ tally'.confirmed > 0 => tally.confirmed > 0 \/ e = "allowed"
      /\ tally'.refuted > 0 => tally.refuted > 0 \/ e = "denied"
  <2>1. tally \in [confirmed : Nat, refuted : Nat, unsettled : Nat]
    BY DEF AuditInv
  <2>2. tally' = Counted(e)
    BY <1>1
  <2> QED
    BY <2>1, <2>2 DEF Counted
<1>5. record'.settled = e
  BY <1>1
<1> QED
  BY <1>2, <1>3, <1>4, <1>5 DEF AuditInv

LEMMA CallKeepsInv ==
  ASSUME AuditInv, NEW r, NEW fails \in BOOLEAN, Check(r, fails), UNCHANGED <<iamVars, scp, record, tally>>
  PROVE  AuditInv'
<1>1. \A x : CheckEscalation(x)' = CheckEscalation(x)
  BY DEF iamVars, CheckEscalation, EvaluatedAllowed, MissingContext, Decision, KeysAbout, Documents, Simulated,
         Asked, AppliesTo
<1> QED
  BY <1>1, AnswerIsKept DEF AuditInv

LEMMA AccountKeepsInv ==
  ASSUME AuditInv, asks = 0, UNCHANGED auditingVars
  PROVE  AuditInv'
BY DEF AuditInv, auditingVars

LEMMA AuditInvNext == AuditInv /\ [EscalationAuditNext]_<<iamVars, auditingVars>> => AuditInv'
<1> SUFFICES ASSUME AuditInv, [EscalationAuditNext]_<<iamVars, auditingVars>>
             PROVE  AuditInv'
  OBVIOUS
<1>1. ASSUME asks = 0, UNCHANGED auditingVars PROVE AuditInv'
  BY <1>1, AccountKeepsInv
<1>2. ASSUME NEW fails \in BOOLEAN, NEW named \in BOOLEAN, NEW other \in OtherHops, AttemptPath(named, other, fails)
      PROVE  AuditInv'
  BY <1>2, PathKeepsInv
<1>3. ASSUME NEW fails \in BOOLEAN, NEW collected \in BOOLEAN, CompareEngineToAWS(collected, fails)
      PROVE  AuditInv'
  BY <1>3, CallKeepsInv DEF CompareEngineToAWS
<1>4. ASSUME NEW fails \in BOOLEAN, NEW r \in Targets, SettleOver(r, fails)
      PROVE  AuditInv'
  BY <1>4, CallKeepsInv DEF SettleOver
<1>5. CASE UNCHANGED <<iamVars, auditingVars>>
  <2>1. \A x : CheckEscalation(x)' = CheckEscalation(x)
    BY <1>5
    DEF iamVars, auditingVars, CheckEscalation, EvaluatedAllowed, MissingContext, Decision, KeysAbout, Documents,
        Simulated, Asked, AppliesTo
  <2> QED
    BY <1>5, <2>1 DEF AuditInv, auditingVars
<1> QED
  BY <1>1, <1>2, <1>3, <1>4, <1>5 DEF EscalationAuditNext

---------------------------------------------------------------------------

\* What the oracle reports allowed, some request is permitted.
LEMMA AllowedIsPermitted ==
  ASSUME NEW r, CheckEscalation(r) = "allowed"
  PROVE  PermittedOver(r)
<1>1. PICK t \in Techniques : AppliesTo(t) /\ \A a \in t.needs : EvaluatedAllowed(a, r)
  BY DEF CheckEscalation
<1>2. ASSUME NEW docs, NEW a, Simulated(docs, a, r)
      PROVE  LET Naming(st) == a \in Matched(st) /\ (r \in st.covers \/ (r = Anywhere /\ st.resource \in {"star", "not"}))
             IN /\ \E st \in docs : st.effect = "Allow" /\ Naming(st)
                /\ ~\E st \in docs : st.effect = "Deny" /\ st.condition = "none" /\ Naming(st)
  BY <1>2 DEF Simulated
<1> QED
  BY <1>1, <1>2 DEF PermittedOver, EvaluatedAllowed, Decision

\* What it reports denied, none is.
LEMMA DeniedIsRefused ==
  ASSUME IamInv, NEW r, CheckEscalation(r) = "denied", NoIfExists
  PROVE  ~PermittedOver(r)
<1>1. SUFFICES ASSUME PermittedOver(r)
               PROVE  FALSE
  OBVIOUS
<1> DEFINE Naming(st, a) == a \in Matched(st) /\ (r \in st.covers \/ (r = Anywhere /\ st.resource \in {"star", "not"}))
           May(docs, a) == /\ \E st \in docs : st.effect = "Allow" /\ Naming(st, a)
                           /\ ~\E st \in docs : st.effect = "Deny" /\ st.condition = "none" /\ Naming(st, a)
<1>2. PICK t \in Techniques :
        /\ AppliesTo(t)
        /\ \A a \in t.needs : a \notin scp /\ May(attached, a) /\ (bound = "read" => May(boundary, a))
  BY <1>1 DEF PermittedOver
<1>3. /\ \A a \in Asked : ~MissingContext(a, r)
      /\ ~\A a \in t.needs : EvaluatedAllowed(a, r)
  BY <1>2 DEF CheckEscalation
<1>4. t.needs \subseteq Asked
  BY <1>2 DEF Asked
<1>5. PICK a \in t.needs : ~EvaluatedAllowed(a, r)
  BY <1>3
<1>6. ~Decision(a, r) /\ ~MissingContext(a, r)
  BY <1>3, <1>4, <1>5 DEF EvaluatedAllowed
<1>7. \A st \in Documents : st.condition = "none"
  BY <1>6, IamAssumption DEF MissingContext, NoIfExists, Documents, IamInv
<1>8. ASSUME NEW docs, docs \subseteq Documents, May(docs, a)
      PROVE  Simulated(docs, a, r)
  BY <1>7, <1>8 DEF Simulated
<1> QED
  BY <1>2, <1>5, <1>6, <1>8 DEF Decision, Documents

LEMMA KeptAnswersAreReality == IamInv /\ AuditInv => AnswersAreReality
<1> SUFFICES ASSUME IamInv, AuditInv
             PROVE  AnswersAreReality
  OBVIOUS
<1>1. \A r : CheckEscalation(r) = "allowed" => PermittedOver(r)
  BY AllowedIsPermitted
<1>2. \A r : CheckEscalation(r) = "denied" /\ NoIfExists => ~PermittedOver(r)
  BY DeniedIsRefused
<1> QED
  BY <1>1, <1>2 DEF AnswersAreReality, AuditInv

\* The harness leaves the collector's steps what they are.
LEMMA AuditIsOfTheAccount == EscalationAuditSpec => IamSpec
<1>1. EscalationAuditInit => IamInit
  BY DEF EscalationAuditInit
<1>2. [EscalationAuditNext]_<<iamVars, auditingVars>> => [IamNext]_iamVars
  BY DEF EscalationAuditNext, AttemptPath, CompareEngineToAWS, SettleOver, iamVars
<1> QED
  BY <1>1, <1>2, PTL DEF EscalationAuditSpec, IamSpec

\* For every account: what the harness keeps of an answer is what AWS permits
\* (AWSOracle.Check, checkEscalation, Attempt, AuditEscalations).
THEOREM AuditsTellReality == EscalationAuditSpec => []AnswersAreReality
<1>1. EscalationAuditSpec => []AuditInv
  BY AuditInvInit, AuditInvNext, PTL DEF EscalationAuditSpec
<1> QED
  BY <1>1, AuditIsOfTheAccount, IamInvariant, KeptAnswersAreReality, PTL

---------------------------------------------------------------------------
(***************************************************************************)
(* Exposure, for every policy and every setting: what the collectors       *)
(* decide of a policy is what a stranger can bring about, and the node     *)
(* says what was decided last.                                             *)
(***************************************************************************)

\* What a stranger is admitted by, the policy counts as public, and no Deny that
\* holds for everyone elsewhere confines it.
LEMMA AdmittedIsPublic ==
  ASSUME NEW policy, NEW action, NEW type, NEW chosen, Admits(policy, action, type, chosen)
  PROVE  /\ Public(policy, action, type)
         /\ (\A s \in policy : DeniesOutside(s) => \A c \in s.conditions : KeepsOut(c))
              => ~Confined(policy, action)
<1>1. ASSUME NEW s \in policy, MatchesCall(s, action, type, chosen)
      PROVE  Applies(s, type)
  <2>1. s.everyone /\ \A c \in s.conditions : Meets(c, chosen, type)
    BY <1>1 DEF MatchesCall
  <2>2. ~Narrowed(s)
    <3> SUFFICES ASSUME NEW c \in s.conditions, c.key = "caller", NarrowingOperator(c.op), AllFixed(c)
                 PROVE  FALSE
      BY DEF Narrowed
    <3>1. Meets(c, chosen, type)
      BY <2>1
    <3>2. c.op = "equals"
      BY DEF NarrowingOperator
    <3>3. ~Meets(c, chosen, type)
      BY <3>2 DEF Meets, NegatedOperator
    <3> QED
      BY <3>1, <3>3
  <2>3. UrlOnly(s) => type # "direct"
    BY <2>1 DEF Meets, UrlOnly
  <2>4. ~OtherUrlType(s, type)
    BY <2>1 DEF Meets, OtherUrlType
  <2> QED
    BY <2>1, <2>2, <2>3, <2>4 DEF Applies
<1>2. PICK s \in policy : s.allow /\ MatchesCall(s, action, type, chosen)
  BY DEF Admits
<1>3. action \in s.actions /\ Applies(s, type)
  BY <1>1, <1>2 DEF MatchesCall
<1>4. ASSUME NEW d \in policy, action \in d.actions, Applies(d, type), ~d.allow
      PROVE  HasConditions(d)
  BY <1>4 DEF Admits, MatchesCall, Applies, HasConditions
<1>5. Public(policy, action, type)
  BY <1>2, <1>3, <1>4 DEF Public
<1>6. ASSUME NEW d \in policy, DeniesOutside(d), d.everyone, action \in d.actions,
             \A c \in d.conditions : KeepsOut(c)
      PROVE  FALSE
  <2>1. \A c \in d.conditions : Meets(c, chosen, type)
    BY <1>6 DEF KeepsOut, Meets, NegatedOperator
  <2> QED
    BY <1>6, <2>1 DEF Admits, MatchesCall, DeniesOutside
<1> QED
  BY <1>5, <1>6 DEF Confined

\* Where no Deny is under a condition, a public policy admits the stranger who meets
\* every condition he can.
LEMMA PublicAdmits ==
  ASSUME NEW policy, NEW action, NEW type, Public(policy, action, type),
         \A s \in policy : ~s.allow => ~HasConditions(s)
  PROVE  Admits(policy, action, type, UNION {s.conditions : s \in policy})
<1> DEFINE chosen == UNION {s.conditions : s \in policy}
<1>1. PICK s \in policy : s.allow /\ action \in s.actions /\ Applies(s, type)
  BY DEF Public
<1>2. ASSUME NEW c \in s.conditions
      PROVE  Meets(c, chosen, type)
  <2>1. c \in chosen
    OBVIOUS
  <2>2. c.key = "viaUrl" => type # "direct"
    BY <1>1 DEF Applies, UrlOnly
  <2>3. c.key \in {"urlNone", "urlIam"} => c.key = type
    BY <1>1 DEF Applies, UrlOnly, OtherUrlType
  <2>4. ~(c.key = "caller" /\ AllFixed(c) /\ c.op = "equals")
    BY <1>1 DEF Applies, Narrowed, NarrowingOperator
  <2> HIDE DEF chosen
  <2> QED
    BY <2>1, <2>2, <2>3, <2>4 DEF Meets
<1>3. ASSUME NEW d \in policy, ~d.allow, MatchesCall(d, action, type, chosen)
      PROVE  FALSE
  <2>1. d.conditions = {} /\ d.everyone /\ action \in d.actions
    BY <1>3 DEF MatchesCall, HasConditions
  <2>2. Applies(d, type)
    BY <2>1 DEF Applies, Narrowed, UrlOnly
  <2> QED
    BY <1>3, <2>1, <2>2 DEF Public
<1> HIDE DEF chosen
<1>4. Admits(policy, action, type, chosen)
  BY <1>1, <1>2, <1>3 DEF Admits, MatchesCall, Applies
<1> QED
  BY <1>4 DEF chosen

Unbent(policy) == \A s \in policy : ~s.allow => ~HasConditions(s)
Whole(policy) == \A s \in policy : DeniesOutside(s) => \A c \in s.conditions : KeepsOut(c)

LEMMA FunctionsToldApart ==
  ASSUME NEW f
  PROVE  /\ GetsIntoFunction(f) /\ (f.policyIs # "known" => f.policy = {}) => FunctionOpen(f)
         /\ FunctionOpen(f) /\ f.policyIs = "known" /\ Unbent(f.policy) => GetsIntoFunction(f)
<1>1. ASSUME GetsIntoFunction(f), f.policyIs # "known" => f.policy = {}
      PROVE  FunctionOpen(f)
  <2>1. PICK chosen :
          \/ Admits(f.policy, "invoke", "direct", chosen)
          \/ /\ f.url = "urlNone" /\ Admits(f.policy, "invokeUrl", "urlNone", chosen)
             /\ f.recent => Admits(f.policy, "invoke", "urlNone", chosen)
    BY <1>1 DEF GetsIntoFunction
  <2>2. f.policyIs = "known"
    BY <1>1, <2>1 DEF Admits
  <2> QED
    BY <2>1, <2>2, AdmittedIsPublic DEF FunctionOpen
<1>2. ASSUME FunctionOpen(f), f.policyIs = "known", Unbent(f.policy)
      PROVE  GetsIntoFunction(f)
  <2> DEFINE chosen == UNION {s.conditions : s \in f.policy}
  <2>1. chosen \in StrangersChoices(f.policy)
    BY DEF StrangersChoices
  <2>2. \A action, type : Public(f.policy, action, type) => Admits(f.policy, action, type, chosen)
    BY <1>2, PublicAdmits DEF Unbent
  <2> HIDE DEF chosen
  <2> QED
    BY <1>2, <2>1, <2>2 DEF FunctionOpen, GetsIntoFunction
<1> QED
  BY <1>1, <1>2

LEMMA ApisToldApart ==
  ASSUME NEW a
  PROVE  /\ GetsIntoApi(a) /\ Whole(a.policy) => ApiOpen(a)
         /\ ApiOpen(a) /\ Unbent(a.policy) => GetsIntoApi(a)
<1>1. ASSUME GetsIntoApi(a), Whole(a.policy)
      PROVE  ApiOpen(a)
  <2>1. a.type = "rest" /\ a.policyIs = "known" => Public(a.policy, "invoke", "direct") /\ ~Confined(a.policy, "invoke")
    <3> SUFFICES ASSUME a.type = "rest", a.policyIs = "known"
                 PROVE  Public(a.policy, "invoke", "direct") /\ ~Confined(a.policy, "invoke")
      OBVIOUS
    <3>1. PICK chosen : Admits(a.policy, "invoke", "direct", chosen)
      BY <1>1 DEF GetsIntoApi
    <3> QED
      BY <1>1, <3>1, AdmittedIsPublic DEF Whole
  <2> QED
    BY <1>1, <2>1 DEF GetsIntoApi, ApiOpen, ApiGated
<1>2. ASSUME ApiOpen(a), Unbent(a.policy)
      PROVE  GetsIntoApi(a)
  <2> DEFINE chosen == UNION {s.conditions : s \in a.policy}
  <2>1. chosen \in StrangersChoices(a.policy)
    BY DEF StrangersChoices
  <2>2. Public(a.policy, "invoke", "direct") => Admits(a.policy, "invoke", "direct", chosen)
    BY <1>2, PublicAdmits DEF Unbent
  <2> HIDE DEF chosen
  <2> QED
    BY <1>2, <2>1, <2>2 DEF ApiOpen, ApiGated, GetsIntoApi
<1> QED
  BY <1>1, <1>2

LEMMA BucketsToldApart ==
  ASSUME NEW b
  PROVE  /\ GetsIntoBucket(b) => BucketOpen(b)
         /\ BucketOpen(b) /\ Unbent(b.policy) => GetsIntoBucket(b)
         /\ BucketReadable(b) => BucketOpen(b)
<1>1. ASSUME GetsIntoBucket(b)
      PROVE  BucketOpen(b)
  <2>1. CASE b.acl # "none" /\ \A s \in {"IgnorePublicAcls"} : s \notin b.blocks /\ s \notin b.accountBlocks
    BY <2>1 DEF BucketOpen, AclGrants, Blocks
  <2>2. CASE /\ "RestrictPublicBuckets" \notin b.blocks \cup b.accountBlocks
             /\ \E chosen \in StrangersChoices(b.policy), a \in {"read", "write"} : Admits(b.policy, a, "direct", chosen)
    BY <2>2, AdmittedIsPublic DEF BucketOpen, PolicyGrants, Blocks
  <2> QED
    BY <1>1, <2>1, <2>2 DEF GetsIntoBucket
<1>2. ASSUME BucketOpen(b), Unbent(b.policy)
      PROVE  GetsIntoBucket(b)
  <2> DEFINE chosen == UNION {s.conditions : s \in b.policy}
  <2>1. chosen \in StrangersChoices(b.policy)
    BY DEF StrangersChoices
  <2>2. \A action : Public(b.policy, action, "direct") => Admits(b.policy, action, "direct", chosen)
    BY <1>2, PublicAdmits DEF Unbent
  <2> HIDE DEF chosen
  <2>3. CASE AclGrants(b)
    BY <2>3 DEF AclGrants, Blocks, GetsIntoBucket
  <2>4. CASE PolicyGrants(b, "read") \/ PolicyGrants(b, "write")
    BY <2>1, <2>2, <2>4 DEF PolicyGrants, Blocks, GetsIntoBucket
  <2> QED
    BY <1>2, <2>3, <2>4 DEF BucketOpen
<1>3. BucketReadable(b) => BucketOpen(b)
  BY DEF BucketReadable, BucketOpen
<1> QED
  BY <1>1, <1>2, <1>3

---------------------------------------------------------------------------

\* The inductive invariant: the node says what the last description that decides
\* decided, and no more than its sort has to say.
ExposureInv ==
  /\ sort \in DOMAIN SettingsOf /\ settings \in SettingsOf[sort]
  /\ publicAccess \in BOOLEAN /\ claimed \in BOOLEAN /\ told \in BOOLEAN
  /\ sort # "bucket" => ~publicAccess
  /\ told /\ sort = "function" => network = Verdict(FunctionOpen(settings))
  /\ told /\ sort = "api" => network = Verdict(ApiOpen(settings))
  /\ told /\ sort = "bucket" =>
       network = Verdict(BucketOpen(settings)) /\ (publicAccess <=> BucketReadable(settings))
  /\ told /\ sort = "machine" => network = Verdict(settings.address /\ settings.reached)
  /\ sort = "database" => network = "unsaid" /\ (told /\ settings.public => claimed)

LEMMA ExposureInvInit == ExposureInit => ExposureInv
BY DEF ExposureInit, ExposureInv

LEMMA ExposureInvNext == ExposureInv /\ [ExposureNext]_exposureVars => ExposureInv'
<1> SUFFICES ASSUME ExposureInv, [ExposureNext]_exposureVars
             PROVE  ExposureInv'
  OBVIOUS
<1>1. CASE UNCHANGED exposureVars
  BY <1>1 DEF ExposureInv, exposureVars
<1>2. CASE ExposureNext
  <2>1. PICK f : f = settings'
    OBVIOUS
  <2>2. /\ f \in SettingsOf[sort] /\ sort' = sort
        /\ \/ DescribeFunction(f) \/ DescribeApi(f) \/ DescribeBucket(f)
           \/ DescribeDatabase(f) \/ ListMachine(f) \/ DescribeMachine(f)
    BY <1>2, <2>1 DEF ExposureNext
  <2>3. CASE DescribeFunction(f)
    BY <2>1, <2>2, <2>3 DEF DescribeFunction, Decides, ExposureInv
  <2>4. CASE DescribeApi(f)
    BY <2>1, <2>2, <2>4 DEF DescribeApi, Decides, ExposureInv
  <2>5. CASE DescribeBucket(f)
    <3>1. BucketReadable(f) \in BOOLEAN
      BY DEF BucketReadable, AclGrants
    <3> QED
      BY <2>1, <2>2, <2>5, <3>1 DEF DescribeBucket, Decides, ExposureInv
  <2>6. CASE DescribeDatabase(f)
    BY <2>1, <2>2, <2>6 DEF DescribeDatabase, Claims, ExposureInv
  <2>7. CASE ListMachine(f)
    BY <2>1, <2>2, <2>7 DEF ListMachine, Claims, ExposureInv
  <2>8. CASE DescribeMachine(f)
    BY <2>1, <2>2, <2>8 DEF DescribeMachine, Decides, ExposureInv
  <2> QED
    BY <2>2, <2>3, <2>4, <2>5, <2>6, <2>7, <2>8
<1> QED
  BY <1>1, <1>2

LEMMA OpenIsSeen == ExposureInv => OpenDoorsAreSeen
<1> SUFFICES ASSUME ExposureInv, told, GetsIn, ~HalfConfining
             PROVE  IsSeed
  BY DEF OpenDoorsAreSeen
<1>1. \A open : network = Verdict(open) /\ open => IsSeed
  BY DEF Verdict, IsSeed, InternetExposed
<1>2. sort \in {"function", "api", "bucket", "database", "machine"}
  BY ExposureAssumption DEF ExposureInv
<1>3. CASE sort = "function"
  <2>1. GetsIntoFunction(settings)
    BY <1>3 DEF GetsIn
  <2>2. settings.policyIs # "known" => settings.policy = {}
    BY <1>3, ExposureAssumption DEF ExposureInv
  <2> QED
    BY <1>1, <1>3, <2>1, <2>2, FunctionsToldApart DEF ExposureInv
<1>4. CASE sort = "api"
  <2>1. GetsIntoApi(settings) /\ Whole(settings.policy)
    BY <1>4 DEF GetsIn, HalfConfining, PolicyIn, Whole
  <2> QED
    BY <1>1, <1>4, <2>1, ApisToldApart DEF ExposureInv
<1>5. CASE sort = "bucket"
  <2>1. GetsIntoBucket(settings)
    BY <1>5 DEF GetsIn
  <2> QED
    BY <1>1, <1>5, <2>1, BucketsToldApart DEF ExposureInv
<1>6. CASE sort = "database"
  BY <1>6 DEF ExposureInv, GetsIn, IsSeed, InternetExposed
<1>7. CASE sort = "machine"
  BY <1>1, <1>7 DEF ExposureInv, GetsIn
<1> QED
  BY <1>2, <1>3, <1>4, <1>5, <1>6, <1>7

LEMMA ClosedIsForgotten == ExposureInv => ClosedDoorsAreForgotten
<1> SUFFICES ASSUME ExposureInv, told, ~GetsIn, \A s \in PolicyIn : ~s.allow => ~HasConditions(s),
                    sort # "database", sort = "function" => settings.policyIs = "known"
             PROVE  ~IsSeed
  BY DEF ClosedDoorsAreForgotten
<1>1. \A open : network = Verdict(open) /\ ~open /\ ~publicAccess => ~IsSeed
  BY DEF Verdict, IsSeed, InternetExposed
<1>2. sort \in {"function", "api", "bucket", "machine"}
  BY ExposureAssumption DEF ExposureInv
<1>3. sort \in {"function", "api", "bucket"} => Unbent(settings.policy)
  BY DEF PolicyIn, Unbent
<1>4. CASE sort = "function"
  <2>1. ~FunctionOpen(settings)
    BY <1>3, <1>4, FunctionsToldApart DEF GetsIn
  <2> QED
    BY <1>1, <1>4, <2>1 DEF ExposureInv
<1>5. CASE sort = "api"
  <2>1. ~ApiOpen(settings)
    BY <1>3, <1>5, ApisToldApart DEF GetsIn
  <2> QED
    BY <1>1, <1>5, <2>1 DEF ExposureInv
<1>6. CASE sort = "bucket"
  <2>1. ~BucketOpen(settings) /\ ~BucketReadable(settings)
    BY <1>3, <1>6, BucketsToldApart DEF GetsIn
  <2> QED
    BY <1>1, <1>6, <2>1 DEF ExposureInv
<1>7. CASE sort = "machine"
  BY <1>1, <1>7 DEF ExposureInv, GetsIn
<1> QED
  BY <1>2, <1>4, <1>5, <1>6, <1>7

\* For every resource and every policy: a resource is where attacks begin when, and as
\* long as, a stranger gets in (ParseResourcePolicy, public, Confined, lambda.exposure,
\* apigateway.Parse, custodian.bucket).
THEOREM DoorsStayToldApart == ExposureSpec => []DoorsAreToldApart
<1>1. ExposureSpec => []ExposureInv
  BY ExposureInvInit, ExposureInvNext, PTL DEF ExposureSpec
<1>2. ExposureInv => DoorsAreToldApart
  BY OpenIsSeen, ClosedIsForgotten DEF DoorsAreToldApart
<1> QED
  BY <1>1, <1>2, PTL

---------------------------------------------------------------------------
(***************************************************************************)
(* Clusters, for every estate: every edge drawn is of one of seven shapes, *)
(* and what a node reaches stays in a set that the shapes do not leave.    *)
(***************************************************************************)

\* The inductive invariant: what is in the clusters is of a scenario, and a cluster has
\* one object of a name.
KubeInv ==
  /\ scenario \in Estates
  /\ DOMAIN objects = Clusters
  /\ \A c \in Clusters : objects[c] \subseteq scenario.objects[c]
  /\ access \subseteq scenario.access
  /\ \A c \in Clusters : \A o, q \in objects[c] : SameObject(o, q) => o = q

LEMMA KubeInvInit == KubeInit => KubeInv
BY DEF KubeInit, KubeInv

LEMMA KubeInvNext == KubeInv /\ [KubeNext]_kubeVars => KubeInv'
<1> SUFFICES ASSUME KubeInv, [KubeNext]_kubeVars
             PROVE  KubeInv'
  OBVIOUS
<1>1. ASSUME NEW c \in Clusters, NEW o \in scenario.objects[c], Appear(c, o)
      PROVE  KubeInv'
  <2>1. /\ objects' = [objects EXCEPT ![c] = objects[c] \cup {o}]
        /\ access' = access /\ scenario' = scenario
        /\ \A q \in objects[c] : ~SameObject(o, q)
    BY <1>1 DEF Appear
  <2>2. DOMAIN objects' = Clusters
    BY <2>1 DEF KubeInv
  <2>3. \A d \in Clusters : objects'[d] = IF d = c THEN objects[c] \cup {o} ELSE objects[d]
    BY <2>1 DEF KubeInv
  <2>4. \A p, q : SameObject(p, q) => SameObject(q, p)
    BY DEF SameObject
  <2>5. \A d \in Clusters : objects'[d] \subseteq scenario'.objects[d]
    BY <2>1, <2>3 DEF KubeInv
  <2>6. ASSUME NEW d \in Clusters, NEW p \in objects'[d], NEW q \in objects'[d], SameObject(p, q)
        PROVE  p = q
    BY <2>1, <2>3, <2>4, <2>6 DEF KubeInv
  <2> QED
    BY <2>1, <2>2, <2>5, <2>6 DEF KubeInv
<1>2. ASSUME NEW a \in scenario.access, Record(a)
      PROVE  KubeInv'
  BY <1>2 DEF Record, KubeInv
<1>3. CASE UNCHANGED kubeVars
  BY <1>3 DEF kubeVars, KubeInv
<1> QED
  BY <1>1, <1>2, <1>3 DEF KubeNext

---------------------------------------------------------------------------

\* What contains a node and the ends of its edges contains what it reaches.
LEMMA ReachedStaysIn ==
  ASSUME NEW drawn, NEW from, NEW S, from \in S, \A e \in drawn : e[1] \in S => e[2] \in S
  PROVE  Reached(drawn, from) \subseteq S
<1>1. \A T : T \subseteq S => Onward(drawn, T) \subseteq S
  BY DEF Onward
<1>2. {from} \subseteq S
  OBVIOUS
<1> QED
  BY <1>1, <1>2 DEF Reached

\* What a node leads to in three steps, it reaches.
LEMMA ReachedInThree ==
  ASSUME NEW drawn, NEW from
  PROVE  /\ from \in Reached(drawn, from)
         /\ \A e \in drawn : e[1] = from => e[2] \in Reached(drawn, from)
         /\ \A e, f \in drawn : e[1] = from /\ f[1] = e[2] => f[2] \in Reached(drawn, from)
         /\ \A e, f, g \in drawn : e[1] = from /\ f[1] = e[2] /\ g[1] = f[2] => g[2] \in Reached(drawn, from)
<1> DEFINE One == Onward(drawn, {from})
           Two == Onward(drawn, One)
           Three == Onward(drawn, Two)
<1>1. \A T : T \subseteq Onward(drawn, T)
  BY DEF Onward
<1>2. \A T : \A e \in drawn : e[1] \in T => e[2] \in Onward(drawn, T)
  BY DEF Onward
<1>3. Three \subseteq Reached(drawn, from)
  <2> HIDE DEF Three
  <2>1. Reached(drawn, from) = Onward(drawn, Onward(drawn, Onward(drawn, Onward(drawn, Onward(drawn, Three)))))
    BY DEF Reached, Three
  <2> QED
    BY <1>1, <2>1
<1>4. {from} \subseteq One /\ One \subseteq Two /\ Two \subseteq Three
  BY <1>1
<1> HIDE DEF One, Two, Three
<1> QED
  <2>1. \A e \in drawn : /\ e[1] = from => e[2] \in One
                         /\ e[1] \in One => e[2] \in Two
                         /\ e[1] \in Two => e[2] \in Three
    BY <1>2 DEF One, Two, Three
  <2> QED
    BY <1>3, <1>4, <2>1

---------------------------------------------------------------------------

\* A principal has an ARN of the scenario.
LEMMA PrincipalsHaveArns ==
  ASSUME KubeInv, NEW a \in Principals
  PROVE  \E arn \in ArnsIn(scenario.objects, scenario.access) : a = AwsPrincipal(arn)
<1>1. \A os, more : os \subseteq more => ArnsAmong(os) \subseteq ArnsAmong(more)
  BY DEF ArnsAmong
<1>2. \A c \in Clusters : ArnsAmong(objects[c]) \subseteq ArnsAmong(scenario.objects[c])
  BY <1>1 DEF KubeInv
<1>3. ArnsIn(objects, access) \subseteq ArnsIn(scenario.objects, scenario.access)
  BY <1>2 DEF ArnsIn, KubeInv
<1> QED
  BY <1>3 DEF Principals

\* A binding is of the scenario.
LEMMA BindingsAreKnown ==
  ASSUME KubeInv, NEW c \in Clusters, NEW b \in Bindings(c)
  PROVE  b \in BindingsOf(scenario)
BY DEF Bindings, BindingsOf, ObjectsOf, KubeInv

\* No role of a cluster is a principal of the account.
LEMMA RolesAreNoPrincipals ==
  ASSUME KubeInv
  PROVE  /\ \A c \in Clusters : \A b \in Bindings(c) : RoleOf(c, b) \notin Principals
         /\ \A c : ClusterAdmin(c) \notin Principals
         /\ \A e : AccessRole(e) \notin Principals
<1>1. scenario \in Estates
  BY DEF KubeInv
<1>2. ASSUME NEW c \in Clusters, NEW b \in Bindings(c), RoleOf(c, b) \in Principals
      PROVE  FALSE
  <2>1. PICK arn \in ArnsIn(scenario.objects, scenario.access) : RoleOf(c, b) = AwsPrincipal(arn)
    BY <1>2, PrincipalsHaveArns
  <2>2. b.ref.name = arn
    BY <2>1 DEF RoleOf, RoleKey, AwsPrincipal, KubeId
  <2>3. b \in BindingsOf(scenario)
    BY BindingsAreKnown
  <2> QED
    BY <1>1, <2>1, <2>2, <2>3, KubeAssumption
<1>3. ASSUME NEW c, ClusterAdmin(c) \in Principals
      PROVE  FALSE
  <2>1. PICK arn \in ArnsIn(scenario.objects, scenario.access) : ClusterAdmin(c) = AwsPrincipal(arn)
    BY <1>3, PrincipalsHaveArns
  <2>2. AdminRole = arn
    BY <2>1 DEF ClusterAdmin, AwsPrincipal, KubeId
  <2> QED
    BY <1>1, <2>1, <2>2, KubeAssumption
<1>4. ASSUME NEW e, AccessRole(e) \in Principals
      PROVE  FALSE
  <2>1. PICK arn \in ArnsIn(scenario.objects, scenario.access) : AccessRole(e) = AwsPrincipal(arn)
    BY <1>4, PrincipalsHaveArns
  <2> QED
    BY <2>1 DEF AccessRole, AwsPrincipal, KubeId
<1> QED
  BY <1>2, <1>3, <1>4

LEMMA PrincipalLabels ==
  ASSUME KubeInv, NEW a \in Principals
  PROVE  \E arn : a = <<"User", "", <<arn>>>> \/ a = <<"IAMRole", "", <<arn>>>>
BY PrincipalsHaveArns DEF AwsPrincipal

---------------------------------------------------------------------------
(***************************************************************************)
(* The shapes of the edges.                                                *)
(***************************************************************************)

OfAPod(e) ==
  \E c \in Clusters : \E p \in ObjectsOf(c, "pod") :
    /\ e[1] = Pod(c, p)
    /\ \/ e[2] = Account(c, p.ns, MountedAccount(p))
       \/ Escapes(p) /\ (e[2] = ClusterAdmin(c) \/ \E vm : e[2] = Vm(vm))

OfAWayIn(e) ==
  \E c \in Clusters : \E k, l, m :
    /\ e[1] = KubeId("LoadBalancer", c, k)
    /\ e[2] = KubeId("Container", c, l) \/ e[2] = KubeId("LoadBalancer", c, m)

OfARole(e) ==
  \E c \in Clusters : \E b \in Bindings(c) :
    /\ e[1] = RoleOf(c, b) /\ e[2] = ClusterAdmin(c)
    /\ \E r \in Defined(c, b) : Escalating(r) # {}

OfASubject(e) ==
  \E c \in Clusters : \E b \in Bindings(c) :
    /\ e[2] = RoleOf(c, b)
    /\ \/ /\ \E ns, name : e[1] = Account(c, ns, name)
          /\ \A p \in ObjectsOf(c, "pod") : e[1] = Account(c, p.ns, MountedAccount(p)) => b \in Covering(c, p)
       \/ \E g \in Anonymous : e[1] = KubeId("User", c, <<"group", g>>)
       \/ \E n : e[1] = NamedUser(n) \/ (n \notin Anonymous /\ e[1] = NamedGroup(n))

OfTheCloud(e) == e[2] \in Principals /\ \E c, k : e[1] = KubeId("ServiceAccount", c, k)

OfAPrincipal(e) ==
  /\ e[1] \in Principals
  /\ \E c : /\ NamedBy(c, e[1])
            /\ \/ e[2] = ClusterAdmin(c)
               \/ c \in Clusters /\ \E b \in Bindings(c) : e[2] = RoleOf(c, b)
               \/ \E a : a.cluster = c /\ e[2] = AccessRole(a)

OfAnAccess(e) == \E a : e[1] = AccessRole(a) /\ e[2] = ClusterAdmin(a.cluster)

LEMMA PodShape ==
  ASSUME NEW c \in Clusters, NEW e \in PodEdges(c)
  PROVE  OfAPod(e)
<1>1. PICK p \in ObjectsOf(c, "pod") : e \in EscapeEdges(c, p) \cup {<<Pod(c, p), Account(c, p.ns, MountedAccount(p)), 80>>}
  BY DEF PodEdges
<1>2. CASE e = <<Pod(c, p), Account(c, p.ns, MountedAccount(p)), 80>>
  BY <1>2 DEF OfAPod
<1>3. CASE e \in EscapeEdges(c, p)
  <2>1. Escapes(p)
    BY <1>3 DEF EscapeEdges
  <2>2. CASE e = <<Pod(c, p), ClusterAdmin(c), 95>>
    BY <2>1, <2>2 DEF OfAPod
  <2>3. CASE e # <<Pod(c, p), ClusterAdmin(c), 95>>
    <3>1. PICK n : e = <<Pod(c, p), Vm(n.instance), 95>>
      BY <1>3, <2>1, <2>3 DEF EscapeEdges
    <3> QED
      BY <2>1, <3>1 DEF OfAPod
  <2> QED
    BY <2>2, <2>3
<1> QED
  BY <1>1, <1>2, <1>3

LEMMA WayInShape ==
  ASSUME NEW c \in Clusters, NEW e \in ServiceEdges(c) \cup IngressEdges(c)
  PROVE  OfAWayIn(e)
<1>1. CASE e \in ServiceEdges(c)
  <2>1. PICK x : e = <<WayIn(c, "svc", x[1]), Pod(c, x[2]), 90>>
    BY <1>1 DEF ServiceEdges
  <2> QED
    BY <2>1 DEF OfAWayIn, WayIn, Pod
<1>2. CASE e \in IngressEdges(c)
  <2>1. PICK i \in ObjectsOf(c, "ingress") :
          e \in {<<WayIn(c, "ing", i), WayIn(c, "svc", [ns |-> i.ns, name |-> s]), 90>> : s \in i.backends}
    BY <1>2 DEF IngressEdges
  <2>2. PICK s \in i.backends : e = <<WayIn(c, "ing", i), WayIn(c, "svc", [ns |-> i.ns, name |-> s]), 90>>
    BY <2>1
  <2>3. \A o, way : \E k : WayIn(c, way, o) = KubeId("LoadBalancer", c, k)
    BY DEF WayIn
  <2> QED
    BY <2>2, <2>3 DEF OfAWayIn
<1> QED
  BY <1>1, <1>2

LEMMA SubjectShape ==
  ASSUME KubeInv, NEW c \in Clusters, NEW b \in Bindings(c), NEW s \in b.subjects,
         NEW e \in SubjectEdges(c, s, RoleOf(c, b))
  PROVE  OfASubject(e)
<1>1. s.kind \in {"serviceaccount", "group", "user"}
  BY BindingsAreKnown, KubeAssumption DEF KubeInv
<1>2. CASE s.kind = "serviceaccount"
  <2>1. e = <<Account(c, s.ns, s.name), RoleOf(c, b), 80>>
    BY <1>2 DEF SubjectEdges
  <2>2. ASSUME NEW p \in ObjectsOf(c, "pod"), e[1] = Account(c, p.ns, MountedAccount(p))
        PROVE  b \in Covering(c, p)
    <3>1. NsOrDefault(s.ns) = NsOrDefault(p.ns) /\ s.name = MountedAccount(p)
      BY <2>1, <2>2 DEF Account, KubeId
    <3> QED
      BY <1>2, <3>1 DEF Covering, Names
  <2> QED
    BY <2>1, <2>2 DEF OfASubject
<1>3. CASE s.kind = "user"
  BY <1>3 DEF SubjectEdges, OfASubject
<1>4. CASE s.kind = "group"
  <2>1. e \in BindGroup(c, s, RoleOf(c, b))
    BY <1>4 DEF SubjectEdges
  <2>2. CASE s.name \in EveryAccount
    <3>0. e \in {<<a, RoleOf(c, b), 80>> : a \in ListedAccounts(c)}
      <4>1. s.name # "system:serviceaccounts:" /\ s.name \notin Anonymous
        BY <2>2 DEF EveryAccount, Anonymous
      <4> QED
        BY <2>1, <2>2, <4>1 DEF BindGroup
    <3>1. PICK a \in ListedAccounts(c) : e = <<a, RoleOf(c, b), 80>>
      BY <3>0
    <3>2. \A p : b \in Covering(c, p)
      BY <1>4, <2>2 DEF Covering, Names
    <3> QED
      BY <3>1, <3>2 DEF OfASubject, ListedAccounts
  <2>3. CASE s.name = "system:serviceaccounts:"
    <3>1. e \in {<<a, RoleOf(c, b), 80>> : a \in ListedIn(c, s.ns)}
      <4>1. s.name \notin EveryAccount /\ s.name \notin Anonymous
        BY <2>3 DEF EveryAccount, Anonymous
      <4> QED
        BY <2>1, <2>3, <4>1 DEF BindGroup
    <3>2. PICK a \in ListedIn(c, s.ns) : e = <<a, RoleOf(c, b), 80>>
      BY <3>1
    <3>3. PICK x : a = Account(c, x.ns, x.name) /\ NsOrDefault(x.ns) = s.ns
      BY <3>2 DEF ListedIn
    <3>4. ASSUME NEW p \in ObjectsOf(c, "pod"), e[1] = Account(c, p.ns, MountedAccount(p))
          PROVE  b \in Covering(c, p)
      <4>1. NsOrDefault(p.ns) = s.ns
        BY <3>2, <3>3, <3>4 DEF Account, KubeId
      <4> QED
        BY <1>4, <2>3, <4>1 DEF Covering, Names
    <3> QED
      BY <3>2, <3>3, <3>4 DEF OfASubject
  <2>4. CASE s.name \in Anonymous
    <3>1. e = <<KubeId("User", c, <<"group", s.name>>), RoleOf(c, b), 90>>
      <4>1. s.name \notin EveryAccount /\ s.name # "system:serviceaccounts:"
        BY <2>4 DEF EveryAccount, Anonymous
      <4> QED
        BY <2>1, <2>4, <4>1 DEF BindGroup
    <3> QED
      BY <2>4, <3>1 DEF OfASubject
  <2>5. CASE s.name \notin EveryAccount \cup Anonymous /\ s.name # "system:serviceaccounts:"
    <3>1. e = <<NamedGroup(s.name), RoleOf(c, b), 80>>
      BY <2>1, <2>5 DEF BindGroup
    <3> QED
      BY <2>5, <3>1 DEF OfASubject
  <2> QED
    BY <2>2, <2>3, <2>4, <2>5
<1> QED
  BY <1>1, <1>2, <1>3, <1>4

LEMMA BindingShape ==
  ASSUME KubeInv, NEW c \in Clusters, NEW e \in BindingEdges(c)
  PROVE  OfARole(e) \/ OfASubject(e)
<1>1. PICK b \in Bindings(c) : e \in EscalationEdges(c, b) \cup UNION {SubjectEdges(c, s, RoleOf(c, b)) : s \in b.subjects}
  BY DEF BindingEdges
<1>2. CASE e \in EscalationEdges(c, b)
  <2>1. PICK r \in Defined(c, b) :
          Escalating(r) # {} /\ e = <<RoleOf(c, b), ClusterAdmin(c), Primitives[EscalateReason(r)].weight>>
    BY <1>2 DEF EscalationEdges
  <2> QED
    BY <2>1 DEF OfARole
<1>3. CASE e \in UNION {SubjectEdges(c, s, RoleOf(c, b)) : s \in b.subjects}
  BY <1>3, SubjectShape
<1> QED
  BY <1>1, <1>2, <1>3

LEMMA CloudShape ==
  ASSUME NEW c \in Clusters, NEW e \in IrsaEdges(c)
  PROVE  OfTheCloud(e)
<1>1. PICK a \in ObjectsOf(c, "serviceaccount") : e = <<Account(c, a.ns, a.name), AwsPrincipal(a.irsa), 90>>
  BY DEF IrsaEdges
<1>2. a.irsa \in ArnsAmong(objects[c])
  BY DEF ArnsAmong, ObjectsOf
<1>3. a.irsa \in ArnsIn(objects, access)
  BY <1>2 DEF ArnsIn
<1> QED
  BY <1>1, <1>3 DEF OfTheCloud, Principals, Account

LEMMA AwsAuthShape ==
  ASSUME NEW c \in Clusters, NEW e \in AwsAuthEdges(c)
  PROVE  OfAPrincipal(e)
<1>1. PICK m \in UNION {o.mappings : o \in ObjectsOf(c, "aws-auth")} :
        e \in {<<AwsPrincipal(m.arn), t, 90>> : t \in AuthTargets(c, m)}
  BY DEF AwsAuthEdges
<1>2. PICK t \in AuthTargets(c, m) : e = <<AwsPrincipal(m.arn), t, 90>>
  BY <1>1
<1>3. m.arn \in ArnsAmong(objects[c])
  BY <1>1 DEF ArnsAmong, ObjectsOf
<1>4. e[1] \in Principals
  BY <1>2, <1>3 DEF Principals, ArnsIn
<1>5. NamedBy(c, e[1])
  BY <1>1, <1>2 DEF NamedBy
<1>6. t = ClusterAdmin(c) \/ \E b \in Bindings(c) : t = RoleOf(c, b)
  <2>1. CASE t \in {ClusterAdmin(c) : g \in m.groups \cap {"system:masters"}}
    BY <2>1
  <2>2. CASE t \in UNION {BoundTo(c, "group", g) : g \in m.groups \ {"system:masters"}}
    BY <2>2 DEF BoundTo
  <2>3. CASE t \in BoundTo(c, "user", m.user)
    BY <2>3 DEF BoundTo
  <2>4. \/ t \in {ClusterAdmin(c) : g \in m.groups \cap {"system:masters"}}
        \/ t \in UNION {BoundTo(c, "group", g) : g \in m.groups \ {"system:masters"}}
        \/ t \in BoundTo(c, "user", m.user)
    <3> DEFINE A == {ClusterAdmin(c) : g \in m.groups \cap {"system:masters"}}
               B == UNION {BoundTo(c, "group", g) : g \in m.groups \ {"system:masters"}}
    <3>1. AuthTargets(c, m) = A \cup B \cup BoundTo(c, "user", m.user)
      BY DEF AuthTargets
    <3> HIDE DEF A, B
    <3>2. t \in A \/ t \in B \/ t \in BoundTo(c, "user", m.user)
      BY <1>2, <3>1
    <3> QED
      BY <3>2 DEF A, B
  <2> QED
    BY <2>1, <2>2, <2>3, <2>4
<1> QED
  BY <1>2, <1>4, <1>5, <1>6 DEF OfAPrincipal

LEMMA AccessShape ==
  ASSUME NEW e \in AccessEdges
  PROVE  OfTheCloud(e) \/ OfAPrincipal(e) \/ OfAnAccess(e)
<1>0. \A a \in access : AwsPrincipal(a.arn) \in Principals
  BY DEF Principals, ArnsIn
<1>1. CASE e \in {<<Account(a.cluster, a.ns, a.account), AwsPrincipal(a.arn), 90>> : a \in {x \in access : x.kind = "pod identity"}}
  <2>1. PICK a \in access : e = <<Account(a.cluster, a.ns, a.account), AwsPrincipal(a.arn), 90>>
    BY <1>1
  <2> QED
    BY <1>0, <2>1 DEF OfTheCloud, Account
<1>2. CASE ~(e \in {<<Account(a.cluster, a.ns, a.account), AwsPrincipal(a.arn), 90>> :
                     a \in {x \in access : x.kind = "pod identity"}})
  <2>1. PICK a \in access :
          /\ a.kind = "access entry"
          /\ \/ e = <<AwsPrincipal(a.arn), ClusterAdmin(a.cluster), 90>>
             \/ e = <<AwsPrincipal(a.arn), AccessRole(a), 90>>
             \/ e = <<AccessRole(a), ClusterAdmin(a.cluster), 85>>
    <3> DEFINE EdgesOf(a) == IF a.policy = "AmazonEKSClusterAdminPolicy"
                          THEN {<<AwsPrincipal(a.arn), ClusterAdmin(a.cluster), 90>>}
                        ELSE IF a.policy \in WritingPolicies
                          THEN {<<AwsPrincipal(a.arn), AccessRole(a), 90>>, <<AccessRole(a), ClusterAdmin(a.cluster), 85>>}
                        ELSE {}
    <3>1. PICK a \in access : a.kind = "access entry" /\ e \in EdgesOf(a)
      <4> HIDE DEF EdgesOf
      <4>1. AccessEdges = {<<Account(a.cluster, a.ns, a.account), AwsPrincipal(a.arn), 90>> :
                             a \in {x \in access : x.kind = "pod identity"}}
                          \cup UNION {EdgesOf(a) : a \in {x \in access : x.kind = "access entry"}}
        BY DEF AccessEdges, EdgesOf
      <4>2. e \in UNION {EdgesOf(a) : a \in {x \in access : x.kind = "access entry"}}
        BY <1>2, <4>1
      <4> QED
        BY <4>2
    <3>2. \/ e = <<AwsPrincipal(a.arn), ClusterAdmin(a.cluster), 90>>
          \/ e = <<AwsPrincipal(a.arn), AccessRole(a), 90>>
          \/ e = <<AccessRole(a), ClusterAdmin(a.cluster), 85>>
      BY <3>1
    <3> QED
      BY <3>1, <3>2
  <2>2. NamedBy(a.cluster, AwsPrincipal(a.arn))
    BY <2>1 DEF NamedBy
  <2>3. CASE e = <<AwsPrincipal(a.arn), ClusterAdmin(a.cluster), 90>>
    BY <1>0, <2>2, <2>3 DEF OfAPrincipal
  <2>4. CASE e = <<AwsPrincipal(a.arn), AccessRole(a), 90>>
    <3>1. e[1] = AwsPrincipal(a.arn) /\ e[2] = AccessRole(a)
      BY <2>4
    <3> QED
      BY <1>0, <2>2, <3>1 DEF OfAPrincipal
  <2>5. CASE e = <<AccessRole(a), ClusterAdmin(a.cluster), 85>>
    BY <2>5 DEF OfAnAccess
  <2> QED
    BY <2>1, <2>3, <2>4, <2>5
<1> QED
  BY <1>1, <1>2

LEMMA EdgeShapes ==
  ASSUME KubeInv, NEW e \in DrawnEdges
  PROVE  \/ OfAPod(e) \/ OfAWayIn(e) \/ OfARole(e) \/ OfASubject(e)
         \/ OfTheCloud(e) \/ OfAPrincipal(e) \/ OfAnAccess(e)
<1>1. CASE e \in AccessEdges
  BY <1>1, AccessShape
<1>2. CASE \E c \in Clusters : e \in DumpEdges(c)
  <2>1. PICK c \in Clusters : e \in DumpEdges(c)
    BY <1>2
  <2> QED
    BY <2>1, PodShape, WayInShape, BindingShape, CloudShape, AwsAuthShape DEF DumpEdges
<1> QED
  BY <1>1, <1>2 DEF DrawnEdges

---------------------------------------------------------------------------
(***************************************************************************)
(* What Kubernetes allows is drawn.                                        *)
(***************************************************************************)

\* The account of a pod is bound to the role of a binding that covers it, if it is listed.
LEMMA CoveringIsDrawn ==
  ASSUME KubeInv, NEW c \in Clusters, NEW p \in ObjectsOf(c, "pod"), IsListed(c, p), NEW b \in Covering(c, p)
  PROVE  <<Account(c, p.ns, MountedAccount(p)), RoleOf(c, b), 80>> \in BindingEdges(c)
<1> DEFINE a == Account(c, p.ns, MountedAccount(p))
           role == RoleOf(c, b)
<1>1. PICK s \in b.subjects : Names(s, NsOrDefault(p.ns), MountedAccount(p))
  BY DEF Covering
<1>2. b \in Bindings(c)
  BY DEF Covering
<1>3. SUFFICES <<a, role, 80>> \in SubjectEdges(c, s, role)
  <2> HIDE DEF a, role
  <2>1. <<a, role, 80>> \in SubjectEdges(c, s, RoleOf(c, b)) => <<a, role, 80>> \in BindingEdges(c)
    BY <1>2 DEF BindingEdges
  <2> QED
    BY <2>1 DEF a, role
<1>4. CASE s.kind = "serviceaccount" /\ NsOrDefault(s.ns) = NsOrDefault(p.ns) /\ s.name = MountedAccount(p)
  <2>1. a = Account(c, s.ns, s.name)
    BY <1>4 DEF Account
  <2> HIDE DEF a, role
  <2> QED
    BY <1>4, <2>1 DEF SubjectEdges
<1>5. CASE s.kind = "group" /\ s.name \in EveryAccount
  <2>1. a \in ListedAccounts(c)
    BY DEF IsListed
  <2>2. s.name # "system:serviceaccounts:" /\ s.name \notin Anonymous
    BY <1>5 DEF EveryAccount, Anonymous
  <2> HIDE DEF a, role
  <2>3. <<a, role, 80>> \in {<<x, role, 80>> : x \in ListedAccounts(c)}
    BY <2>1
  <2>4. BindGroup(c, s, role) = {<<x, role, 80>> : x \in ListedAccounts(c)}
    BY <1>5, <2>2 DEF BindGroup
  <2>5. SubjectEdges(c, s, role) = BindGroup(c, s, role)
    BY <1>5 DEF SubjectEdges
  <2> QED
    BY <2>3, <2>4, <2>5
<1>6. CASE s.kind = "group" /\ s.name = "system:serviceaccounts:" /\ s.ns = NsOrDefault(p.ns)
  <2>1. a \in ListedIn(c, s.ns)
    <3>1. PICK x \in ObjectsOf(c, "serviceaccount") : a = Account(c, x.ns, x.name)
      BY DEF IsListed, ListedAccounts
    <3>2. NsOrDefault(x.ns) = s.ns
      BY <1>6, <3>1 DEF Account, KubeId
    <3> QED
      BY <3>1, <3>2 DEF ListedIn
  <2>2. s.name \notin EveryAccount /\ s.name \notin Anonymous
    BY <1>6 DEF EveryAccount, Anonymous
  <2> HIDE DEF a, role
  <2>3. <<a, role, 80>> \in {<<x, role, 80>> : x \in ListedIn(c, s.ns)}
    BY <2>1
  <2>4. BindGroup(c, s, role) = {<<x, role, 80>> : x \in ListedIn(c, s.ns)}
    BY <1>6, <2>2 DEF BindGroup
  <2>5. SubjectEdges(c, s, role) = BindGroup(c, s, role)
    BY <1>6 DEF SubjectEdges
  <2> QED
    BY <2>3, <2>4, <2>5
<1> QED
  BY <1>1, <1>4, <1>5, <1>6 DEF Names

\* A role that a binding refers to is one that its reference finds, and the other way round.
LEMMA ReferredIsDefined ==
  ASSUME KubeInv, NEW c \in Clusters, NEW b \in Bindings(c)
  PROVE  Referred(c, b) = Defined(c, b)
<1>1. b.ref.kind \in {"role", "clusterrole"}
  BY BindingsAreKnown, KubeAssumption DEF KubeInv
<1>2. \A r \in Roles(c) : r.kind \in {"role", "clusterrole"}
  BY DEF Roles, ObjectsOf
<1>3. \A r \in Roles(c) :
        RoleKey(r.kind, r.ns, r.name) = RoleKey(b.ref.kind, b.ns, b.ref.name)
          <=> /\ r.kind = b.ref.kind /\ r.name = b.ref.name
              /\ r.kind = "role" => NsOrDefault(r.ns) = NsOrDefault(b.ns)
  BY <1>1, <1>2 DEF RoleKey
<1> QED
  BY <1>3 DEF Referred, Defined

LEMMA EscalationsDrawn ==
  ASSUME KubeInv, NEW c \in Clusters, NEW p \in ObjectsOf(c, "pod"),
         Escapes(p) \/ (IsListed(c, p) /\ \E rule \in RulesOf(c, p) : Gives(rule, rule.resources \ {"*"}))
  PROVE  Reached(InCluster, Pod(c, p)) \cap Jewels(c) # {}
<1> DEFINE from == Pod(c, p)
           serving == Account(c, p.ns, MountedAccount(p))
           admin == ClusterAdmin(c)
<1>1. /\ PodEdges(c) \subseteq DrawnEdges
      /\ BindingEdges(c) \subseteq DrawnEdges
  BY DEF DumpEdges, DrawnEdges
<1>2. from \notin Principals /\ serving \notin Principals
  BY PrincipalLabels DEF Pod, Account, KubeId
<1>3. admin \in Jewels(c)
  BY DEF Jewels
<1>4. CASE Escapes(p)
  <2>1. <<from, admin, 95>> \in EscapeEdges(c, p)
    BY <1>4 DEF EscapeEdges
  <2>2. <<from, admin, 95>> \in PodEdges(c)
    BY <2>1 DEF PodEdges
  <2> HIDE DEF from, admin
  <2>3. <<from, admin, 95>> \in InCluster
    BY <1>1, <1>2, <2>2 DEF InCluster
  <2>4. admin \in Reached(InCluster, from)
    BY <2>3, ReachedInThree
  <2> QED
    BY <1>3, <2>4 DEF from
<1>5. CASE IsListed(c, p) /\ \E rule \in RulesOf(c, p) : Gives(rule, rule.resources \ {"*"})
  <2>1. PICK rule \in RulesOf(c, p) : Gives(rule, rule.resources \ {"*"})
    BY <1>5
  <2>2. PICK b \in Covering(c, p) : rule \in UNION {{r.rules[i] : i \in DOMAIN r.rules} : r \in Referred(c, b)}
    BY <2>1 DEF RulesOf
  <2>3. PICK r \in Referred(c, b) : rule \in {r.rules[i] : i \in DOMAIN r.rules}
    BY <2>2
  <2>4. PICK i \in DOMAIN r.rules : rule = r.rules[i]
    BY <2>3
  <2>5. b \in Bindings(c)
    BY DEF Covering
  <2>6. r \in Defined(c, b)
    BY <2>5, ReferredIsDefined
  <2>7. Having(rule) # {}
    BY <2>1 DEF Gives, Having
  <2>8. Escalating(r) # {}
    BY <2>4, <2>7 DEF Escalating
  <2> DEFINE role == RoleOf(c, b)
  <2>9. <<from, serving, 80>> \in PodEdges(c)
    <3>1. <<from, serving, 80>> \in EscapeEdges(c, p) \cup {<<from, serving, 80>>}
      OBVIOUS
    <3> QED
      BY <3>1, Zenon DEF PodEdges
  <2>10. <<serving, role, 80>> \in BindingEdges(c)
    BY <1>5, CoveringIsDrawn
  <2>11. role \notin Principals
    BY <2>5, RolesAreNoPrincipals
  <2>12. BindsAdmin(c, b) => role \in Jewels(c)
    BY <2>5 DEF Jewels
  <2>13. ASSUME ~BindsAdmin(c, b)
         PROVE  \E w : <<role, admin, w>> \in BindingEdges(c)
    <3>1. <<role, admin, Primitives[EscalateReason(r)].weight>> \in EscalationEdges(c, b)
      BY <2>6, <2>8, <2>13 DEF EscalationEdges
    <3> HIDE DEF role, admin
    <3> DEFINE w == Primitives[EscalateReason(r)].weight
    <3> HIDE DEF w
    <3>2. <<role, admin, w>> \in EscalationEdges(c, b)
      BY <3>1 DEF w
    <3>3. <<role, admin, w>> \in BindingEdges(c)
      BY <2>5, <3>2 DEF BindingEdges
    <3> QED
      BY <3>3
  <2> HIDE DEF from, serving, role, admin
  <2>14. <<from, serving, 80>> \in InCluster /\ <<serving, role, 80>> \in InCluster
    BY <1>1, <1>2, <2>9, <2>10 DEF InCluster
  <2>15. \A w : <<role, admin, w>> \in BindingEdges(c) => <<role, admin, w>> \in InCluster
    BY <1>1, <2>11 DEF InCluster
  <2>16. role \in Reached(InCluster, from)
    BY <2>14, ReachedInThree
  <2>17. ASSUME NEW w, <<role, admin, w>> \in InCluster
         PROVE  admin \in Reached(InCluster, from)
    BY <2>14, <2>17, ReachedInThree
  <2> QED
    BY <1>3, <2>12, <2>13, <2>15, <2>16, <2>17 DEF from
<1> QED
  BY <1>4, <1>5

---------------------------------------------------------------------------
(***************************************************************************)
(* Nothing else is drawn.                                                  *)
(***************************************************************************)

\* What stands in a cluster itself, or lets anybody into it.
StandsIn(c, x) ==
  \/ \E label \in {"Container", "LoadBalancer", "ServiceAccount", "IAMRole"} : \E k : x = KubeId(label, c, k)
  \/ \E g \in Anonymous : x = KubeId("User", c, <<"group", g>>)

\* Whose an id is.
LEMMA IdsTellClusters ==
  ASSUME NEW c, NEW x, StandsIn(c, x) \/ \E vm : x = Vm(vm)
  PROVE  \A label, d, k : x = KubeId(label, d, k) /\ label # "VirtualMachine"
           => d = c /\ (label = "User" => \E g \in Anonymous : k = <<"group", g>>)
<1> SUFFICES ASSUME NEW label, NEW d, NEW k, x = KubeId(label, d, k), label # "VirtualMachine"
             PROVE  d = c /\ (label = "User" => \E g \in Anonymous : k = <<"group", g>>)
  OBVIOUS
<1>1. x[1] = label /\ x[2] = d /\ x[3] = k
  BY DEF KubeId
<1>2. \A vm : x # Vm(vm)
  BY DEF Vm, KubeId
<1>3. CASE \E l \in {"Container", "LoadBalancer", "ServiceAccount", "IAMRole"} : \E m : x = KubeId(l, c, m)
  <2>1. PICK l, m : l \in {"Container", "LoadBalancer", "ServiceAccount", "IAMRole"} /\ x = KubeId(l, c, m)
    BY <1>3
  <2>2. x[1] = l /\ x[2] = c
    BY <2>1 DEF KubeId
  <2> QED
    BY <1>1, <2>1, <2>2
<1>4. CASE \E g \in Anonymous : x = KubeId("User", c, <<"group", g>>)
  <2>1. PICK g \in Anonymous : x = KubeId("User", c, <<"group", g>>)
    BY <1>4
  <2>2. x[2] = c /\ x[3] = <<"group", g>>
    BY <2>1 DEF KubeId
  <2> QED
    BY <1>1, <2>2
<1> QED
  BY <1>2, <1>3, <1>4 DEF StandsIn

\* From what stands in a cluster, the edges of clusters lead to the same cluster or out
\* of all of them.
LEMMA ClustersAreClosed ==
  ASSUME KubeInv, NEW c, NEW e \in InCluster,
         StandsIn(c, e[1]) \/ e[1] \in Principals \/ \E vm : e[1] = Vm(vm)
  PROVE  StandsIn(c, e[2]) \/ e[2] \in Principals \/ \E vm : e[2] = Vm(vm)
<1>1. e \in DrawnEdges /\ e[1] \notin Principals
  BY DEF InCluster
<1>0. \A label, d, k : e[1] = KubeId(label, d, k) /\ label # "VirtualMachine"
        => d = c /\ (label = "User" => \E g \in Anonymous : k = <<"group", g>>)
  <2> DEFINE x == e[1]
  <2>1. StandsIn(c, x) \/ \E vm : x = Vm(vm)
    BY <1>1
  <2> HIDE DEF x
  <2>2. \A label, d, k : x = KubeId(label, d, k) /\ label # "VirtualMachine"
          => d = c /\ (label = "User" => \E g \in Anonymous : k = <<"group", g>>)
    BY <2>1, IdsTellClusters
  <2> QED
    BY <2>2 DEF x
<1>2. CASE OfAPod(e)
  <2>1. PICK d, p :
            /\ d \in Clusters /\ p \in ObjectsOf(d, "pod")
            /\ e[1] = Pod(d, p)
            /\ \/ e[2] = Account(d, p.ns, MountedAccount(p))
               \/ Escapes(p) /\ (e[2] = ClusterAdmin(d) \/ \E vm : e[2] = Vm(vm))
    BY <1>2 DEF OfAPod
  <2>2. d = c
    BY <1>0, <2>1 DEF Pod
  <2> QED
    BY <2>1, <2>2 DEF StandsIn, Account, ClusterAdmin
<1>3. CASE OfAWayIn(e)
  <2>1. PICK d, k, l, m :
          /\ d \in Clusters
          /\ e[1] = KubeId("LoadBalancer", d, k)
          /\ e[2] = KubeId("Container", d, l) \/ e[2] = KubeId("LoadBalancer", d, m)
    BY <1>3 DEF OfAWayIn
  <2>2. d = c
    BY <1>0, <2>1
  <2> QED
    BY <2>1, <2>2 DEF StandsIn
<1>4. CASE OfARole(e)
  <2>1. PICK d, b :
            /\ d \in Clusters /\ b \in Bindings(d)
            /\ e[1] = RoleOf(d, b) /\ e[2] = ClusterAdmin(d)
    BY <1>4 DEF OfARole
  <2>2. d = c
    BY <1>0, <2>1 DEF RoleOf
  <2> QED
    BY <2>1, <2>2 DEF StandsIn, ClusterAdmin
<1>5. CASE OfASubject(e)
  <2>1. PICK d, b :
            /\ d \in Clusters /\ b \in Bindings(d)
            /\ e[2] = RoleOf(d, b)
            /\ \/ \E ns, name : e[1] = Account(d, ns, name)
               \/ \E g \in Anonymous : e[1] = KubeId("User", d, <<"group", g>>)
               \/ \E n : e[1] = NamedUser(n) \/ (n \notin Anonymous /\ e[1] = NamedGroup(n))
    BY <1>5 DEF OfASubject
  <2>4. CASE \E n : e[1] = NamedUser(n) \/ (n \notin Anonymous /\ e[1] = NamedGroup(n))
    <3>1. ASSUME NEW n, e[1] = NamedUser(n)
          PROVE  FALSE
      <4>1. e[1] = KubeId("User", "", <<"user", n>>)
        BY <3>1 DEF NamedUser, KubeId
      <4>2. PICK g \in Anonymous : <<"user", n>> = <<"group", g>>
        BY <1>0, <4>1
      <4> QED
        BY <4>2
    <3>2. ASSUME NEW n, n \notin Anonymous, e[1] = NamedGroup(n)
          PROVE  FALSE
      <4>1. e[1] = KubeId("User", "", <<"group", n>>)
        BY <3>2 DEF NamedGroup, KubeId
      <4>2. PICK g \in Anonymous : <<"group", n>> = <<"group", g>>
        BY <1>0, <4>1
      <4> QED
        BY <3>2, <4>2
    <3> QED
      BY <2>4, <3>1, <3>2
  <2>5. StandsIn(d, RoleOf(d, b))
    BY DEF StandsIn, RoleOf
  <2>6. \/ \E ns, name : e[1] = Account(d, ns, name)
        \/ \E g \in Anonymous : e[1] = KubeId("User", d, <<"group", g>>)
        => d = c
    <3>1. ASSUME NEW ns, NEW name, e[1] = Account(d, ns, name)
          PROVE  d = c
      BY <1>0, <3>1 DEF Account
    <3>2. ASSUME NEW g \in Anonymous, e[1] = KubeId("User", d, <<"group", g>>)
          PROVE  d = c
      BY <1>0, <3>2
    <3> QED
      BY <3>1, <3>2
  <2> QED
    BY <2>1, <2>4, <2>5, <2>6
<1>6. CASE OfTheCloud(e)
  BY <1>6 DEF OfTheCloud
<1>7. CASE OfAPrincipal(e)
  BY <1>1, <1>7 DEF OfAPrincipal
<1>8. CASE OfAnAccess(e)
  <2>1. PICK a : e[1] = AccessRole(a) /\ e[2] = ClusterAdmin(a.cluster)
    BY <1>8 DEF OfAnAccess
  <2>2. a.cluster = c
    BY <1>0, <2>1 DEF AccessRole
  <2> QED
    BY <2>1, <2>2 DEF StandsIn, ClusterAdmin
<1> QED
  BY <1>1, <1>2, <1>3, <1>4, <1>5, <1>6, <1>7, <1>8, EdgeShapes

\* The crown jewels of a cluster stand in it and are no principals.
LEMMA JewelsStandInTheirs ==
  ASSUME KubeInv, NEW d \in Clusters, NEW x \in Jewels(d)
  PROVE  /\ x \notin Principals
         /\ \E k : x = KubeId("IAMRole", d, k)
<1>1. x = ClusterAdmin(d) \/ \E b \in Bindings(d) : x = RoleOf(d, b)
  BY DEF Jewels
<1> QED
  BY <1>1, RolesAreNoPrincipals DEF ClusterAdmin, RoleOf

\* What stands in a cluster reaches the crown jewels of no other.
LEMMA RoutesStayIn ==
  ASSUME KubeInv, NEW c, NEW from, StandsIn(c, from), NEW d \in Clusters,
         Reached(InCluster, from) \cap Jewels(d) # {}
  PROVE  d = c
<1> DEFINE In(x) == StandsIn(c, x) \/ x \in Principals \/ \E vm : x = Vm(vm)
           S == {x \in {from} \cup {e[2] : e \in InCluster} : In(x)}
<1>1. \A e \in InCluster : In(e[1]) => In(e[2])
  BY ClustersAreClosed
<1>2. In(from)
  OBVIOUS
<1>3. Reached(InCluster, from) \subseteq S
  <2> HIDE DEF In
  <2>1. from \in S
    BY <1>2
  <2>2. \A e \in InCluster : e[1] \in S => e[2] \in S
    BY <1>1
  <2> HIDE DEF S
  <2> QED
    BY <2>1, <2>2, ReachedStaysIn
<1>4. PICK x \in Jewels(d) : x \in Reached(InCluster, from)
  OBVIOUS
<1>5. In(x)
  BY <1>3, <1>4
<1>6. PICK k : x \notin Principals /\ x = KubeId("IAMRole", d, k)
  BY JewelsStandInTheirs
<1> QED
  BY <1>5, <1>6, IdsTellClusters

\* A rule that makes an administrator, or one that has a primitive, gives a primitive.
LEMMA AdminRulesGive ==
  ASSUME NEW rule, ("*" \in rule.verbs /\ "*" \in rule.resources) \/ Having(rule) # {}
  PROVE  Gives(rule, rule.resources)
<1>1. CASE Having(rule) # {}
  BY <1>1 DEF Having, Gives
<1>2. CASE "*" \in rule.verbs /\ "*" \in rule.resources
  <2>1. 1 \in DOMAIN Primitives /\ "*" \in Primitives[1].verbs
    BY DEF Primitives, Primitive
  <2> QED
    BY <1>2, <2>1 DEF Gives
<1> QED
  BY <1>1, <1>2

\* A pod that may not become administrator holds no role that has a primitive or is a
\* crown jewel.
LEMMA CoveringIsBenign ==
  ASSUME KubeInv, NEW c \in Clusters, NEW p \in ObjectsOf(c, "pod"), ~MayBecomeAdmin(c, p),
         NEW b \in Covering(c, p), NEW q \in Bindings(c), RoleOf(c, q) = RoleOf(c, b)
  PROVE  /\ \A r \in Defined(c, q) : Escalating(r) = {}
         /\ ~BindsAdmin(c, q)
<1>1. b \in Bindings(c)
  BY DEF Covering
<1>2. b.ref.kind \in {"role", "clusterrole"} /\ q.ref.kind \in {"role", "clusterrole"}
  BY <1>1, BindingsAreKnown, KubeAssumption DEF KubeInv
<1>3. RoleKey(q.ref.kind, q.ns, q.ref.name) = RoleKey(b.ref.kind, b.ns, b.ref.name)
  BY DEF RoleOf, KubeId
<1>4. q.ref.name = b.ref.name
  BY <1>2, <1>3 DEF RoleKey
<1>5. Defined(c, q) = Referred(c, b)
  BY <1>1, <1>3, ReferredIsDefined DEF Defined
<1>6. \A r \in Referred(c, b) : \A i \in DOMAIN r.rules : ~Gives(r.rules[i], r.rules[i].resources)
  <2> SUFFICES ASSUME NEW r \in Referred(c, b), NEW i \in DOMAIN r.rules
               PROVE  ~Gives(r.rules[i], r.rules[i].resources)
    OBVIOUS
  <2>1. r.rules[i] \in {r.rules[j] : j \in DOMAIN r.rules}
    OBVIOUS
  <2>2. r.rules[i] \in RulesOf(c, p)
    BY <2>1 DEF RulesOf
  <2> QED
    BY <2>2 DEF MayBecomeAdmin
<1>7. ASSUME NEW r \in Defined(c, q)
      PROVE  Escalating(r) = {} /\ ~IsAdminRole(r)
  BY <1>5, <1>6, AdminRulesGive DEF Escalating, IsAdminRole
<1>8. b.ref.name \notin AdminNames
  BY DEF MayBecomeAdmin
<1> QED
  BY <1>4, <1>7, <1>8 DEF BindsAdmin

\* What a pod that may not become administrator reaches.
LEMMA PodsStayBelow ==
  ASSUME KubeInv, NEW c \in Clusters, NEW p \in ObjectsOf(c, "pod"), ~MayBecomeAdmin(c, p)
  PROVE  Reached(InCluster, Pod(c, p)) \cap Jewels(c) = {}
<1> DEFINE from == Pod(c, p)
           serving == Account(c, p.ns, MountedAccount(p))
           held == {RoleOf(c, b) : b \in Covering(c, p)}
           S == {from, serving} \cup held \cup Principals
<1>0. \A b \in Covering(c, p) : b \in Bindings(c)
  BY DEF Covering
<1>1. ASSUME NEW e \in InCluster, e[1] \in S
      PROVE  e[2] \in S
  <2>1. e \in DrawnEdges /\ e[1] \notin Principals
    BY DEF InCluster
  <2>2. CASE OfAPod(e)
    <3>1. PICK d, q :
            /\ d \in Clusters /\ q \in ObjectsOf(d, "pod")
            /\ e[1] = Pod(d, q)
            /\ \/ e[2] = Account(d, q.ns, MountedAccount(q))
               \/ Escapes(q) /\ (e[2] = ClusterAdmin(d) \/ \E vm : e[2] = Vm(vm))
      BY <2>2 DEF OfAPod
    <3>2. Pod(d, q) = Pod(c, p)
      BY <1>1, <2>1, <3>1 DEF Pod, Account, RoleOf, KubeId
    <3>3. d = c /\ NsOrDefault(q.ns) = NsOrDefault(p.ns) /\ q.name = p.name
      BY <3>2 DEF Pod, KubeId
    <3>4. SameObject(q, p) /\ q \in objects[c] /\ p \in objects[c]
      BY <3>1, <3>3 DEF SameObject, ObjectsOf
    <3>5. q = p
      BY <3>4 DEF KubeInv
    <3>6. ~Escapes(p)
      BY DEF MayBecomeAdmin
    <3> QED
      BY <3>1, <3>3, <3>5, <3>6
  <2>3. CASE OfAWayIn(e)
    BY <1>1, <2>1, <2>3 DEF OfAWayIn, Pod, Account, RoleOf, KubeId
  <2>4. CASE OfARole(e)
    <3>1. PICK d, q :
            /\ d \in Clusters /\ q \in Bindings(d)
            /\ e[1] = RoleOf(d, q) /\ \E r \in Defined(d, q) : Escalating(r) # {}
      BY <2>4 DEF OfARole
    <3>2. PICK b \in Covering(c, p) : RoleOf(d, q) = RoleOf(c, b)
      BY <1>1, <2>1, <3>1 DEF Pod, Account, RoleOf, KubeId
    <3>3. d = c
      BY <3>2 DEF RoleOf, KubeId
    <3> QED
      BY <3>1, <3>2, <3>3, CoveringIsBenign
  <2>5. CASE OfASubject(e)
    <3>1. PICK d, b :
            /\ d \in Clusters /\ b \in Bindings(d)
            /\ e[2] = RoleOf(d, b)
            /\ \/ /\ \E ns, name : e[1] = Account(d, ns, name)
                  /\ \A q \in ObjectsOf(d, "pod") : e[1] = Account(d, q.ns, MountedAccount(q)) => b \in Covering(d, q)
               \/ \E g \in Anonymous : e[1] = KubeId("User", d, <<"group", g>>)
               \/ \E n : e[1] = NamedUser(n) \/ (n \notin Anonymous /\ e[1] = NamedGroup(n))
      BY <2>5 DEF OfASubject
    <3>2. \A k, l : e[1] # KubeId("User", k, l)
      BY <1>1, <2>1 DEF Pod, Account, RoleOf, KubeId
    <3>3. PICK ns, name : e[1] = Account(d, ns, name)
      BY <3>1, <3>2 DEF NamedUser, NamedGroup, KubeId
    <3>4. Account(d, ns, name) = serving
      BY <1>1, <2>1, <3>3 DEF Pod, Account, RoleOf, KubeId
    <3>5. d = c
      BY <3>4 DEF Account, KubeId
    <3>6. \A q \in ObjectsOf(d, "pod") : e[1] = Account(d, q.ns, MountedAccount(q)) => b \in Covering(d, q)
      BY <3>1, <3>2 DEF NamedUser, NamedGroup, KubeId
    <3>7. b \in Covering(c, p)
      BY <3>3, <3>4, <3>5, <3>6
    <3> QED
      BY <3>1, <3>5, <3>7
  <2>6. CASE OfTheCloud(e)
    BY <2>6 DEF OfTheCloud
  <2>7. CASE OfAPrincipal(e)
    BY <2>1, <2>7 DEF OfAPrincipal
  <2>8. CASE OfAnAccess(e)
    <3>1. PICK a : e[1] = AccessRole(a)
      BY <2>8 DEF OfAnAccess
    <3>2. PICK b \in Covering(c, p) : AccessRole(a) = RoleOf(c, b)
      BY <1>1, <2>1, <3>1 DEF Pod, Account, AccessRole, KubeId
    <3> QED
      BY <3>2 DEF AccessRole, RoleOf, RoleKey, KubeId
  <2> QED
    BY <2>1, <2>2, <2>3, <2>4, <2>5, <2>6, <2>7, <2>8, EdgeShapes
<1>2. Reached(InCluster, from) \subseteq S
  <2>1. from \in S
    OBVIOUS
  <2> HIDE DEF S, from
  <2> QED
    BY <1>1, <2>1, ReachedStaysIn
<1>3. ASSUME NEW x \in Jewels(c), x \in S
      PROVE  FALSE
  <2>1. x \notin Principals /\ \E k : x = KubeId("IAMRole", c, k)
    BY JewelsStandInTheirs
  <2>2. PICK b \in Covering(c, p) : x = RoleOf(c, b)
    BY <1>3, <2>1 DEF Pod, Account, KubeId
  <2>3. b.ref.kind \in {"role", "clusterrole"}
    BY <1>0, BindingsAreKnown, KubeAssumption DEF KubeInv
  <2>4. b.ref.name # AdminRole
    BY KubeAssumption DEF MayBecomeAdmin
  <2>5. x # ClusterAdmin(c)
    BY <2>2, <2>3, <2>4 DEF ClusterAdmin, RoleOf, RoleKey, KubeId
  <2>6. PICK q \in Bindings(c) : x = RoleOf(c, q) /\ BindsAdmin(c, q)
    BY <2>5 DEF Jewels
  <2> QED
    BY <2>2, <2>6, CoveringIsBenign
<1> QED
  BY <1>2, <1>3

\* What a principal of the account reaches of a cluster names it.
LEMMA MappingsAreNamed ==
  ASSUME KubeInv, NEW c \in Clusters, NEW a \in Principals, Reached(DrawnEdges, a) \cap Jewels(c) # {}
  PROVE  NamedBy(c, a)
<1> DEFINE In(x) == x = a \/ (x \notin Principals /\ \E d, k : x = KubeId("IAMRole", d, k) /\ NamedBy(d, a))
           S == {x \in {a} \cup {e[2] : e \in DrawnEdges} : In(x)}
<1>1. ASSUME NEW e \in DrawnEdges, In(e[1])
      PROVE  In(e[2])
  <2>1. \E arn : a = <<"User", "", <<arn>>>> \/ a = <<"IAMRole", "", <<arn>>>>
    BY PrincipalLabels
  <2>2. \/ \E arn : e[1] = <<"User", "", <<arn>>>>
        \/ \E d, k : e[1] = KubeId("IAMRole", d, k)
    BY <1>1, <2>1 DEF KubeId
  <2>3. ASSUME NEW d, NEW k, e[1] = KubeId("IAMRole", d, k), e[1] \notin Principals
        PROVE  NamedBy(d, a)
    BY <1>1, <2>3 DEF KubeId
  <2>4. CASE OfAPod(e)
    BY <2>2, <2>4 DEF OfAPod, Pod, KubeId
  <2>5. CASE OfAWayIn(e)
    BY <2>2, <2>5 DEF OfAWayIn, KubeId
  <2>6. CASE OfARole(e)
    <3>1. PICK d, b :
            /\ d \in Clusters /\ b \in Bindings(d)
            /\ e[1] = RoleOf(d, b) /\ e[2] = ClusterAdmin(d)
      BY <2>6 DEF OfARole
    <3>2. NamedBy(d, a)
      BY <2>3, <3>1, RolesAreNoPrincipals DEF RoleOf
    <3>3. ClusterAdmin(d) \notin Principals
      BY RolesAreNoPrincipals
    <3> QED
      BY <3>1, <3>2, <3>3 DEF ClusterAdmin
  <2>7. CASE OfASubject(e)
    <3>1. \/ \E d, ns, name : e[1] = Account(d, ns, name)
          \/ \E d, g : e[1] = KubeId("User", d, <<"group", g>>)
          \/ \E n : e[1] = NamedUser(n) \/ e[1] = NamedGroup(n)
      BY <2>7 DEF OfASubject
    <3> DEFINE x == e[1]
    <3>2. x[1] \in {"User", "IAMRole"} /\ (x[1] = "User" => \E arn : x[3] = <<arn>>)
      <4> HIDE DEF x
      <4>1. CASE \E arn : x = <<"User", "", <<arn>>>>
        <5>1. PICK arn : x = <<"User", "", <<arn>>>>
          BY <4>1
        <5>2. x[1] = "User"
          BY <5>1
        <5>3. x[3] = <<arn>>
          BY <5>1
        <5> QED
          BY <5>2, <5>3
      <4>2. CASE \E d, k : x = KubeId("IAMRole", d, k)
        BY <4>2 DEF KubeId
      <4> QED
        BY <2>2, <4>1, <4>2 DEF x
    <3> HIDE DEF x
    <3>3. CASE \E d, ns, name : x = Account(d, ns, name)
      BY <3>2, <3>3 DEF Account, KubeId
    <3>4. CASE \E n : x[1] = "User" /\ (x[3] = <<"group", n>> \/ x[3] = <<"user", n>>)
      <4>1. \A arn, n : <<arn>> # <<"group", n>> /\ <<arn>> # <<"user", n>>
        OBVIOUS
      <4> QED
        BY <3>2, <3>4, <4>1
    <3>5. CASE \E d, g : x = KubeId("User", d, <<"group", g>>)
      BY <3>4, <3>5 DEF KubeId
    <3>6. CASE \E n : x = NamedUser(n) \/ x = NamedGroup(n)
      <4>1. ASSUME NEW n, x = <<"User", "", <<"user", n>>>>
            PROVE  x[1] = "User" /\ x[3] = <<"user", n>>
        BY <4>1
      <4>2. ASSUME NEW n, x = <<"User", "", <<"group", n>>>>
            PROVE  x[1] = "User" /\ x[3] = <<"group", n>>
        BY <4>2
      <4> QED
        BY <3>4, <3>6, <4>1, <4>2 DEF NamedUser, NamedGroup
    <3> QED
      BY <3>1, <3>3, <3>5, <3>6 DEF x
  <2>8. CASE OfTheCloud(e)
    BY <2>2, <2>8 DEF OfTheCloud, KubeId
  <2>9. CASE OfAPrincipal(e)
    <3>1. e[1] = a
      BY <1>1, <2>9 DEF OfAPrincipal
    <3>2. PICK d : /\ NamedBy(d, a)
                   /\ \/ e[2] = ClusterAdmin(d)
                      \/ d \in Clusters /\ \E b \in Bindings(d) : e[2] = RoleOf(d, b)
                      \/ \E x : x.cluster = d /\ e[2] = AccessRole(x)
      BY <2>9, <3>1 DEF OfAPrincipal
    <3>3. e[2] \notin Principals
      BY <3>2, RolesAreNoPrincipals
    <3>4. \E k : e[2] = KubeId("IAMRole", d, k)
      BY <3>2 DEF ClusterAdmin, RoleOf, AccessRole
    <3> QED
      BY <3>2, <3>3, <3>4
  <2>10. CASE OfAnAccess(e)
    <3>1. PICK x : e[1] = AccessRole(x) /\ e[2] = ClusterAdmin(x.cluster)
      BY <2>10 DEF OfAnAccess
    <3>2. NamedBy(x.cluster, a)
      BY <2>3, <3>1, RolesAreNoPrincipals DEF AccessRole
    <3>3. ClusterAdmin(x.cluster) \notin Principals
      BY RolesAreNoPrincipals
    <3> QED
      BY <3>1, <3>2, <3>3 DEF ClusterAdmin
  <2> QED
    BY <2>4, <2>5, <2>6, <2>7, <2>8, <2>9, <2>10, EdgeShapes
<1>2. In(a)
  OBVIOUS
<1>3. Reached(DrawnEdges, a) \subseteq S
  <2> HIDE DEF In
  <2>1. a \in S
    BY <1>2
  <2>2. \A e \in DrawnEdges : e[1] \in S => e[2] \in S
    BY <1>1
  <2> HIDE DEF S
  <2> QED
    BY <2>1, <2>2, ReachedStaysIn
<1>4. PICK x \in Jewels(c) : x \in Reached(DrawnEdges, a)
  OBVIOUS
<1>5. In(x)
  BY <1>3, <1>4
<1>6. x \notin Principals /\ \E k : x = KubeId("IAMRole", c, k)
  BY JewelsStandInTheirs
<1> QED
  BY <1>5, <1>6 DEF KubeId

LEMMA RoutesFromInvariant == KubeInv => RoutesAreReal
<1> SUFFICES ASSUME KubeInv
             PROVE  RoutesAreReal
  OBVIOUS
<1>1. EscalationsAreDrawn
  BY EscalationsDrawn DEF EscalationsAreDrawn
<1>2. NoBorrowedPowers
  <2>1. ASSUME NEW c \in Clusters, NEW d \in Clusters, NEW p \in ObjectsOf(c, "pod"),
               Reached(InCluster, Pod(c, p)) \cap Jewels(d) # {}
        PROVE  d = c /\ MayBecomeAdmin(c, p)
    <3>1. StandsIn(c, Pod(c, p))
      BY DEF StandsIn, Pod
    <3>2. d = c
      BY <2>1, <3>1, RoutesStayIn
    <3> QED
      BY <2>1, <3>2, PodsStayBelow
  <2>2. ASSUME NEW c \in Clusters, NEW d \in Clusters, NEW s \in Seeds(c),
               Reached(InCluster, s) \cap Jewels(d) # {}
        PROVE  d = c
    <3>1. StandsIn(c, s)
      BY DEF Seeds, StandsIn, WayIn
    <3> QED
      BY <2>2, <3>1, RoutesStayIn
  <2> QED
    BY <2>1, <2>2 DEF NoBorrowedPowers
<1>3. MappedWhereNamed
  BY MappingsAreNamed DEF MappedWhereNamed
<1> QED
  BY <1>1, <1>2, <1>3 DEF RoutesAreReal

\* The routes drawn in and into clusters are those there are, of every estate and in
\* whatever order its objects appear (k8s.Parse, eks.Parse).
THEOREM RoutesStayReal == KubeSpec => []RoutesAreReal
<1>1. KubeSpec => []KubeInv
  BY KubeInvInit, KubeInvNext, PTL DEF KubeSpec
<1> QED
  BY <1>1, RoutesFromInvariant, PTL

---------------------------------------------------------------------------
(***************************************************************************)
(* What a plan opens, for every estate, whatever of it is the              *)
(* configuration's, and any edits to either.                               *)
(***************************************************************************)

\* What was made elsewhere.
Elsewise == account \ managed

\* The configuration's facts are its own, before and after the plan; both
\* accounts are ones that AWS accepts; and an instance that an address made
\* elsewhere is bound to is the same before and after.
PlanInv ==
  /\ managed \subseteq account
  /\ planned \cap Elsewise = {}
  /\ WellFormed(account) /\ WellFormed(Applied)
  /\ ToldApart(account \cup planned \cup movable)
  /\ \A f \in Of(Elsewise, "eip"), i \in Of(Applied, "instance") : i.id = f.instance => i \in account

\* Fewer facts are told apart too.
LEMMA ToldApartDown ==
  ASSUME NEW F, NEW G, F \subseteq G, ToldApart(G)
  PROVE  ToldApart(F)
BY DEF ToldApart, Of

\* The invariant holds of every estate to begin with.
LEMMA PlanStarts ==
  ASSUME PlanInit
  PROVE  PlanInv
<1>1. PICK u \in Universes : /\ account = u.theirs \cup u.ours /\ managed = u.ours
                             /\ planned = u.ours /\ movable = u.movable
  BY DEF PlanInit
<1>2. WellFormed(account) /\ managed \cap Elsewise = {} /\ ToldApart(account \cup movable)
  BY <1>1, PlanAssumption DEF Elsewise
<1>3. Applied = account /\ managed \subseteq account /\ planned = managed /\ account \cup planned \cup movable = account \cup movable
  BY <1>1 DEF Applied
<1> QED
  BY <1>2, <1>3 DEF PlanInv, Of

\* No change made elsewhere, edit or apply breaks it.
LEMMA PlanKept ==
  PlanInv /\ [PlanNext]_planVars => PlanInv'
<1> SUFFICES ASSUME PlanInv, [PlanNext]_planVars
             PROVE  PlanInv'
  OBVIOUS
<1>1. ASSUME NEW f \in movable, Elsewhere(f)
      PROVE  PlanInv'
  <2>1. /\ planned = managed /\ f \notin managed /\ account' = Toggle(account, f) /\ WellFormed(account')
        /\ managed' = managed /\ planned' = planned /\ movable' = movable
    BY <1>1 DEF Elsewhere, WellFormed, Of
  <2>2. managed \subseteq account' /\ account' \subseteq account \cup {f}
    BY <2>1 DEF Toggle, PlanInv
  <2>3. Applied' = account'
    BY <2>1, <2>2 DEF Applied
  <2>4. ToldApart((account \cup planned \cup movable)')
    <3>1. (account \cup planned \cup movable)' \subseteq account \cup planned \cup movable
      BY <1>1, <2>1, <2>2
    <3> QED
      BY <3>1, ToldApartDown DEF PlanInv
  <2>5. (planned \cap Elsewise)' = {}
    BY <2>1 DEF Elsewise
  <2>6. WellFormed(Applied)'
    BY <2>1, <2>3 DEF WellFormed, Of
  <2>7. \A x \in Of(Applied', "instance") : x \in account'
    BY <2>3 DEF Of
  <2> QED
    BY <2>1, <2>2, <2>4, <2>5, <2>6, <2>7 DEF PlanInv, Of, WellFormed
<1>2. ASSUME NEW f \in movable, Edit(f)
      PROVE  PlanInv'
  <2>1. /\ f \notin Elsewise /\ planned' = Toggle(planned, f)
        /\ managed' = managed /\ account' = account /\ movable' = movable
    BY <1>2 DEF Edit, Elsewise
  <2>2. WellFormed(Applied)'
    BY <1>2, <2>1 DEF Edit, Applied, WellFormed, Of
  <2>3. planned' \subseteq planned \cup {f} /\ Elsewise' = Elsewise
    BY <2>1 DEF Toggle, Elsewise
  <2>4. ToldApart((account \cup planned \cup movable)')
    <3>1. (account \cup planned \cup movable)' \subseteq account \cup planned \cup movable
      BY <1>2, <2>1, <2>3
    <3> QED
      BY <3>1, ToldApartDown DEF PlanInv
  <2>5. ASSUME NEW x \in Of(Elsewise, "eip"), NEW i \in Of(Applied', "instance"), i.id = x.instance
        PROVE  i \in account
    <3>1. CASE i \in Applied
      BY <2>5, <3>1 DEF PlanInv, Of
    <3>2. CASE i \notin Applied
      <4>1. i = f /\ planned' = planned \cup {f}
        BY <2>1, <3>2 DEF Toggle, Applied, Elsewise, Of
      <4>2. x \in Of(Applied, "eip")
        BY DEF Applied, Elsewise, Of
      <4>3. PICK k \in Of(Applied, "instance") : k.id = x.instance
        BY <4>2 DEF PlanInv, WellFormed
      <4>4. k \in Of(Applied', "instance")
        BY <2>1, <4>1 DEF Applied, Of
      <4>5. k = i
        BY <2>2, <2>5, <4>3, <4>4 DEF WellFormed, Of
      <4> QED
        BY <3>2, <4>5 DEF Of
    <3> QED
      BY <3>1, <3>2
  <2> QED
    BY <2>1, <2>2, <2>3, <2>4, <2>5 DEF PlanInv, WellFormed, Of
<1>3. ASSUME Apply
      PROVE  PlanInv'
  <2>1. account' = Applied /\ managed' = planned /\ planned' = planned /\ movable' = movable
    BY <1>3 DEF Apply
  <2>2. Applied' = Applied /\ Elsewise' = Elsewise
    BY <2>1 DEF Applied, Elsewise, PlanInv
  <2>3. ToldApart((account \cup planned \cup movable)')
    <3>1. (account \cup planned \cup movable)' \subseteq account \cup planned \cup movable
      BY <2>1 DEF Applied
    <3> QED
      BY <3>1, ToldApartDown DEF PlanInv
  <2>4. planned \subseteq Applied
    BY DEF Applied
  <2> QED
    BY <2>1, <2>2, <2>3, <2>4 DEF PlanInv, WellFormed, Of
<1>4. CASE UNCHANGED planVars
  BY <1>4 DEF planVars, PlanInv, Elsewise, Applied, WellFormed, ToldApart, Of
<1> QED
  BY <1>1, <1>2, <1>3, <1>4 DEF PlanNext

---------------------------------------------------------------------------

\* What accounts and their parts keep to: facts are what their fields make
\* them, a subnet has one table and one list of its own, there is one main
\* table, a list has one entry of a number, an id is of one instance.
Sound(E) ==
  /\ \A f \in E : IsFact(f)
  /\ \A f, h \in Of(E, "assoc") : f.subnet = h.subnet => f = h
  /\ \A f, h \in Of(E, "aclassoc") : f.subnet = h.subnet => f = h
  /\ \A f, h \in Of(E, "main") : f = h
  /\ \A f, h \in Of(E, "entry") : f.acl = h.acl /\ f.number = h.number => f = h
  /\ \A f, h \in Of(E, "instance") : f.id = h.id => f = h

\* No association gives the subnet a table.
Unbound(E, s) == \A f \in Of(E, "assoc") : f.subnet # s

\* A part of a sound state is sound.
LEMMA SoundDown ==
  ASSUME NEW E, NEW G, E \subseteq G, Sound(G)
  PROVE  Sound(E)
BY DEF Sound, Of

\* All states of a plan are sound, and what belongs to which is as its name says.
LEMMA PlanIsSound ==
  ASSUME PlanInv
  PROVE  /\ Sound(account) /\ Sound(Applied) /\ Sound(managed) /\ Sound(planned)
         /\ managed \subseteq account /\ planned \subseteq Applied
         /\ \A f : f \in account <=> f \in Elsewise \/ f \in managed
         /\ \A f : f \in Applied <=> f \in Elsewise \/ f \in planned
         /\ \A f \in Elsewise : f \notin managed /\ f \notin planned
<1>1. /\ managed \subseteq account /\ planned \subseteq Applied
      /\ \A f : f \in account <=> f \in Elsewise \/ f \in managed
      /\ \A f : f \in Applied <=> f \in Elsewise \/ f \in planned
      /\ \A f \in Elsewise : f \notin managed /\ f \notin planned
  BY DEF PlanInv, Elsewise, Applied
<1>2. ASSUME NEW E, WellFormed(E), \A f \in E : IsFact(f)
      PROVE  Sound(E)
  BY <1>2 DEF Sound, WellFormed, Of
<1>3. \A f \in account \cup planned : IsFact(f)
  BY DEF PlanInv, ToldApart
<1>4. Sound(account)
  BY <1>2, <1>3 DEF PlanInv
<1>5. Sound(Applied)
  BY <1>1, <1>2, <1>3 DEF PlanInv, Applied
<1> QED
  BY <1>1, <1>4, <1>5, SoundDown

\* Facts by what makes them.
LEMMA FactsAre ==
  ASSUME NEW E, Sound(E)
  PROVE  /\ \A f \in Of(E, "rule") : f = Rule(f.group, f.src, f.ports)
         /\ \A f \in Of(E, "route") : f = Route(f.table, f.via)
         /\ \A f \in Of(E, "subnet") : f = Subnet(f.id)
         /\ \A f \in Of(E, "assoc") : f = Assoc(f.subnet, f.table)
         /\ \A f \in Of(E, "main") : f = Main(f.table)
         /\ \A f \in Of(E, "acl") : f = Acl(f.id)
         /\ \A f \in Of(E, "group") : f = Group(f.id)
         /\ \A f \in Of(E, "aclassoc") : f = AclAssoc(f.subnet, f.acl)
         /\ \A f \in Of(E, "instance") : f = Instance(f.id, f.subnet, f.groups, f.public, f.told) /\ f.public \in BOOLEAN /\ f.told \in BOOLEAN
BY DEF Sound, Of, IsFact

\* A lookup of pairs with different keys.
LEMMA LookupIs ==
  ASSUME NEW pairs, \A p \in pairs : p = <<p[1], p[2]>>, \A p, q \in pairs : p[1] = q[1] => p = q
  PROVE  \A x, y : x \in DOMAIN Lookup(pairs) /\ Lookup(pairs)[x] = y <=> <<x, y>> \in pairs
<1>1. PICK l : l = Lookup(pairs)
  OBVIOUS
<1>2. l = [x \in {p[1] : p \in pairs} |-> (CHOOSE p \in pairs : p[1] = x)[2]]
  BY <1>1 DEF Lookup
<1>3. \A p \in pairs : (CHOOSE q \in pairs : q[1] = p[1]) = p
  OBVIOUS
<1>4. \A p \in pairs : l[p[1]] = p[2]
  BY <1>2, <1>3
<1>5. DOMAIN l = {p[1] : p \in pairs}
  BY <1>2
<1>6. ASSUME NEW x, NEW y, x \in DOMAIN l, l[x] = y
      PROVE  <<x, y>> \in pairs
  <2>1. PICK p \in pairs : p[1] = x
    BY <1>5, <1>6
  <2>2. p[2] = y /\ p = <<p[1], p[2]>>
    BY <1>4, <1>6, <2>1
  <2> QED
    BY <2>1, <2>2
<1>7. ASSUME NEW x, NEW y, <<x, y>> \in pairs
      PROVE  x \in DOMAIN l /\ l[x] = y
  <2>1. PICK p \in pairs : p = <<x, y>>
    BY <1>7
  <2>2. p[1] = x /\ p[2] = y
    BY <2>1
  <2> QED
    BY <1>4, <1>5, <2>2
<1> QED
  BY <1>1, <1>6, <1>7

\* One partial function laid over another.
LEMMA OverIs ==
  ASSUME NEW f, NEW g
  PROVE  /\ DOMAIN Over(f, g) = DOMAIN f \cup DOMAIN g
         /\ \A x \in DOMAIN g : Over(f, g)[x] = g[x]
         /\ \A x \in DOMAIN f : x \notin DOMAIN g => Over(f, g)[x] = f[x]
BY DEF Over

\* An association that a state tells: of a subnet that it manages, or that no data source shows.
Tells(E, s, t) == Assoc(s, t) \in E /\ (Subnet(s) \in E \/ s \notin Looked)

\* The account tells them all.
LEMMA AccountTells == \A s, t : Tells(account, s, t) <=> Assoc(s, t) \in account
BY DEF Tells, Looked

\* Which table a state has a subnet use: its own, or, for one that it manages, the main one.
LEMMA TableOfIs ==
  ASSUME NEW E, Sound(E)
  PROVE  \A s, t : s \in DOMAIN TableOf(E) /\ TableOf(E)[s] = t <=>
                     \/ Tells(E, s, t)
                     \/ Subnet(s) \in E /\ Main(t) \in E /\ Unbound(E, s)
<1>1. PICK own : own = {<<f.subnet, f.table>> : f \in {a \in Of(E, "assoc") : Subnet(a.subnet) \in E \/ a.subnet \notin Looked}}
  OBVIOUS
<1> DEFINE main == {<<s.id, f.table>> : s \in Of(E, "subnet"), f \in Of(E, "main")}
<1>3. TableOf(E) = Over(Lookup(main), Lookup(own))
  BY <1>1 DEF TableOf
<1>4. \A s, t : <<s, t>> \in own <=> Tells(E, s, t)
  BY <1>1, FactsAre DEF Of, Assoc, Tells
<1>5. \A s, t : <<s, t>> \in main <=> Subnet(s) \in E /\ Main(t) \in E
  BY FactsAre DEF Of, Subnet, Main
<1>6. (\A p \in own : p = <<p[1], p[2]>>) /\ (\A p \in main : p = <<p[1], p[2]>>)
  BY <1>1
<1>7. \A p, q \in own : p[1] = q[1] => p = q
  BY <1>1 DEF Sound
<1>8. \A p, q \in main : p[1] = q[1] => p = q
  BY DEF Sound
<1> HIDE DEF main
<1>9. PICK o : o = Lookup(own)
  OBVIOUS
<1>10. PICK m : m = Lookup(main)
  OBVIOUS
<1>11. \A s, t : s \in DOMAIN o /\ o[s] = t <=> Tells(E, s, t)
  <2>1. \A x, y : x \in DOMAIN o /\ o[x] = y <=> <<x, y>> \in own
    BY <1>6, <1>7, <1>9, LookupIs
  <2> QED
    BY <1>4, <2>1
<1>12. \A s, t : s \in DOMAIN m /\ m[s] = t <=> Subnet(s) \in E /\ Main(t) \in E
  <2>1. \A x, y : x \in DOMAIN m /\ m[x] = y <=> <<x, y>> \in main
    BY <1>6, <1>8, <1>10, LookupIs
  <2> QED
    BY <1>5, <2>1
<1>13. \A s : Subnet(s) \in E => (s \notin DOMAIN o <=> Unbound(E, s))
  <2>1. \A s : Unbound(E, s) <=> \A t : Assoc(s, t) \notin E
    BY FactsAre DEF Unbound, Of, Assoc
  <2> QED
    BY <1>11, <2>1 DEF Tells
<1>14. /\ DOMAIN TableOf(E) = DOMAIN m \cup DOMAIN o
       /\ \A x \in DOMAIN o : TableOf(E)[x] = o[x]
       /\ \A x \in DOMAIN m : x \notin DOMAIN o => TableOf(E)[x] = m[x]
  <2>1. TableOf(E) = Over(m, o)
    BY <1>3, <1>9, <1>10
  <2>2. /\ DOMAIN Over(m, o) = DOMAIN m \cup DOMAIN o
        /\ \A x \in DOMAIN o : Over(m, o)[x] = o[x]
        /\ \A x \in DOMAIN m : x \notin DOMAIN o => Over(m, o)[x] = m[x]
    BY OverIs
  <2> QED
    BY <2>1, <2>2
<1> QED
  BY <1>11, <1>12, <1>13, <1>14

\* Which access list a state has a subnet use: the one it is given, or one the state has and AWS shows with its subnets.
LEMMA AclOfIs ==
  ASSUME NEW E, Sound(E), Sound(account)
  PROVE  \A s, a : s \in DOMAIN AclOf(E) /\ AclOf(E)[s] = a <=>
                     \/ AclAssoc(s, a) \in E
                     \/ AclAssoc(s, a) \in account /\ Acl(a) \in E /\ \A f \in Of(E, "aclassoc") : f.subnet # s
<1>1. PICK own : own = {<<f.subnet, f.acl>> : f \in Of(E, "aclassoc")}
  OBVIOUS
<1>2. PICK seen : seen = {<<f.subnet, f.acl>> : f \in Shown(E, "aclassoc")}
  OBVIOUS
<1>3. AclOf(E) = Over(Lookup(seen), Lookup(own))
  BY <1>1, <1>2 DEF AclOf
<1>4. \A s, a : <<s, a>> \in own <=> AclAssoc(s, a) \in E
  BY <1>1, FactsAre DEF Of, AclAssoc
<1>5. \A s, a : <<s, a>> \in seen <=> AclAssoc(s, a) \in account /\ Acl(a) \in E
  <2>1. \A f \in Of(account, "aclassoc") : Container(f) = Acl(f.acl)
    BY DEF Of, Container
  <2> QED
    BY <1>2, <2>1, FactsAre DEF Of, AclAssoc, Shown
<1>6. (\A p \in own : p = <<p[1], p[2]>>) /\ (\A p \in seen : p = <<p[1], p[2]>>)
  BY <1>1, <1>2
<1>7. \A p, q \in own : p[1] = q[1] => p = q
  BY <1>1 DEF Sound
<1>8. \A p, q \in seen : p[1] = q[1] => p = q
  BY <1>2 DEF Sound, Shown
<1>9. PICK o : o = Lookup(own)
  OBVIOUS
<1>10. PICK m : m = Lookup(seen)
  OBVIOUS
<1>11. \A s, a : s \in DOMAIN o /\ o[s] = a <=> AclAssoc(s, a) \in E
  <2>1. \A x, y : x \in DOMAIN o /\ o[x] = y <=> <<x, y>> \in own
    BY <1>6, <1>7, <1>9, LookupIs
  <2> QED
    BY <1>4, <2>1
<1>12. \A s, a : s \in DOMAIN m /\ m[s] = a <=> AclAssoc(s, a) \in account /\ Acl(a) \in E
  <2>1. \A x, y : x \in DOMAIN m /\ m[x] = y <=> <<x, y>> \in seen
    BY <1>6, <1>8, <1>10, LookupIs
  <2> QED
    BY <1>5, <2>1
<1>13. \A s : s \notin DOMAIN o <=> \A f \in Of(E, "aclassoc") : f.subnet # s
  <2>1. \A s : (\A f \in Of(E, "aclassoc") : f.subnet # s) <=> \A a : AclAssoc(s, a) \notin E
    BY FactsAre DEF Of, AclAssoc
  <2> QED
    BY <1>11, <2>1
<1>14. /\ DOMAIN AclOf(E) = DOMAIN m \cup DOMAIN o
       /\ \A x \in DOMAIN o : AclOf(E)[x] = o[x]
       /\ \A x \in DOMAIN m : x \notin DOMAIN o => AclOf(E)[x] = m[x]
  <2>1. AclOf(E) = Over(m, o)
    BY <1>3, <1>9, <1>10
  <2>2. /\ DOMAIN Over(m, o) = DOMAIN m \cup DOMAIN o
        /\ \A x \in DOMAIN o : Over(m, o)[x] = o[x]
        /\ \A x \in DOMAIN m : x \notin DOMAIN o => Over(m, o)[x] = m[x]
    BY OverIs
  <2> QED
    BY <2>1, <2>2
<1> QED
  BY <1>11, <1>12, <1>13, <1>14

---------------------------------------------------------------------------

\* The first entry of the list about the port lets it in.
Permits(E, a, p) ==
  \E e \in Of(E, "entry") :
    /\ e.acl = a /\ p \in e.ports /\ e.allow
    /\ \A o \in Of(E, "entry") : o.acl = a /\ p \in o.ports => e.number <= o.number

\* A port gets through a list when it is open and the first entry about it allows it.
LEMMA FirstMatchIs ==
  ASSUME NEW E, NEW a, NEW open, NEW p
  PROVE  p \in FirstMatch(open, {e \in Of(E, "entry") : e.acl = a}) <=> p \in open /\ Permits(E, a, p)
BY DEF FirstMatch, Permits

\* The entries of a state.
LEMMA EntriesAre ==
  ASSUME NEW E, NEW d
  PROVE  \A e : e \in AclEntries(E, d) <=>
           \/ e \in Of(E, "entry")
           \/ /\ e \in Of(account, "entry") /\ Acl(e.acl) \in E /\ <<e.acl, e.number>> \notin d
              /\ \A n \in Of(E, "entry") : n.acl # e.acl \/ n.number # e.number
<1>1. \A e \in Of(account, "entry") : Container(e) = Acl(e.acl)
  BY DEF Of, Container
<1> QED
  BY <1>1 DEF AclEntries, SetEntries, Shown

\* An entry of the account that the plan does not delete and puts nothing in place of was made elsewhere.
LEMMA KeptEntries ==
  ASSUME PlanInv, NEW e \in Of(account, "entry")
  PROVE  e \in Elsewise <=>
           /\ <<e.acl, e.number>> \notin DroppedACLEntries
           /\ \A n \in Of(planned, "entry") : n.acl # e.acl \/ n.number # e.number
<1>1. <<e.acl, e.number>> \in DroppedACLEntries <=>
        /\ \E f \in Of(managed, "entry") : f.acl = e.acl /\ f.number = e.number
        /\ \A f \in Of(planned, "entry") : f.acl # e.acl \/ f.number # e.number
  BY DEF DroppedACLEntries
<1>2. CASE e \in Elsewise
  <2>1. \A f \in Of(managed, "entry") : f.acl # e.acl \/ f.number # e.number
    BY <1>2, PlanIsSound DEF Sound, Of
  <2>2. \A f \in Of(planned, "entry") : f.acl # e.acl \/ f.number # e.number
    BY <1>2, PlanIsSound DEF Sound, Of
  <2> QED
    BY <1>1, <1>2, <2>1, <2>2
<1>3. CASE e \notin Elsewise
  <2>1. e \in Of(managed, "entry")
    BY <1>3 DEF Elsewise, Of
  <2> QED
    BY <1>1, <1>3, <2>1
<1> QED
  BY <1>2, <1>3

\* The plan shows a list that it holds as it will be, with the entries made elsewhere.
LEMMA PlannedEntries ==
  ASSUME PlanInv, NEW a, Acl(a) \in planned
  PROVE  EntriesOf(Planned, a) = {e \in Of(Applied, "entry") : e.acl = a}
<1>1. Planned.entries = AclEntries(planned, DroppedACLEntries)
  BY DEF Planned, Network
<1>2. ASSUME NEW e, e.acl = a
      PROVE  e \in Planned.entries <=> e \in Of(planned, "entry") \/ (e \in Of(account, "entry") /\ e \in Elsewise)
  <2>1. e \in Planned.entries <=>
          \/ e \in Of(planned, "entry")
          \/ /\ e \in Of(account, "entry") /\ Acl(e.acl) \in planned /\ <<e.acl, e.number>> \notin DroppedACLEntries
             /\ \A n \in Of(planned, "entry") : n.acl # e.acl \/ n.number # e.number
    <3>1. e \in AclEntries(planned, DroppedACLEntries) <=>
            \/ e \in Of(planned, "entry")
            \/ /\ e \in Of(account, "entry") /\ Acl(e.acl) \in planned /\ <<e.acl, e.number>> \notin DroppedACLEntries
               /\ \A n \in Of(planned, "entry") : n.acl # e.acl \/ n.number # e.number
      BY EntriesAre
    <3> QED
      BY <1>1, <3>1, Zenon
  <2>2. Acl(e.acl) \in planned
    BY <1>2
  <2>3. CASE e \in Of(account, "entry")
    BY <2>1, <2>2, <2>3, KeptEntries
  <2> QED
    BY <2>1, <2>3
<1>3. \A e : e \in Of(Applied, "entry") <=> e \in Of(planned, "entry") \/ (e \in Of(account, "entry") /\ e \in Elsewise)
  BY DEF Of, Applied, Elsewise
<1> QED
  BY <1>2, <1>3 DEF EntriesOf

\* The prior view shows a list that it holds as it is.
LEMMA BeforeEntries ==
  ASSUME PlanInv, NEW a, Acl(a) \in managed
  PROVE  EntriesOf(Before, a) = {e \in Of(account, "entry") : e.acl = a}
<1>1. Before.entries = AclEntries(managed, {})
  BY DEF Before, Network
<1>2. ASSUME NEW e, e.acl = a
      PROVE  e \in Before.entries <=> e \in Of(account, "entry")
  <2>1. e \in Before.entries <=>
          \/ e \in Of(managed, "entry")
          \/ e \in Of(account, "entry") /\ \A n \in Of(managed, "entry") : n.acl # e.acl \/ n.number # e.number
    <3>1. e \in AclEntries(managed, {}) <=>
            \/ e \in Of(managed, "entry")
            \/ /\ e \in Of(account, "entry") /\ Acl(e.acl) \in managed /\ <<e.acl, e.number>> \notin {}
               /\ \A n \in Of(managed, "entry") : n.acl # e.acl \/ n.number # e.number
      BY EntriesAre
    <3>2. Acl(e.acl) \in managed
      BY <1>2
    <3> QED
      BY <1>1, <3>1, <3>2
  <2>2. \A n \in Of(managed, "entry") : n \in Of(account, "entry")
    BY DEF PlanInv, Of
  <2>3. Sound(account)
    BY PlanIsSound
  <2> QED
    BY <2>1, <2>2, <2>3 DEF Sound
<1> QED
  BY <1>2 DEF EntriesOf

\* A plan laid over the account shows every list as it will be.
LEMMA OverlayEntries ==
  ASSUME PlanInv, NEW a
  PROVE  EntriesOf(Overlay(Planned, DroppedACLEntries), a) = {e \in Of(Applied, "entry") : e.acl = a}
<1>1. PICK net : net = Overlay(Planned, DroppedACLEntries)
  OBVIOUS
<1>2. LiveRead.entries = Of(account, "entry")
  <2>1. LiveRead.entries = AclEntries(account, {})
    BY DEF LiveRead
  <2> QED
    BY <2>1, EntriesAre
<1>3. ASSUME NEW e \in Of(account, "entry")
      PROVE  e.acl \in Planned.described <=> Acl(e.acl) \in planned
  <2>1. Acl(e.acl) \in account
    BY DEF PlanInv, WellFormed
  <2>2. Acl(e.acl).id = e.acl /\ Acl(e.acl).kind = "acl"
    BY DEF Acl
  <2>3. Planned.described = {f.id : f \in Of(planned, "group") \cup Of(planned, "acl")}
    BY DEF Planned, Network
  <2>4. \A f \in Of(planned, "group") : f.id # e.acl
    BY <2>1, <2>2 DEF PlanInv, ToldApart, Of
  <2>5. \A f \in Of(planned, "acl") : f = Acl(f.id)
    BY PlanIsSound, FactsAre
  <2> QED
    BY <2>2, <2>3, <2>4, <2>5 DEF Of
<1>4. net.entries = SetEntries(LiveRead.entries \ ({e \in LiveRead.entries : e.acl \in Planned.described}
                                                     \cup {e \in LiveRead.entries : <<e.acl, e.number>> \in DroppedACLEntries}),
                               Planned.entries)
  BY <1>1 DEF Overlay
<1>5. \A e : e \in net.entries <=>
        \/ e \in Planned.entries
        \/ /\ e \in Of(account, "entry") /\ Acl(e.acl) \notin planned /\ <<e.acl, e.number>> \notin DroppedACLEntries
           /\ \A n \in Planned.entries : n.acl # e.acl \/ n.number # e.number
  BY <1>2, <1>3, <1>4 DEF SetEntries
<1>6. CASE Acl(a) \in planned
  BY <1>1, <1>5, <1>6, PlannedEntries DEF EntriesOf
<1>7. CASE Acl(a) \notin planned
  <2>1. Planned.entries = AclEntries(planned, DroppedACLEntries)
    BY DEF Planned, Network
  <2>2. ASSUME NEW e, e.acl = a
        PROVE  e \in Planned.entries <=> e \in Of(planned, "entry")
    <3>1. e \in Planned.entries <=>
            \/ e \in Of(planned, "entry")
            \/ /\ e \in Of(account, "entry") /\ Acl(e.acl) \in planned /\ <<e.acl, e.number>> \notin DroppedACLEntries
               /\ \A n \in Of(planned, "entry") : n.acl # e.acl \/ n.number # e.number
      BY <2>1, EntriesAre
    <3>2. Acl(e.acl) \notin planned
      BY <1>7, <2>2
    <3> QED
      BY <3>1, <3>2
  <2>3. ASSUME NEW e, e.acl = a
        PROVE  e \in net.entries <=> e \in Of(Applied, "entry")
    <3>1. e \in net.entries <=>
            \/ e \in Of(planned, "entry")
            \/ /\ e \in Of(account, "entry") /\ <<e.acl, e.number>> \notin DroppedACLEntries
               /\ \A n \in Of(planned, "entry") : n.acl # e.acl \/ n.number # e.number
      BY <1>5, <1>7, <2>2, <2>3
    <3>2. e \in net.entries <=> e \in Of(planned, "entry") \/ (e \in Of(account, "entry") /\ e \in Elsewise)
      <4>1. CASE e \in Of(account, "entry")
        BY <3>1, <4>1, KeptEntries
      <4> QED
        BY <3>1, <4>1
    <3> QED
      BY <3>2 DEF Of, Applied, Elsewise
  <2> QED
    BY <1>1, <2>3 DEF EntriesOf
<1> QED
  BY <1>6, <1>7

---------------------------------------------------------------------------

\* Why a packet gets through: a rule, an address, a route, and no list that stops it.
LetsIn(E, gs, p) == \E r \in Of(E, "rule") : r.group \in gs /\ r.src = Internet /\ p \in r.ports
Chosen(E, s, t) == Assoc(s, t) \in E \/ (Main(t) \in E /\ Unbound(E, s))
Routed(E, s) == \E t : Route(t, Igw) \in E /\ Chosen(E, s, t)
Listed(E, s, p) == \A f \in Of(E, "aclassoc") : f.subnet = s => Permits(E, f.acl, p)

LEMMA ReachesIs ==
  ASSUME NEW E, Sound(E), NEW i, NEW p
  PROVE  Reaches(E, i, p) <=> /\ LetsIn(E, i.groups, p)
                              /\ i.public \/ Eip(i.id) \in E
                              /\ Routed(E, i.subnet)
                              /\ Listed(E, i.subnet, p)
<1>1. (\E r \in Of(E, "route") :
         /\ r.via = Igw
         /\ \/ Assoc(i.subnet, r.table) \in E
            \/ Main(r.table) \in E /\ \A f \in Of(E, "assoc") : f.subnet # i.subnet)
      <=> Routed(E, i.subnet)
  <2>1. \A t : Route(t, Igw) \in E => Route(t, Igw) \in Of(E, "route") /\ Route(t, Igw).via = Igw /\ Route(t, Igw).table = t
    BY DEF Route, Of
  <2>2. \A r \in Of(E, "route") : r \in E /\ r = Route(r.table, r.via)
    BY FactsAre DEF Of
  <2> QED
    BY <2>1, <2>2 DEF Routed, Chosen, Unbound
<1> QED
  BY <1>1 DEF Reaches, LetsIn, Listed, Permits

\* The tables of a state of the plan that lead to the internet.
LEMMA TablesLead ==
  ASSUME PlanInv
  PROVE  /\ \A t : t \in RoutedTables(Planned) <=> Route(t, Igw) \in Planned.routes
         /\ \A t : t \in RoutedTables(Before) <=> Route(t, Igw) \in Before.routes
         /\ Before.routes \subseteq account
<1>1. Planned.routes = Of(planned, "route") \cup Shown(planned, "route") /\ Before.routes = Of(managed, "route") \cup Shown(managed, "route")
  BY DEF Planned, Before, Network, Routes
<1>2. \A f \in Planned.routes \cup Before.routes : f = Route(f.table, f.via)
  BY <1>1, PlanIsSound, FactsAre DEF Shown
<1>3. \A t : Route(t, Igw).table = t /\ Route(t, Igw).via = Igw
  BY DEF Route
<1>4. Before.routes \subseteq account
  BY <1>1 DEF Shown, Of, PlanInv
<1> QED
  BY <1>2, <1>3, <1>4 DEF RoutedTables

\* What is among the things a plan opens.
LEMMA OpenedHas ==
  ASSUME NEW was, NEW next
  PROVE  /\ \A r \in next.rules : Admitted(next, r.group, Internet) \ Admitted(was, r.group, Internet) # {} => r.group \in Opened(was, next)
         /\ \A t \in RoutedTables(next) : t \notin RoutedTables(was) => t \in Opened(was, next)
         /\ \A s \in RoutedSubnets(next) : s \notin RoutedSubnets(was) => s \in Opened(was, next)
         /\ \A a \in next.acls : FirstMatch(Ports, EntriesOf(next, a)) \ FirstMatch(Ports, EntriesOf(was, a)) # {} => a \in Opened(was, next)
         /\ \A i \in next.instances : \A g \in i.groups :
              i.id \notin UnchangedExposure(was, next) /\ g \notin next.described => g \in Opened(was, next)
<1>1. \A r \in next.rules : Admitted(next, r.group, Internet) \ Admitted(was, r.group, Internet) # {} => r.group \in OpenedGroups(was, next)
  BY DEF OpenedGroups
<1>2. /\ \A t \in RoutedTables(next) : t \notin RoutedTables(was) => t \in OpenedRoutes(was, next)
      /\ \A s \in RoutedSubnets(next) : s \notin RoutedSubnets(was) => s \in OpenedRoutes(was, next)
  BY DEF OpenedRoutes
<1>3. \A a \in next.acls : FirstMatch(Ports, EntriesOf(next, a)) \ FirstMatch(Ports, EntriesOf(was, a)) # {} => a \in OpenedLists(was, next)
  BY DEF OpenedLists
<1>4. ASSUME NEW i \in next.instances, NEW g \in i.groups,
             i.id \notin UnchangedExposure(was, next), g \notin next.described
      PROVE  g \in UsedGroups(was, next)
  <2> DEFINE users == {x \in next.instances : x.id \notin UnchangedExposure(was, next)}
  <2>1. i \in users
    BY <1>4
  <2>2. UsedGroups(was, next) = (UNION {x.groups : x \in users}) \ next.described
    BY Zenon DEF UsedGroups
  <2> HIDE DEF users
  <2>3. g \in UNION {x.groups : x \in users}
    BY <2>1
  <2> QED
    BY <1>4, <2>2, <2>3
<1> QED
  BY <1>1, <1>2, <1>3, <1>4 DEF Opened

\* The subnets of a state of the plan that lead to the internet.
LEMMA SubnetsLead ==
  ASSUME PlanInv
  PROVE  /\ \A s : s \in RoutedSubnets(Planned) <=>
                     \E t : /\ t \in RoutedTables(Planned)
                            /\ \/ Tells(planned, s, t)
                               \/ Subnet(s) \in planned /\ Main(t) \in planned /\ Unbound(planned, s)
         /\ \A s : s \in RoutedSubnets(Before) <=>
                     \E t : /\ t \in RoutedTables(Before)
                            /\ \/ Tells(managed, s, t)
                               \/ Subnet(s) \in managed /\ Main(t) \in managed /\ Unbound(managed, s)
<1>1. Planned.tableOf = TableOf(planned) /\ Before.tableOf = TableOf(managed)
  BY DEF Planned, Before, Network
<1>2. Sound(planned) /\ Sound(managed)
  BY PlanIsSound
<1>3. \A s : s \in RoutedSubnets(Planned) <=> s \in DOMAIN TableOf(planned) /\ TableOf(planned)[s] \in RoutedTables(Planned)
  BY <1>1 DEF RoutedSubnets
<1>4. \A s : s \in RoutedSubnets(Before) <=> s \in DOMAIN TableOf(managed) /\ TableOf(managed)[s] \in RoutedTables(Before)
  BY <1>1 DEF RoutedSubnets
<1>5. \A s, t : s \in DOMAIN TableOf(planned) /\ TableOf(planned)[s] = t <=>
                     \/ Tells(planned, s, t)
                     \/ Subnet(s) \in planned /\ Main(t) \in planned /\ Unbound(planned, s)
  BY <1>2, TableOfIs
<1>6. \A s, t : s \in DOMAIN TableOf(managed) /\ TableOf(managed)[s] = t <=>
                     \/ Tells(managed, s, t)
                     \/ Subnet(s) \in managed /\ Main(t) \in managed /\ Unbound(managed, s)
  BY <1>2, TableOfIs
<1> QED
  BY <1>3, <1>4, <1>5, <1>6

\* What the account has of what a plan opens is nothing.
NothingListed == \A id \in Opened(Before, Planned) : ~Exists(id)

\* What the account has is not a placeholder.
LEMMA ThingsExist ==
  /\ \A t : Table(t) \in account => Exists(t)
  /\ \A s : Subnet(s) \in account => Exists(s)
  /\ \A a : Acl(a) \in account => Exists(a)
  /\ \A g : Group(g) \in account => Exists(g)
<1>1. /\ \A t : Table(t).kind = "table" /\ Table(t).id = t
      /\ \A t : Subnet(t).kind = "subnet" /\ Subnet(t).id = t
      /\ \A t : Acl(t).kind = "acl" /\ Acl(t).id = t
      /\ \A t : Group(t).kind = "group" /\ Group(t).id = t
  BY DEF Table, Subnet, Acl, Group
<1> QED
  BY <1>1 DEF Exists

\* A subnet's table that the plan holds leads where it will lead.
LEMMA ChosenHeld ==
  ASSUME PlanInv, NEW s, NEW t, Chosen(Applied, s, t), ~HeldInPart(s)
  PROVE  t \in RoutedTables(Planned)
<1>1. t \in TableIn(Applied, s)
  <2>1. CASE Assoc(s, t) \in Applied
    <3>1. Assoc(s, t) \in {f \in Of(Applied, "assoc") : f.subnet = s} /\ Assoc(s, t).table = t
      BY <2>1 DEF Assoc, Of
    <3> QED
      BY <3>1 DEF TableIn
  <2>2. CASE Main(t) \in Applied /\ Unbound(Applied, s)
    <3>1. Main(t) \in Of(Applied, "main") /\ Main(t).table = t /\ {f \in Of(Applied, "assoc") : f.subnet = s} = {}
      BY <2>2 DEF Main, Of, Unbound
    <3> QED
      BY <3>1 DEF TableIn
  <2> QED
    BY <2>1, <2>2 DEF Chosen
<1> QED
  BY <1>1, TablesLead DEF HeldInPart

\* A way to the internet that a plan gives a subnet is listed, where the plan reads it.
LEMMA RouteIsTold ==
  ASSUME PlanInv, NEW s, Subnet(s) \in account, Routed(Applied, s), ~Misrouted(s), ~HeldInPart(s), NothingListed
  PROVE  Routed(account, s)
<1>1. PICK t : Route(t, Igw) \in Applied /\ Chosen(Applied, s, t)
  BY DEF Routed
<1>2. /\ Sound(account) /\ Sound(Applied) /\ managed \subseteq account /\ planned \subseteq Applied
      /\ \A f : f \in account <=> f \in Elsewise \/ f \in managed
      /\ \A f : f \in Applied <=> f \in Elsewise \/ f \in planned
      /\ \A f \in Elsewise : f \notin managed /\ f \notin planned
  BY PlanIsSound
<1>3. t \in RoutedTables(Planned)
  BY <1>1, ChosenHeld
<1>4. Table(t) \in account => Route(t, Igw) \in account
  <2>1. Table(t) \in account => t \in RoutedTables(Before)
    BY <1>3, ThingsExist, OpenedHas DEF NothingListed
  <2> QED
    BY <2>1, TablesLead
<1>5. ASSUME s \in RoutedSubnets(Planned), Unbound(Elsewise, s)
      PROVE  Routed(account, s)
  <2>1. s \in RoutedSubnets(Before)
    BY <1>5, ThingsExist, OpenedHas DEF NothingListed
  <2>2. PICK u : /\ u \in RoutedTables(Before)
                 /\ \/ Tells(managed, s, u)
                    \/ Subnet(s) \in managed /\ Main(u) \in managed /\ Unbound(managed, s)
    BY <2>1, SubnetsLead
  <2>3. Route(u, Igw) \in account
    BY <2>2, TablesLead
  <2>4. Unbound(managed, s) => Unbound(account, s)
    BY <1>2, <1>5 DEF Unbound, Of
  <2> QED
    BY <1>2, <2>2, <2>3, <2>4 DEF Routed, Chosen, Tells
<1>6. Assoc(s, t).kind = "assoc" /\ Assoc(s, t).subnet = s /\ Assoc(s, t).table = t /\ Main(t).kind = "main" /\ Main(t).table = t
  BY DEF Assoc, Main
<1>7. CASE Assoc(s, t) \in Elsewise
  <2>1. Table(t) \in account
    BY <1>2, <1>6, <1>7 DEF PlanInv, WellFormed, Of
  <2> QED
    BY <1>2, <1>4, <1>7, <2>1 DEF Routed, Chosen
<1>8. CASE Assoc(s, t) \in planned
  <2>1. CASE Tells(planned, s, t)
    <3>1. s \in RoutedSubnets(Planned)
      BY <1>3, <2>1, SubnetsLead
    <3>2. Unbound(Elsewise, s)
      BY <1>2, <1>6, <1>8 DEF Unbound, Of, Sound
    <3> QED
      BY <1>5, <3>1, <3>2
  <2>2. CASE ~Tells(planned, s, t)
    <3>1. Assoc(s, t) \in account
      BY <1>2, <1>6, <1>8, <2>2 DEF Tells, Misrouted, Of
    <3>2. Table(t) \in account
      BY <1>6, <3>1 DEF PlanInv, WellFormed, Of
    <3> QED
      BY <1>4, <3>1, <3>2 DEF Routed, Chosen
  <2> QED
    BY <2>1, <2>2
<1>9. CASE Main(t) \in Applied /\ Unbound(Applied, s)
  <2>1. Unbound(Elsewise, s) /\ Unbound(planned, s)
    BY <1>2, <1>9 DEF Unbound, Of
  <2>2. Unbound(account, s)
    BY <1>2, <1>9 DEF Unbound, Of, Misrouted
  <2>3. CASE Main(t) \in account
    <3>1. Table(t) \in account
      BY <1>6, <2>3 DEF PlanInv, WellFormed, Of
    <3> QED
      BY <1>4, <2>2, <2>3, <3>1 DEF Routed, Chosen
  <2>4. CASE Main(t) \notin account
    <3>1. Main(t) \in planned /\ Main(t) \notin managed
      BY <1>2, <1>9, <2>4
    <3>2. Of(planned, "main") # Of(managed, "main")
      BY <1>6, <3>1 DEF Of
    <3>3. Subnet(s) \in planned
      BY <3>2 DEF Misrouted
    <3>4. s \in RoutedSubnets(Planned)
      BY <1>3, <2>1, <3>1, <3>3, SubnetsLead
    <3> QED
      BY <1>5, <2>1, <3>4
  <2> QED
    BY <2>3, <2>4
<1> QED
  BY <1>1, <1>2, <1>7, <1>8, <1>9 DEF Chosen

\* What a plan has a subnet's list let in is listed, where the plan reads it.
LEMMA ListIsTold ==
  ASSUME PlanInv, NEW s, NEW p \in Ports, Listed(Applied, s, p), ~Misrouted(s), ~HeldInPart(s), NothingListed
  PROVE  Listed(account, s, p)
<1> SUFFICES ASSUME NEW f \in Of(account, "aclassoc"), f.subnet = s
             PROVE  Permits(account, f.acl, p)
  BY DEF Listed
<1>1. f \in Of(Applied, "aclassoc")
  BY PlanIsSound DEF Misrouted, Of
<1>2. Permits(Applied, f.acl, p) /\ Acl(f.acl) \in planned
  BY <1>1 DEF Listed, HeldInPart
<1>3. Acl(f.acl) \in account /\ Acl(f.acl) \in managed
  BY <1>2, PlanIsSound DEF PlanInv, WellFormed
<1>4. p \in FirstMatch(Ports, EntriesOf(Planned, f.acl))
  BY <1>2, PlannedEntries, FirstMatchIs
<1>5. f.acl \in Planned.acls
  <2>1. Planned.acls = {h.id : h \in Of(planned, "acl")} \cup {h.acl : h \in Of(planned, "entry")}
    BY DEF Planned, Network
  <2>2. Acl(f.acl) \in Of(planned, "acl") /\ Acl(f.acl).id = f.acl
    BY <1>2 DEF Acl, Of
  <2> QED
    BY <2>1, <2>2
<1>6. p \in FirstMatch(Ports, EntriesOf(Before, f.acl))
  BY <1>3, <1>4, <1>5, ThingsExist, OpenedHas DEF NothingListed
<1> QED
  BY <1>3, <1>6, BeforeEntries, FirstMatchIs

---------------------------------------------------------------------------

\* The ports that a network's rules leave open to the internet.
OpenTo(net, x) == UNION {Admitted(net, g, Internet) : g \in x.groups}

\* What it takes for a network to show a port of an instance open.
LEMMA ExposureIs ==
  ASSUME NEW net, NEW x, x.public \in BOOLEAN, NEW p
  PROVE  p \in InternetExposure(net, x) <=>
           /\ x.public
           /\ x.subnet \in DOMAIN net.tableOf => net.tableOf[x.subnet] \in RoutedTables(net)
           /\ \E r \in net.rules : r.group \in x.groups /\ r.src = Internet /\ p \in r.ports
           /\ x.subnet \in DOMAIN net.aclOf /\ net.aclOf[x.subnet] \in net.acls =>
                p \in FirstMatch(OpenTo(net, x), EntriesOf(net, net.aclOf[x.subnet]))
<1> DEFINE open == OpenTo(net, x)
<1>1. p \in open <=> \E r \in net.rules : r.group \in x.groups /\ r.src = Internet /\ p \in r.ports
  BY DEF Admitted, OpenTo
<1> HIDE DEF open
<1>2. InternetExposure(net, x) =
        IF ~x.public \/ (x.subnet \in DOMAIN net.tableOf /\ net.tableOf[x.subnet] \notin RoutedTables(net)) THEN {}
        ELSE IF x.subnet \in DOMAIN net.aclOf /\ net.aclOf[x.subnet] \in net.acls THEN FirstMatch(open, EntriesOf(net, net.aclOf[x.subnet]))
        ELSE open
  BY DEF InternetExposure, open, OpenTo
<1>3. \A entries : FirstMatch(open, entries) \subseteq open
  BY DEF FirstMatch
<1>4. CASE ~x.public \/ (x.subnet \in DOMAIN net.tableOf /\ net.tableOf[x.subnet] \notin RoutedTables(net))
  <2>1. InternetExposure(net, x) = {}
    BY <1>2, <1>4
  <2> QED
    BY <1>4, <2>1
<1>5. CASE ~(~x.public \/ (x.subnet \in DOMAIN net.tableOf /\ net.tableOf[x.subnet] \notin RoutedTables(net)))
  <2>1. CASE x.subnet \in DOMAIN net.aclOf /\ net.aclOf[x.subnet] \in net.acls
    <3>1. InternetExposure(net, x) = FirstMatch(open, EntriesOf(net, net.aclOf[x.subnet]))
      BY <1>2, <1>5, <2>1
    <3>2. p \in FirstMatch(open, EntriesOf(net, net.aclOf[x.subnet])) => p \in open
      BY <1>3
    <3> QED
      BY <1>1, <1>5, <2>1, <3>1, <3>2 DEF open
  <2>2. CASE ~(x.subnet \in DOMAIN net.aclOf /\ net.aclOf[x.subnet] \in net.acls)
    <3>1. InternetExposure(net, x) = open
      BY <1>2, <1>5, <2>2
    <3> QED
      BY <1>1, <1>5, <2>2, <3>1
  <2> QED
    BY <2>1, <2>2
<1> QED
  BY <1>4, <1>5

\* The table and the list that a state has a subnet use.
Uses(E, s, t) ==
  \/ Tells(E, s, t)
  \/ Subnet(s) \in E /\ Main(t) \in E /\ Unbound(E, s)
UsesList(E, s, a) ==
  \/ AclAssoc(s, a) \in E
  \/ AclAssoc(s, a) \in account /\ Acl(a) \in E /\ \A f \in Of(E, "aclassoc") : f.subnet # s

Laid == Overlay(Planned, DroppedACLEntries)

\* Laid over the account, the plan's word on a subnet's table goes before the account's, and that before none.
LEMMA LaidTables ==
  ASSUME PlanInv
  PROVE  \A s, t : s \in DOMAIN Laid.tableOf /\ Laid.tableOf[s] = t <=>
           \/ Uses(planned, s, t)
           \/ Uses(account, s, t) /\ \A u : ~Uses(planned, s, u)
           \/ Subnet(s) \in account /\ t = VpcTable /\ \A u : ~Uses(planned, s, u) /\ ~Uses(account, s, u)
<1> DEFINE all == [s \in {f.id : f \in Of(account, "subnet")} |-> VpcTable]
<1>1. Laid.tableOf = Over(Over(all, TableOf(account)), TableOf(planned))
  BY DEF Laid, Overlay, LiveRead, Planned, Network
<1>2. \A s : s \in DOMAIN all <=> Subnet(s) \in account
  BY PlanIsSound, FactsAre DEF Subnet, Of
<1>3. \A s \in DOMAIN all : all[s] = VpcTable
  OBVIOUS
<1> HIDE DEF all
<1>4. \A s, t : s \in DOMAIN TableOf(planned) /\ TableOf(planned)[s] = t <=> Uses(planned, s, t)
  BY PlanIsSound, TableOfIs DEF Uses
<1>5. \A s, t : s \in DOMAIN TableOf(account) /\ TableOf(account)[s] = t <=> Uses(account, s, t)
  BY PlanIsSound, TableOfIs DEF Uses
<1>6. PICK a, b, o : a = TableOf(account) /\ b = TableOf(planned) /\ o = Over(all, a)
  OBVIOUS
<1>7. /\ DOMAIN o = DOMAIN all \cup DOMAIN a
      /\ \A x \in DOMAIN a : o[x] = a[x]
      /\ \A x \in DOMAIN all : x \notin DOMAIN a => o[x] = all[x]
  <2>1. /\ DOMAIN Over(all, a) = DOMAIN all \cup DOMAIN a
        /\ \A x \in DOMAIN a : Over(all, a)[x] = a[x]
        /\ \A x \in DOMAIN all : x \notin DOMAIN a => Over(all, a)[x] = all[x]
    BY OverIs
  <2> QED
    BY <1>6, <2>1
<1>8. /\ DOMAIN Laid.tableOf = DOMAIN o \cup DOMAIN b
      /\ \A x \in DOMAIN b : Laid.tableOf[x] = b[x]
      /\ \A x \in DOMAIN o : x \notin DOMAIN b => Laid.tableOf[x] = o[x]
  <2>1. Laid.tableOf = Over(o, b)
    BY <1>1, <1>6
  <2>2. /\ DOMAIN Over(o, b) = DOMAIN o \cup DOMAIN b
        /\ \A x \in DOMAIN b : Over(o, b)[x] = b[x]
        /\ \A x \in DOMAIN o : x \notin DOMAIN b => Over(o, b)[x] = o[x]
    BY OverIs
  <2> QED
    BY <2>1, <2>2
<1>9. \A s, t : s \in DOMAIN b /\ b[s] = t <=> Uses(planned, s, t)
  BY <1>4, <1>6
<1>10. \A s, t : s \in DOMAIN a /\ a[s] = t <=> Uses(account, s, t)
  BY <1>5, <1>6
<1>11. PICK l : l = Laid.tableOf
  OBVIOUS
<1>12. ASSUME NEW s, NEW t
       PROVE  s \in DOMAIN l /\ l[s] = t <=>
                \/ Uses(planned, s, t)
                \/ Uses(account, s, t) /\ \A u : ~Uses(planned, s, u)
                \/ Subnet(s) \in account /\ t = VpcTable /\ \A u : ~Uses(planned, s, u) /\ ~Uses(account, s, u)
  <2>1. CASE s \in DOMAIN b
    BY <1>8, <1>9, <1>11, <2>1
  <2>2. CASE s \notin DOMAIN b /\ s \in DOMAIN a
    BY <1>7, <1>8, <1>9, <1>10, <1>11, <2>2
  <2>3. CASE s \notin DOMAIN b /\ s \notin DOMAIN a
    BY <1>2, <1>3, <1>7, <1>8, <1>9, <1>10, <1>11, <2>3
  <2> QED
    BY <2>1, <2>2, <2>3
<1> QED
  BY <1>11, <1>12

\* Likewise of a subnet's access list.
LEMMA LaidLists ==
  ASSUME PlanInv
  PROVE  \A s, a : s \in DOMAIN Laid.aclOf /\ Laid.aclOf[s] = a <=>
           \/ UsesList(planned, s, a)
           \/ AclAssoc(s, a) \in account /\ \A c : ~UsesList(planned, s, c)
<1>1. Laid.aclOf = Over(AclOf(account), AclOf(planned))
  BY DEF Laid, Overlay, LiveRead, Planned, Network
<1>2. PICK a, b, l : a = AclOf(account) /\ b = AclOf(planned) /\ l = Laid.aclOf
  OBVIOUS
<1>3. \A s, c : s \in DOMAIN b /\ b[s] = c <=> UsesList(planned, s, c)
  BY <1>2, PlanIsSound, AclOfIs DEF UsesList
<1>4. \A s, c : s \in DOMAIN a /\ a[s] = c <=> AclAssoc(s, c) \in account
  <2>1. \A s, c : s \in DOMAIN AclOf(account) /\ AclOf(account)[s] = c <=>
                     \/ AclAssoc(s, c) \in account
                     \/ AclAssoc(s, c) \in account /\ Acl(c) \in account /\ \A f \in Of(account, "aclassoc") : f.subnet # s
    BY PlanIsSound, AclOfIs
  <2> QED
    BY <1>2, <2>1
<1>5. /\ DOMAIN l = DOMAIN a \cup DOMAIN b
      /\ \A x \in DOMAIN b : l[x] = b[x]
      /\ \A x \in DOMAIN a : x \notin DOMAIN b => l[x] = a[x]
  <2>1. l = Over(a, b)
    BY <1>1, <1>2
  <2>2. /\ DOMAIN Over(a, b) = DOMAIN a \cup DOMAIN b
        /\ \A x \in DOMAIN b : Over(a, b)[x] = b[x]
        /\ \A x \in DOMAIN a : x \notin DOMAIN b => Over(a, b)[x] = a[x]
    BY OverIs
  <2> QED
    BY <2>1, <2>2
<1>6. ASSUME NEW s, NEW c
      PROVE  s \in DOMAIN l /\ l[s] = c <=>
               \/ UsesList(planned, s, c)
               \/ AclAssoc(s, c) \in account /\ \A d : ~UsesList(planned, s, d)
  BY <1>3, <1>4, <1>5
<1> QED
  BY <1>2, <1>6

\* An instance as a state of the plan shows it.
Shaped(E, i) ==
  Instance(i.id, i.subnet, i.groups,
           ~Addressed(E, i) \/ i.public \/ Eip(i.id) \in E \/ (Eip(i.id) \in account /\ i \in account),
           Addressed(E, i))

\* What is shown of an instance.
LEMMA ShapedIs ==
  ASSUME NEW E, NEW i
  PROVE  /\ Shaped(E, i).id = i.id /\ Shaped(E, i).subnet = i.subnet /\ Shaped(E, i).groups = i.groups
         /\ Shaped(E, i).public \in BOOLEAN /\ Shaped(E, i).told \in BOOLEAN
         /\ Shaped(E, i).public <=>
              \/ ~Shaped(E, i).told
              \/ i.public \/ Eip(i.id) \in E \/ (Eip(i.id) \in account /\ i \in account)
         /\ i \in account => Shaped(E, i).told
<1>1. PICK b, c : /\ b = (~Addressed(E, i) \/ i.public \/ Eip(i.id) \in E \/ (Eip(i.id) \in account /\ i \in account))
                  /\ c = Addressed(E, i)
  OBVIOUS
<1>2. /\ b \in BOOLEAN /\ c \in BOOLEAN
      /\ b <=> ~c \/ i.public \/ Eip(i.id) \in E \/ (Eip(i.id) \in account /\ i \in account)
      /\ i \in account => c
  BY <1>1 DEF Addressed
<1>3. Shaped(E, i) = Instance(i.id, i.subnet, i.groups, b, c)
  BY <1>1 DEF Shaped
<1>4. /\ Shaped(E, i).id = i.id /\ Shaped(E, i).subnet = i.subnet /\ Shaped(E, i).groups = i.groups
      /\ Shaped(E, i).public = b /\ Shaped(E, i).told = c
  BY <1>3 DEF Instance
<1> QED
  BY <1>2, <1>4

\* The rules, routes, lists and instances of a plan laid over the account.
LEMMA LaidHas ==
  ASSUME PlanInv
  PROVE  /\ Laid.rules = Of(account, "rule") \cup Of(planned, "rule")
         /\ Laid.routes = Of(account, "route") \cup Of(planned, "route")
         /\ \A t : t \in RoutedTables(Laid) <=> Route(t, Igw) \in account \/ Route(t, Igw) \in planned
         /\ \A f \in Of(account, "acl") \cup Of(planned, "acl") : f.id \in Laid.acls
         /\ Planned.instances = {Shaped(planned, i) : i \in Of(planned, "instance")}
         /\ \A x : x \in Laid.instances <=>
              \/ \E i \in Of(planned, "instance") : x = Shaped(planned, i)
              \/ \E i \in Of(account, "instance") : x = Shaped(account, i) /\ \A k \in Of(planned, "instance") : k.id # i.id
<1>1. /\ Laid.rules = Rules(account) \cup Rules(planned)
      /\ Laid.routes = Routes(account) \cup Routes(planned)
      /\ Laid.acls = Network(account, {}).acls \cup Planned.acls
      /\ Laid.instances = Planned.instances \cup {i \in LiveRead.instances : \A k \in Planned.instances : k.id # i.id}
  BY DEF Laid, Overlay, LiveRead, Planned, Network
<1>2. /\ Laid.rules = Of(account, "rule") \cup Of(planned, "rule")
      /\ Laid.routes = Of(account, "route") \cup Of(planned, "route")
  BY <1>1 DEF Rules, Routes, Shown
<1>3. \A t : t \in RoutedTables(Laid) <=> Route(t, Igw) \in account \/ Route(t, Igw) \in planned
  <2>1. \A f \in Laid.routes : f = Route(f.table, f.via)
    BY <1>2, PlanIsSound, FactsAre
  <2>2. \A t : Route(t, Igw).table = t /\ Route(t, Igw).via = Igw /\ Route(t, Igw).kind = "route"
    BY DEF Route
  <2>3. \A t : t \in RoutedTables(Laid) <=> Route(t, Igw) \in Laid.routes
    BY <2>1, <2>2 DEF RoutedTables
  <2> QED
    BY <1>2, <2>2, <2>3 DEF Of
<1>4. \A f \in Of(account, "acl") \cup Of(planned, "acl") : f.id \in Laid.acls
  BY <1>1 DEF Planned, Network
<1>5. /\ Planned.instances = {Shaped(planned, i) : i \in Of(planned, "instance")}
      /\ LiveRead.instances = {Shaped(account, i) : i \in Of(account, "instance")}
  BY DEF Planned, LiveRead, Network, Instances, Shaped
<1>6. ASSUME NEW x
      PROVE  x \in Laid.instances <=>
              \/ \E i \in Of(planned, "instance") : x = Shaped(planned, i)
              \/ \E i \in Of(account, "instance") : x = Shaped(account, i) /\ \A k \in Of(planned, "instance") : k.id # i.id
  <2>1. \A k : (\A q \in Planned.instances : q.id # k) <=> (\A q \in Of(planned, "instance") : q.id # k)
    BY <1>5, ShapedIs
  <2> QED
    BY <1>1, <1>5, <2>1, ShapedIs
<1> QED
  BY <1>2, <1>3, <1>4, <1>5, <1>6

\* Routing: a subnet that will lead to the internet is shown to.
LEMMA LaidRoutes ==
  ASSUME PlanInv, NEW s, Subnet(s) \in Applied, Routed(Applied, s), ~Misrouted(s), s \in DOMAIN Laid.tableOf
  PROVE  Laid.tableOf[s] \in RoutedTables(Laid)
<1>1. PICK t : Route(t, Igw) \in Applied /\ Chosen(Applied, s, t)
  BY DEF Routed
<1>2. /\ Sound(account) /\ Sound(Applied) /\ managed \subseteq account /\ planned \subseteq Applied
      /\ \A f : f \in account <=> f \in Elsewise \/ f \in managed
      /\ \A f : f \in Applied <=> f \in Elsewise \/ f \in planned
      /\ \A f \in Elsewise : f \notin managed /\ f \notin planned
  BY PlanIsSound
<1>3. t \in RoutedTables(Laid)
  BY <1>1, <1>2, LaidHas
<1>4. PICK u : u = Laid.tableOf[s]
  OBVIOUS
<1>5. \/ Uses(planned, s, u)
      \/ Uses(account, s, u) /\ \A v : ~Uses(planned, s, v)
      \/ Subnet(s) \in account /\ u = VpcTable /\ \A v : ~Uses(planned, s, v) /\ ~Uses(account, s, v)
  BY <1>4, LaidTables
<1>6. \A v : Assoc(s, v).kind = "assoc" /\ Assoc(s, v).subnet = s /\ Assoc(s, v).table = v /\ Main(v).kind = "main" /\ Main(v).table = v
  BY DEF Assoc, Main
<1>7. \A v, w : Assoc(s, v) \in Applied /\ Assoc(s, w) \in Applied => v = w
  <2> SUFFICES ASSUME NEW v, NEW w, Assoc(s, v) \in Applied, Assoc(s, w) \in Applied
               PROVE  v = w
    OBVIOUS
  <2>1. Assoc(s, v) = Assoc(s, w)
    BY <1>2, <1>6 DEF Sound, Of
  <2> QED
    BY <1>6, <2>1
<1>8. CASE Assoc(s, t) \in planned
  <2>1. CASE Tells(planned, s, t)
    <3>1. Uses(planned, s, t)
      BY <2>1 DEF Uses
    <3>2. Uses(planned, s, u)
      BY <1>5, <3>1
    <3>3. u = t
      BY <1>2, <1>6, <1>7, <1>8, <3>2 DEF Uses, Tells, Unbound, Of
    <3> QED
      BY <1>3, <1>4, <3>3
  <2>2. CASE ~Tells(planned, s, t)
    <3>1. s \in Looked /\ Subnet(s) \notin planned
      BY <1>8, <2>2 DEF Tells
    <3>2. \A v : ~Uses(planned, s, v)
      BY <3>1 DEF Uses, Tells
    <3>3. Assoc(s, t) \in account
      BY <1>2, <1>6, <1>8, <3>1 DEF Misrouted, Of
    <3>4. Uses(account, s, t)
      BY <3>3, AccountTells DEF Uses
    <3>5. Uses(account, s, u)
      BY <1>5, <3>2, <3>4
    <3>6. Assoc(s, u) \in account
      BY <1>6, <3>3, <3>5 DEF Uses, Tells, Unbound, Of
    <3>7. Assoc(s, u) = Assoc(s, t)
      BY <1>2, <1>6, <3>3, <3>6 DEF Sound, Of
    <3> QED
      BY <1>3, <1>4, <1>6, <3>7
  <2> QED
    BY <2>1, <2>2
<1>9. CASE Assoc(s, t) \in Elsewise
  <2>1. ASSUME NEW v, Uses(planned, s, v)
        PROVE  FALSE
    <3>1. Assoc(s, v) \in planned => v = t
      BY <1>2, <1>7, <1>9
    <3>2. Assoc(s, v) \notin planned
      BY <1>2, <1>9, <3>1
    <3>3. Subnet(s) \in planned /\ Of(planned, "main") # {}
      BY <1>6, <2>1, <3>2 DEF Uses, Tells, Of
    <3>4. Assoc(s, t) \in Of(account \ managed, "assoc")
      BY <1>6, <1>9 DEF Elsewise, Of
    <3> QED
      BY <1>6, <3>3, <3>4 DEF Misrouted
  <2>2. Uses(account, s, t)
    BY <1>2, <1>9, AccountTells DEF Uses
  <2>3. Uses(account, s, u)
    BY <1>5, <2>1, <2>2
  <2>4. Assoc(s, u) \in account
    BY <1>2, <1>6, <1>9, <2>3 DEF Uses, Tells, Unbound, Of
  <2>5. Assoc(s, u) = Assoc(s, t)
    BY <1>2, <1>6, <1>9, <2>4 DEF Sound, Of
  <2> QED
    BY <1>3, <1>4, <1>6, <2>5
<1>10. CASE Main(t) \in Applied /\ Unbound(Applied, s)
  <2>1. Unbound(account, s) /\ Unbound(planned, s)
    BY <1>2, <1>10 DEF Unbound, Of, Misrouted
  <2>2. \A v : Main(v) \in Applied => v = t
    <3>1. \A v : Main(v) \in Applied => Main(v) = Main(t)
      BY <1>2, <1>6, <1>10 DEF Sound, Of
    <3> QED
      BY <1>6, <3>1
  <2>3. CASE Uses(planned, s, u)
    <3>1. Main(u) \in planned
      BY <1>6, <2>1, <2>3 DEF Uses, Tells, Unbound, Of
    <3> QED
      BY <1>2, <1>3, <1>4, <2>2, <3>1
  <2>4. CASE \A v : ~Uses(planned, s, v)
    <3>1. Main(t) \in account
      <4>1. CASE Main(t) \in planned
        <5>1. Subnet(s) \notin planned
          BY <2>1, <2>4, <4>1 DEF Uses
        <5>2. Of(planned, "main") = Of(managed, "main")
          BY <5>1 DEF Misrouted
        <5> QED
          BY <1>2, <1>6, <4>1, <5>2 DEF Of
      <4> QED
        BY <1>2, <1>10, <4>1
    <3>2. Subnet(s) \in account
      <4>1. Uses(account, s, u) \/ Subnet(s) \in account
        BY <1>5, <2>4
      <4> QED
        BY <1>6, <2>1, <4>1 DEF Uses, Tells, Unbound, Of
    <3>3. Uses(account, s, t)
      BY <2>1, <3>1, <3>2 DEF Uses
    <3>4. Uses(account, s, u)
      BY <1>5, <2>4, <3>3
    <3>5. Main(u) \in account
      BY <1>6, <2>1, <3>4 DEF Uses, Tells, Unbound, Of
    <3>6. Main(u) = Main(t)
      BY <1>2, <1>6, <3>1, <3>5 DEF Sound, Of
    <3> QED
      BY <1>3, <1>4, <1>6, <3>6
  <2> QED
    BY <1>5, <2>3, <2>4
<1> QED
  BY <1>1, <1>2, <1>8, <1>9, <1>10 DEF Chosen

\* Lists: the list that a subnet is shown with is one that it will have.
LEMMA LaidListStands ==
  ASSUME PlanInv, NEW s, ~Misrouted(s), s \in DOMAIN Laid.aclOf
  PROVE  AclAssoc(s, Laid.aclOf[s]) \in Applied
<1>1. PICK a : a = Laid.aclOf[s]
  OBVIOUS
<1>2. UsesList(planned, s, a) \/ (AclAssoc(s, a) \in account /\ \A c : ~UsesList(planned, s, c))
  BY <1>1, LaidLists
<1>3. AclAssoc(s, a) \in planned \/ AclAssoc(s, a) \in account
  BY <1>2 DEF UsesList
<1>4. AclAssoc(s, a).kind = "aclassoc" /\ AclAssoc(s, a).subnet = s
  BY DEF AclAssoc
<1>5. AclAssoc(s, a) \in managed => AclAssoc(s, a) \in planned
  BY <1>4 DEF Misrouted
<1> QED
  BY <1>1, <1>3, <1>5, PlanIsSound

\* What the internet will reach, a plan laid over the account shows exposed.
LEMMA LaidReaches ==
  ASSUME PlanInv, NEW i \in Of(Applied, "instance"), NEW p, Reaches(Applied, i, p),
         ~Misrouted(i.subnet), ~BoundElsewhere(i)
  PROVE  \E x \in Laid.instances : x.id = i.id /\ p \in InternetExposure(Laid, x)
<1>1. /\ Sound(account) /\ Sound(Applied) /\ managed \subseteq account /\ planned \subseteq Applied
      /\ \A f : f \in account <=> f \in Elsewise \/ f \in managed
      /\ \A f : f \in Applied <=> f \in Elsewise \/ f \in planned
      /\ \A f \in Elsewise : f \notin managed /\ f \notin planned
  BY PlanIsSound
<1>2. /\ LetsIn(Applied, i.groups, p)
      /\ i.public \/ Eip(i.id) \in Applied
      /\ Routed(Applied, i.subnet)
      /\ Listed(Applied, i.subnet, p)
  BY <1>1, ReachesIs
<1>3. PICK x \in Laid.instances : x.id = i.id /\ x.subnet = i.subnet /\ x.groups = i.groups /\ x.public \in BOOLEAN /\ x.public
  <2>1. CASE i \in planned
    <3>1. Shaped(planned, i) \in Laid.instances
      BY <2>1, LaidHas DEF Of
    <3>2. i.public \/ Eip(i.id) \in planned \/ (Eip(i.id) \in account /\ i \in account)
      <4>1. Eip(i.id).kind = "eip" /\ Eip(i.id).instance = i.id
        BY DEF Eip
      <4>2. Eip(i.id) \in Elsewise => i \in account
        BY <4>1 DEF PlanInv, Of
      <4> QED
        BY <1>1, <1>2, <4>2
    <3> QED
      BY <3>1, <3>2, ShapedIs
  <2>2. CASE i \notin planned
    <3>1. i \in Of(account, "instance")
      BY <1>1, <2>2 DEF Of
    <3>2. \A k \in Of(planned, "instance") : k.id # i.id
      BY <1>1, <2>2 DEF Sound, Of
    <3>3. Shaped(account, i) \in Laid.instances
      BY <3>1, <3>2, LaidHas
    <3>4. i.public \/ Eip(i.id) \in account
      BY <1>1, <1>2, <2>2 DEF BoundElsewhere
    <3> QED
      BY <3>3, <3>4, ShapedIs
  <2> QED
    BY <2>1, <2>2
<1>4. x.subnet \in DOMAIN Laid.tableOf => Laid.tableOf[x.subnet] \in RoutedTables(Laid)
  <2>1. Subnet(i.subnet) \in Applied
    BY DEF PlanInv, WellFormed
  <2> QED
    BY <1>2, <1>3, <2>1, LaidRoutes
<1>5. \E r \in Laid.rules : r.group \in x.groups /\ r.src = Internet /\ p \in r.ports
  <2>1. Of(Applied, "rule") \subseteq Laid.rules
    BY <1>1, LaidHas DEF Of
  <2> QED
    BY <1>2, <1>3, <2>1 DEF LetsIn
<1>6. ASSUME x.subnet \in DOMAIN Laid.aclOf
      PROVE  p \in FirstMatch(OpenTo(Laid, x), EntriesOf(Laid, Laid.aclOf[x.subnet]))
  <2>1. PICK open : open = OpenTo(Laid, x)
    OBVIOUS
  <2>2. p \in open
    BY <1>5, <2>1 DEF Admitted, OpenTo
  <2>3. PICK a : a = Laid.aclOf[x.subnet]
    OBVIOUS
  <2>4. AclAssoc(x.subnet, a) \in Applied
    BY <1>3, <1>6, <2>3, LaidListStands
  <2>5. AclAssoc(x.subnet, a).kind = "aclassoc" /\ AclAssoc(x.subnet, a).subnet = x.subnet /\ AclAssoc(x.subnet, a).acl = a
    BY DEF AclAssoc
  <2>6. Permits(Applied, a, p)
    BY <1>2, <1>3, <2>4, <2>5 DEF Listed, Of
  <2>7. EntriesOf(Laid, a) = {e \in Of(Applied, "entry") : e.acl = a}
    BY OverlayEntries DEF Laid
  <2>8. p \in FirstMatch(open, {e \in Of(Applied, "entry") : e.acl = a})
    BY <2>2, <2>6, FirstMatchIs
  <2> QED
    BY <2>1, <2>3, <2>7, <2>8
<1>7. p \in InternetExposure(Laid, x)
  <2>1. p \in InternetExposure(Laid, x) <=>
           /\ x.public
           /\ x.subnet \in DOMAIN Laid.tableOf => Laid.tableOf[x.subnet] \in RoutedTables(Laid)
           /\ \E r \in Laid.rules : r.group \in x.groups /\ r.src = Internet /\ p \in r.ports
           /\ x.subnet \in DOMAIN Laid.aclOf /\ Laid.aclOf[x.subnet] \in Laid.acls =>
                p \in FirstMatch(OpenTo(Laid, x), EntriesOf(Laid, Laid.aclOf[x.subnet]))
    <3>1. x.public \in BOOLEAN
      BY <1>3
    <3> QED
      BY <3>1, ExposureIs
  <2> QED
    BY <1>3, <1>4, <1>5, <1>6, <2>1
<1> QED
  BY <1>3, <1>7

\* What instances will let one another in, a plan laid over the account shows.
LEMMA LaidLateral ==
  ASSUME PlanInv
  PROVE  Lateral(Network(Applied, {})) \subseteq Lateral(Laid)
<1> DEFINE whole == Network(Applied, {})
<1>1. whole.rules = Rules(Applied) /\ whole.instances = {Shaped(Applied, i) : i \in Of(Applied, "instance")}
  BY DEF Network, Instances, Shaped
<1>2. whole.rules \subseteq Laid.rules
  <2>1. Rules(Applied) \subseteq Of(account, "rule") \cup Of(planned, "rule")
    BY DEF Rules, Shown, Applied, Of
  <2> QED
    BY <1>1, <2>1, LaidHas
<1>3. ASSUME NEW x \in whole.instances
      PROVE  \E y \in Laid.instances : y.id = x.id /\ y.groups = x.groups
  <2>1. PICK i \in Of(Applied, "instance") : x = Shaped(Applied, i)
    BY <1>1
  <2>2. CASE i \in planned
    <3>1. Shaped(planned, i) \in Laid.instances
      BY <2>2, LaidHas DEF Of
    <3> QED
      BY <2>1, <3>1, ShapedIs
  <2>3. CASE i \notin planned
    <3>1. i \in Of(account, "instance")
      BY <2>3 DEF Of, Applied
    <3>2. \A k \in Of(planned, "instance") : k.id # i.id
      BY <2>3, PlanIsSound DEF Sound, Of
    <3>3. Shaped(account, i) \in Laid.instances
      BY <3>1, <3>2, LaidHas
    <3> QED
      BY <2>1, <3>3, ShapedIs
  <2> QED
    BY <2>2, <2>3
<1>4. \A g, h : Admitted(whole, g, h) \subseteq Admitted(Laid, g, h)
  BY <1>2 DEF Admitted
<1> HIDE DEF whole
<1>5. ASSUME NEW pair \in Lateral(whole)
      PROVE  pair \in Lateral(Laid)
  <2>1. PICK xy \in whole.instances \X whole.instances :
          /\ pair = <<xy[1].id, xy[2].id>>
          /\ xy[1].id # xy[2].id
          /\ \E g \in xy[2].groups, h \in xy[1].groups : Admitted(whole, g, h) # {}
    BY <1>5 DEF Lateral
  <2>2. PICK a \in Laid.instances : a.id = xy[1].id /\ a.groups = xy[1].groups
    BY <1>3
  <2>3. PICK b \in Laid.instances : b.id = xy[2].id /\ b.groups = xy[2].groups
    BY <1>3
  <2>4. \E g \in b.groups, h \in a.groups : Admitted(Laid, g, h) # {}
    BY <1>4, <2>1, <2>2, <2>3
  <2>5. PICK ab \in Laid.instances \X Laid.instances : ab = <<a, b>>
    OBVIOUS
  <2>6. pair = <<ab[1].id, ab[2].id>> /\ ab[1].id # ab[2].id /\ \E g \in ab[2].groups, h \in ab[1].groups : Admitted(Laid, g, h) # {}
    BY <2>1, <2>2, <2>3, <2>4, <2>5
  <2> QED
    BY <2>6 DEF Lateral
<1> QED
  BY <1>5 DEF whole

\* A plan that only adds, laid over the account, shows nothing exposed that the internet will not reach.
LEMMA LaidIsTrue ==
  ASSUME PlanInv, managed \subseteq planned, NEW x \in Laid.instances, NEW p \in InternetExposure(Laid, x),
         Subnet(x.subnet) \in account, ~Misrouted(x.subnet), x.told
  PROVE  \E i \in Of(Applied, "instance") : i.id = x.id /\ Reaches(Applied, i, p)
<1>1. /\ Sound(account) /\ Sound(Applied) /\ managed \subseteq account /\ planned \subseteq Applied
      /\ \A f : f \in account <=> f \in Elsewise \/ f \in managed
      /\ \A f : f \in Applied <=> f \in Elsewise \/ f \in planned
      /\ \A f \in Elsewise : f \notin managed /\ f \notin planned
  BY PlanIsSound
<1>2. \A f : f \in Applied <=> f \in account \/ f \in planned
  BY <1>1
<1>3. PICK i \in Of(Applied, "instance") :
        /\ x.id = i.id /\ x.subnet = i.subnet /\ x.groups = i.groups /\ x.public \in BOOLEAN
        /\ x.public => i.public \/ Eip(i.id) \in Applied
  <2>1. CASE \E k \in Of(planned, "instance") : x = Shaped(planned, k)
    BY <1>2, <2>1, ShapedIs DEF Of
  <2>2. CASE \E k \in Of(account, "instance") : x = Shaped(account, k)
    BY <1>2, <2>2, ShapedIs DEF Of
  <2> QED
    BY <2>1, <2>2, LaidHas
<1>4. /\ x.public
      /\ x.subnet \in DOMAIN Laid.tableOf => Laid.tableOf[x.subnet] \in RoutedTables(Laid)
      /\ \E r \in Laid.rules : r.group \in x.groups /\ r.src = Internet /\ p \in r.ports
      /\ x.subnet \in DOMAIN Laid.aclOf /\ Laid.aclOf[x.subnet] \in Laid.acls =>
           p \in FirstMatch(OpenTo(Laid, x), EntriesOf(Laid, Laid.aclOf[x.subnet]))
  BY <1>3, ExposureIs
<1>5. LetsIn(Applied, i.groups, p)
  <2>1. Laid.rules \subseteq Of(Applied, "rule")
    BY <1>2, LaidHas DEF Of
  <2> QED
    BY <1>3, <1>4, <2>1 DEF LetsIn
<1>6. PICK s : s = i.subnet
  OBVIOUS
<1>7. \A v : Assoc(s, v).kind = "assoc" /\ Assoc(s, v).subnet = s /\ Assoc(s, v).table = v /\ Main(v).kind = "main" /\ Main(v).table = v
  BY DEF Assoc, Main
<1>8. Routed(Applied, s)
  <2>1. PICK t : s \in DOMAIN Laid.tableOf /\ Laid.tableOf[s] = t
    <3>1. \E t : \/ Uses(planned, s, t)
                 \/ Uses(account, s, t) /\ \A u : ~Uses(planned, s, u)
                 \/ Subnet(s) \in account /\ t = VpcTable /\ \A u : ~Uses(planned, s, u) /\ ~Uses(account, s, u)
      BY <1>3, <1>6
    <3> QED
      BY <3>1, LaidTables
  <2>2. Route(t, Igw) \in Applied
    BY <1>2, <1>3, <1>4, <1>6, <2>1, LaidHas
  <2>3. CASE Uses(planned, s, t)
    <3>1. CASE Assoc(s, t) \in planned
      BY <1>2, <2>2, <3>1 DEF Routed, Chosen
    <3>2. CASE Subnet(s) \in planned /\ Main(t) \in planned /\ Unbound(planned, s)
      <4>1. Of(planned, "main") # {}
        BY <1>7, <3>2 DEF Of
      <4>2. Unbound(Elsewise, s)
        BY <1>3, <1>6, <3>2, <4>1 DEF Misrouted, Unbound, Elsewise
      <4>3. Unbound(Applied, s)
        BY <1>1, <3>2, <4>2 DEF Unbound, Of
      <4> QED
        BY <1>2, <2>2, <3>2, <4>3 DEF Routed, Chosen
    <3> QED
      BY <2>3, <3>1, <3>2 DEF Uses, Tells
  <2>4. CASE Uses(account, s, t) /\ \A u : ~Uses(planned, s, u)
    <3>1. CASE Assoc(s, t) \in account
      BY <1>2, <2>2, <3>1 DEF Routed, Chosen
    <3>2. CASE Main(t) \in account /\ Unbound(account, s)
      <4>1. \A f \in Of(planned, "assoc") : f = Assoc(f.subnet, f.table)
        BY PlanIsSound, FactsAre
      <4>2. Unbound(planned, s)
        <5> SUFFICES ASSUME NEW f \in Of(planned, "assoc"), f.subnet = s
                     PROVE  FALSE
          BY DEF Unbound
        <5>1. f = Assoc(s, f.table)
          BY <4>1
        <5>2. ~Tells(planned, s, f.table)
          BY <2>4 DEF Uses
        <5>3. s \in Looked /\ Subnet(s) \notin planned
          BY <5>1, <5>2 DEF Tells, Of
        <5>4. f \in managed
          BY <1>3, <1>6, <5>3 DEF Misrouted, Of
        <5> QED
          BY <1>1, <3>2, <5>4 DEF Unbound, Of
      <4>3. Unbound(Applied, s)
        BY <1>2, <3>2, <4>2 DEF Unbound, Of
      <4> QED
        BY <1>2, <2>2, <3>2, <4>3 DEF Routed, Chosen
    <3> QED
      BY <2>4, <3>1, <3>2 DEF Uses, Tells
  <2>5. CASE t = VpcTable
    <3>1. Route(t, Igw).kind = "route" /\ Route(t, Igw).table = t
      BY DEF Route
    <3>2. Table(t) \in Applied
      BY <2>2, <3>1 DEF PlanInv, WellFormed, Of
    <3>3. Table(VpcTable) \notin account /\ Table(VpcTable) \notin planned
      BY DEF PlanInv, ToldApart
    <3> QED
      BY <1>2, <2>5, <3>2, <3>3
  <2> QED
    BY <2>1, <2>3, <2>4, <2>5, LaidTables
<1>9. Listed(Applied, s, p)
  <2> SUFFICES ASSUME NEW f \in Of(Applied, "aclassoc"), f.subnet = s
               PROVE  Permits(Applied, f.acl, p)
    BY DEF Listed
  <2>1. \A c : AclAssoc(s, c).kind = "aclassoc" /\ AclAssoc(s, c).subnet = s /\ AclAssoc(s, c).acl = c
    BY DEF AclAssoc
  <2>2. \A c : AclAssoc(s, c) \in Applied => c = f.acl
    <3> SUFFICES ASSUME NEW c, AclAssoc(s, c) \in Applied
                 PROVE  c = f.acl
      OBVIOUS
    <3>1. AclAssoc(s, c) = f
      BY <1>1, <2>1 DEF Sound, Of
    <3> QED
      BY <2>1, <3>1
  <2>3. f = AclAssoc(s, f.acl)
    BY <1>1, FactsAre
  <2>4. \A c : UsesList(planned, s, c) => c = f.acl
    BY <1>2, <2>2 DEF UsesList
  <2>5. UsesList(planned, s, f.acl) \/ (AclAssoc(s, f.acl) \in account /\ \A c : ~UsesList(planned, s, c))
    <3>1. AclAssoc(s, f.acl) \in planned => UsesList(planned, s, f.acl)
      BY DEF UsesList
    <3>2. AclAssoc(s, f.acl) \in planned \/ AclAssoc(s, f.acl) \in account
      BY <1>2, <2>3 DEF Of
    <3> QED
      BY <2>4, <3>1, <3>2
  <2>6. s \in DOMAIN Laid.aclOf /\ Laid.aclOf[s] = f.acl
    BY <2>5, LaidLists
  <2>7. f.acl \in Laid.acls
    <3>1. Acl(f.acl) \in Applied
      BY DEF PlanInv, WellFormed
    <3>2. Acl(f.acl) \in Of(account, "acl") \cup Of(planned, "acl") /\ Acl(f.acl).id = f.acl
      BY <1>2, <3>1 DEF Acl, Of
    <3> QED
      BY <3>2, LaidHas
  <2>8. p \in FirstMatch(OpenTo(Laid, x), EntriesOf(Laid, f.acl))
    BY <1>3, <1>4, <1>6, <2>6, <2>7
  <2>9. EntriesOf(Laid, f.acl) = {e \in Of(Applied, "entry") : e.acl = f.acl}
    BY OverlayEntries DEF Laid
  <2>10. PICK open : open = OpenTo(Laid, x)
    OBVIOUS
  <2>11. p \in FirstMatch(open, {e \in Of(Applied, "entry") : e.acl = f.acl})
    BY <2>8, <2>9, <2>10
  <2> QED
    BY <2>11, FirstMatchIs
<1> QED
  BY <1>1, <1>3, <1>4, <1>5, <1>6, <1>8, <1>9, ReachesIs

\* A plan laid over the account shows it as it will be, of any state the invariant allows.
LEMMA OverlayShows ==
  ASSUME PlanInv
  PROVE  OverlayShowsTheEstate
<1>1. After(TRUE) = Laid
  BY DEF After, Laid
<1>2. /\ \A i \in Of(Applied, "instance") : \A p \in Ports :
           Reaches(Applied, i, p) /\ ~Misrouted(i.subnet) /\ ~BoundElsewhere(i) =>
             \E x \in Laid.instances : x.id = i.id /\ p \in InternetExposure(Laid, x)
      /\ Lateral(Network(Applied, {})) \subseteq Lateral(Laid)
      /\ managed \subseteq planned =>
           \A x \in Laid.instances : \A p \in InternetExposure(Laid, x) :
             \/ Subnet(x.subnet) \notin account \/ Misrouted(x.subnet) \/ ~x.told
             \/ \E i \in Of(Applied, "instance") : i.id = x.id /\ Reaches(Applied, i, p)
  BY LaidReaches, LaidLateral, LaidIsTrue
<1> QED
  BY <1>1, <1>2 DEF OverlayShowsTheEstate

---------------------------------------------------------------------------

\* The rules of the two views, and the instances of the prior one.
LEMMA PlanHas ==
  ASSUME PlanInv
  PROVE  /\ Planned.rules = Of(planned, "rule") \cup Shown(planned, "rule")
         /\ Of(managed, "rule") \subseteq Before.rules /\ Before.rules \subseteq account
         /\ Before.instances = {Shaped(managed, i) : i \in Of(managed, "instance")}
<1>1. /\ Planned.rules = Of(planned, "rule") \cup Shown(planned, "rule")
      /\ Before.rules = Of(managed, "rule") \cup Shown(managed, "rule")
      /\ Before.instances = {Shaped(managed, i) : i \in Of(managed, "instance")}
  BY DEF Planned, Before, Network, Rules, Instances, Shaped
<1> QED
  BY <1>1 DEF Shown, Of, PlanInv

\* An instance that is reached through more than its rules let in before is one that the plan does not leave alone.
LEMMA OpenedIsUnsettled ==
  ASSUME PlanInv, NEW i \in Of(Applied, "instance"), i \in planned, NEW p \in Ports, Reaches(Applied, i, p), Opens(i),
         ~Misrouted(i.subnet), ~HeldInPart(i.subnet), NothingListed
  PROVE  i.id \notin UnchangedExposure(Before, Planned)
<1> SUFFICES ASSUME i.id \in UnchangedExposure(Before, Planned)
             PROVE  FALSE
  OBVIOUS
<1>1. PICK x \in Planned.instances : x.id = i.id /\ \E o \in Before.instances : o.id = x.id /\ ExposureInputs(Before, o) = ExposureInputs(Planned, x)
  BY DEF UnchangedExposure
<1>2. PICK o \in Before.instances : o.id = x.id /\ ExposureInputs(Before, o) = ExposureInputs(Planned, x)
  BY <1>1
<1>3. PICK k \in Of(planned, "instance") : x = Shaped(planned, k)
  BY LaidHas
<1>4. k = i
  <2>1. k.id = i.id
    BY <1>1, <1>3, ShapedIs
  <2> QED
    BY <2>1, PlanIsSound DEF Sound, Of
<1>5. PICK j \in Of(managed, "instance") : o = Shaped(managed, j)
  BY PlanHas
<1>6. /\ Sound(account) /\ Sound(Applied) /\ managed \subseteq account /\ planned \subseteq Applied
      /\ \A f : f \in account <=> f \in Elsewise \/ f \in managed
      /\ \A f : f \in Applied <=> f \in Elsewise \/ f \in planned
      /\ \A f \in Elsewise : f \notin managed /\ f \notin planned
  BY PlanIsSound
<1>7. /\ LetsIn(Applied, i.groups, p)
      /\ i.public \/ Eip(i.id) \in Applied
      /\ Routed(Applied, i.subnet)
      /\ Listed(Applied, i.subnet, p)
  BY <1>6, ReachesIs
<1>8. /\ x.id = i.id /\ x.subnet = i.subnet /\ x.groups = i.groups /\ x.public \in BOOLEAN
      /\ i.public \/ Eip(i.id) \in planned \/ (Eip(i.id) \in account /\ i \in account) => x.public
      /\ o.id = j.id /\ o.subnet = j.subnet /\ o.groups = j.groups /\ o.public \in BOOLEAN
      /\ o.public => j.public \/ Eip(j.id) \in managed \/ (Eip(j.id) \in account /\ j \in account)
  <2>1. j \in account
    BY <1>6 DEF Of
  <2> QED
    BY <1>3, <1>4, <1>5, <2>1, ShapedIs
<1>9. /\ o.subnet = x.subnet /\ o.public = x.public
      /\ {<<g, {r \in Before.rules : r.group = g}>> : g \in o.groups} = {<<g, {r \in Planned.rules : r.group = g}>> : g \in x.groups}
  <2>1. PICK a, b : a = ExposureInputs(Before, o) /\ b = ExposureInputs(Planned, x)
    OBVIOUS
  <2>2. /\ a.subnet = o.subnet /\ a.public = o.public /\ b.subnet = x.subnet /\ b.public = x.public
        /\ a.groups = {<<g, {r \in Before.rules : r.group = g}>> : g \in o.groups}
        /\ b.groups = {<<g, {r \in Planned.rules : r.group = g}>> : g \in x.groups}
    BY <2>1 DEF ExposureInputs
  <2> QED
    BY <1>2, <2>1, <2>2
<1>10. \A g \in x.groups : g \in o.groups /\ {r \in Before.rules : r.group = g} = {r \in Planned.rules : r.group = g}
  <2> SUFFICES ASSUME NEW g \in x.groups
               PROVE  g \in o.groups /\ {r \in Before.rules : r.group = g} = {r \in Planned.rules : r.group = g}
    OBVIOUS
  <2>1. <<g, {r \in Planned.rules : r.group = g}>> \in {<<h, {r \in Before.rules : r.group = h}>> : h \in o.groups}
    BY <1>9
  <2> QED
    BY <2>1
<1>11. j \in account /\ Subnet(i.subnet) \in account /\ j.subnet = i.subnet /\ j.id = i.id
  BY <1>1, <1>2, <1>6, <1>8, <1>9 DEF PlanInv, WellFormed, Of
<1>12. Routed(account, j.subnet) /\ Listed(account, j.subnet, p)
  BY <1>7, <1>11, RouteIsTold, ListIsTold
<1>13. j.public \/ Eip(j.id) \in account
  <2>1. Eip(i.id).kind = "eip" /\ Eip(i.id).instance = i.id
    BY DEF Eip
  <2>2. Eip(i.id) \in Elsewise => i \in account
    BY <2>1 DEF PlanInv, Of
  <2>3. x.public
    BY <1>6, <1>7, <1>8, <2>2
  <2> QED
    BY <1>6, <1>8, <1>9, <2>3
<1>14. LetsIn(account, j.groups, p)
  <2>1. PICK r \in Of(Applied, "rule") : r.group \in i.groups /\ r.src = Internet /\ p \in r.ports
    BY <1>7 DEF LetsIn
  <2>2. r.group \in j.groups
    BY <1>8, <1>10, <2>1
  <2>3. r \in account
    <3>1. CASE r \in planned
      <4>1. r \in Planned.rules
        BY <3>1, <2>1, PlanHas DEF Of
      <4>2. r \in Before.rules
        BY <1>8, <1>10, <2>1, <4>1
      <4> QED
        BY <4>2, PlanHas
    <3> QED
      BY <1>6, <2>1, <3>1 DEF Of
  <2> QED
    BY <2>1, <2>2, <2>3 DEF LetsIn, Of
<1>15. Reaches(account, j, p)
  BY <1>6, <1>12, <1>13, <1>14, ReachesIs
<1> QED
  BY <1>11, <1>15 DEF Opens, ReachedIn, Of

\* Read alone, the plan shows what it opens of what it describes, if it shows what lets the packet in.
LEMMA PlanReaches ==
  ASSUME PlanInv, NEW i \in Of(Applied, "instance"), i \in planned, NEW p \in Ports, Reaches(Applied, i, p),
         ~Misrouted(i.subnet), ~HeldInPart(i.subnet),
         \E r \in Planned.rules : r.group \in i.groups /\ r.src = Internet /\ p \in r.ports
  PROVE  p \in InternetExposure(Planned, Shaped(planned, i))
<1>1. PICK x : x = Shaped(planned, i)
  OBVIOUS
<1>2. /\ Sound(account) /\ Sound(Applied) /\ managed \subseteq account /\ planned \subseteq Applied
      /\ \A f : f \in account <=> f \in Elsewise \/ f \in managed
      /\ \A f : f \in Applied <=> f \in Elsewise \/ f \in planned
      /\ \A f \in Elsewise : f \notin managed /\ f \notin planned
  BY PlanIsSound
<1>3. /\ LetsIn(Applied, i.groups, p)
      /\ i.public \/ Eip(i.id) \in Applied
      /\ Routed(Applied, i.subnet)
      /\ Listed(Applied, i.subnet, p)
  BY <1>2, ReachesIs
<1>4. /\ x.id = i.id /\ x.subnet = i.subnet /\ x.groups = i.groups /\ x.public \in BOOLEAN
      /\ i.public \/ Eip(i.id) \in planned \/ (Eip(i.id) \in account /\ i \in account) => x.public
  BY <1>1, ShapedIs
<1>5. x.public
  <2>1. Eip(i.id).kind = "eip" /\ Eip(i.id).instance = i.id
    BY DEF Eip
  <2>2. Eip(i.id) \in Elsewise => i \in account
    BY <2>1 DEF PlanInv, Of
  <2> QED
    BY <1>2, <1>3, <1>4, <2>2
<1>6. PICK s : s = i.subnet
  OBVIOUS
<1>7. s \in DOMAIN Planned.tableOf => Planned.tableOf[s] \in RoutedTables(Planned)
  <2> SUFFICES ASSUME s \in DOMAIN Planned.tableOf
               PROVE  Planned.tableOf[s] \in RoutedTables(Planned)
    OBVIOUS
  <2>1. PICK u : u = Planned.tableOf[s]
    OBVIOUS
  <2>2. Planned.tableOf = TableOf(planned)
    BY DEF Planned, Network
  <2>3. Assoc(s, u) \in planned \/ (Subnet(s) \in planned /\ Main(u) \in planned /\ Unbound(planned, s))
    BY <2>1, <2>2, PlanIsSound, TableOfIs DEF Tells
  <2>4. Main(u).kind = "main"
    BY DEF Main
  <2>5. Chosen(Applied, s, u)
    <3>1. CASE Assoc(s, u) \in planned
      BY <1>2, <3>1 DEF Chosen
    <3>2. CASE Subnet(s) \in planned /\ Main(u) \in planned /\ Unbound(planned, s)
      <4>1. Of(planned, "main") # {}
        BY <2>4, <3>2 DEF Of
      <4>2. Unbound(Elsewise, s)
        BY <1>6, <3>2, <4>1 DEF Misrouted, Unbound, Elsewise
      <4>3. Unbound(Applied, s)
        BY <1>2, <3>2, <4>2 DEF Unbound, Of
      <4> QED
        BY <1>2, <3>2, <4>3 DEF Chosen
    <3> QED
      BY <2>3, <3>1, <3>2
  <2> QED
    BY <1>6, <2>1, <2>5, ChosenHeld
<1>8. ASSUME s \in DOMAIN Planned.aclOf
      PROVE  p \in FirstMatch(OpenTo(Planned, x), EntriesOf(Planned, Planned.aclOf[s]))
  <2>1. p \in OpenTo(Planned, x)
    BY <1>4 DEF OpenTo, Admitted
  <2>2. PICK a : a = Planned.aclOf[s]
    OBVIOUS
  <2>3. Planned.aclOf = AclOf(planned)
    BY DEF Planned, Network
  <2>4. AclAssoc(s, a) \in planned \/ AclAssoc(s, a) \in account
    BY <1>8, <2>2, <2>3, PlanIsSound, AclOfIs
  <2>5. AclAssoc(s, a).kind = "aclassoc" /\ AclAssoc(s, a).subnet = s /\ AclAssoc(s, a).acl = a
    BY DEF AclAssoc
  <2>6. AclAssoc(s, a) \in Of(Applied, "aclassoc")
    <3>1. AclAssoc(s, a) \in managed => AclAssoc(s, a) \in planned
      BY <1>6, <2>5 DEF Misrouted
    <3> QED
      BY <1>2, <2>4, <2>5, <3>1 DEF Of
  <2>7. Permits(Applied, a, p) /\ Acl(a) \in planned
    BY <1>3, <1>6, <2>5, <2>6 DEF Listed, HeldInPart
  <2>8. EntriesOf(Planned, a) = {e \in Of(Applied, "entry") : e.acl = a}
    BY <2>7, PlannedEntries
  <2>9. p \in FirstMatch(OpenTo(Planned, x), {e \in Of(Applied, "entry") : e.acl = a})
    BY <2>1, <2>7, FirstMatchIs
  <2> QED
    BY <2>2, <2>8, <2>9
<1>9. p \in InternetExposure(Planned, x) <=>
           /\ x.public
           /\ x.subnet \in DOMAIN Planned.tableOf => Planned.tableOf[x.subnet] \in RoutedTables(Planned)
           /\ \E r \in Planned.rules : r.group \in x.groups /\ r.src = Internet /\ p \in r.ports
           /\ x.subnet \in DOMAIN Planned.aclOf /\ Planned.aclOf[x.subnet] \in Planned.acls =>
                p \in FirstMatch(OpenTo(Planned, x), EntriesOf(Planned, Planned.aclOf[x.subnet]))
  <2>1. x.public \in BOOLEAN
    BY <1>4
  <2> QED
    BY <2>1, ExposureIs
<1>10. x.subnet = s /\ x.groups = i.groups
  BY <1>4, <1>6
<1>11. p \in InternetExposure(Planned, x)
  BY <1>5, <1>7, <1>8, <1>9, <1>10
<1> QED
  BY <1>1, <1>11

\* What was made elsewhere and the plan opens, it lists.
LEMMA OthersAreListed ==
  ASSUME PlanInv, NEW i \in Of(Applied, "instance"), i \notin planned, Opens(i),
         ~Misrouted(i.subnet), ~HeldInPart(i.subnet), ~BoundElsewhere(i), NothingListed
  PROVE  FALSE
<1>1. PICK p \in Ports : Reaches(Applied, i, p)
  BY DEF Opens, ReachedIn
<1>2. /\ Sound(account) /\ Sound(Applied) /\ managed \subseteq account /\ planned \subseteq Applied
      /\ \A f : f \in account <=> f \in Elsewise \/ f \in managed
      /\ \A f : f \in Applied <=> f \in Elsewise \/ f \in planned
      /\ \A f \in Elsewise : f \notin managed /\ f \notin planned
  BY PlanIsSound
<1>3. /\ LetsIn(Applied, i.groups, p)
      /\ i.public \/ Eip(i.id) \in Applied
      /\ Routed(Applied, i.subnet)
      /\ Listed(Applied, i.subnet, p)
  BY <1>1, <1>2, ReachesIs
<1>4. i \in Of(account, "instance")
  BY <1>2 DEF Of
<1>5. Subnet(i.subnet) \in account /\ \A g \in i.groups : Group(g) \in account
  BY <1>4 DEF PlanInv, WellFormed
<1>6. Routed(account, i.subnet) /\ Listed(account, i.subnet, p)
  BY <1>3, <1>5, RouteIsTold, ListIsTold
<1>7. i.public \/ Eip(i.id) \in account
  BY <1>2, <1>3 DEF BoundElsewhere
<1>8. LetsIn(account, i.groups, p)
  <2>1. PICK r \in Of(Applied, "rule") : r.group \in i.groups /\ r.src = Internet /\ p \in r.ports
    BY <1>3 DEF LetsIn
  <2>2. CASE r \in account
    BY <2>1, <2>2 DEF LetsIn, Of
  <2>3. CASE r \notin account
    <3>1. r \in Planned.rules
      BY <1>2, <2>1, <2>3, PlanHas DEF Of
    <3>2. p \in Admitted(Planned, r.group, Internet)
      BY <2>1, <3>1 DEF Admitted
    <3>3. r.group \notin Opened(Before, Planned)
      BY <1>5, <2>1, ThingsExist DEF NothingListed
    <3>4. p \in Admitted(Before, r.group, Internet)
      BY <3>1, <3>2, <3>3, OpenedHas
    <3>5. PICK b \in Before.rules : b.group = r.group /\ b.src = Internet /\ p \in b.ports
      BY <3>4 DEF Admitted
    <3>6. b \in Of(account, "rule")
      BY PlanHas DEF Before, Network, Rules, Shown, Of
    <3> QED
      BY <2>1, <3>5, <3>6 DEF LetsIn
  <2> QED
    BY <2>2, <2>3
<1>9. Reaches(account, i, p)
  BY <1>2, <1>6, <1>7, <1>8, ReachesIs
<1> QED
  BY <1>4, <1>9 DEF Opens, ReachedIn

\* Read alone, the plan shows or lists what it opens.
LEMMA AloneSeenOrListed ==
  ASSUME PlanInv, NEW estate \in BOOLEAN, NEW i \in Of(Applied, "instance"), Opens(i),
         ~Misrouted(i.subnet), ~HeldInPart(i.subnet), ~BoundElsewhere(i), NothingListed
  PROVE  i.id \in Reported(FALSE, estate)
<1>1. i \in planned
  BY OthersAreListed
<1>2. PICK p \in Ports : Reaches(Applied, i, p)
  BY DEF Opens, ReachedIn
<1>3. i.id \notin UnchangedExposure(Before, Planned)
  BY <1>1, <1>2, OpenedIsUnsettled
<1>4. Shaped(planned, i) \in Planned.instances /\ Shaped(planned, i).id = i.id /\ Shaped(planned, i).groups = i.groups
  BY <1>1, LaidHas, ShapedIs DEF Of
<1>5. \E r \in Planned.rules : r.group \in i.groups /\ r.src = Internet /\ p \in r.ports
  <2>1. PICK r \in Of(Applied, "rule") : r.group \in i.groups /\ r.src = Internet /\ p \in r.ports
    BY <1>2 DEF Reaches
  <2>2. CASE r \in planned
    BY <2>1, <2>2, PlanHas DEF Of
  <2>3. CASE r \notin planned
    <3>1. r \in Of(account, "rule")
      BY <2>1, <2>3 DEF Applied, Of
    <3>2. CASE Group(r.group) \in planned
      <4>1. r \in Shown(planned, "rule")
        BY <3>1, <3>2 DEF Shown, Container, Of
      <4> QED
        BY <2>1, <4>1, PlanHas
    <3>3. CASE Group(r.group) \notin planned
      <4>1. Group(r.group) \in account
        BY <3>1 DEF PlanInv, WellFormed
      <4>2. r.group \notin Planned.described
        <5>1. Planned.described = {f.id : f \in Of(planned, "group") \cup Of(planned, "acl")}
          BY DEF Planned, Network
        <5>2. \A f \in Of(planned, "group") : f.id # r.group
          BY <3>3, PlanIsSound, FactsAre DEF Of
        <5>3. Group(r.group) \in Of(account \cup planned \cup movable, "group") /\ Group(r.group).id = r.group
          BY <4>1 DEF Group, Of
        <5>4. \A f \in Of(planned, "acl") : f \in Of(account \cup planned \cup movable, "acl")
          BY DEF Of
        <5>5. \A f \in Of(planned, "acl") : f.id # r.group
          BY <5>3, <5>4 DEF PlanInv, ToldApart
        <5> QED
          BY <5>1, <5>2, <5>5
      <4>3. r.group \in Opened(Before, Planned)
        BY <1>3, <1>4, <2>1, <4>2, OpenedHas
      <4> QED
        BY <4>1, <4>3, ThingsExist DEF NothingListed
    <3> QED
      BY <3>2, <3>3
  <2> QED
    BY <2>2, <2>3
<1>6. p \in InternetExposure(Planned, Shaped(planned, i))
  BY <1>1, <1>2, <1>5, PlanReaches
<1>7. After(FALSE) = Planned
  BY DEF After
<1> QED
  BY <1>3, <1>4, <1>6, <1>7 DEF Reported

\* Openings are reported or listed, of any state the invariant allows.
LEMMA OpeningsSeen ==
  ASSUME PlanInv
  PROVE  OpeningsAreSeenOrListed
<1> SUFFICES ASSUME NEW read \in BOOLEAN, NEW estate \in BOOLEAN, NEW i \in Of(Applied, "instance"), Opens(i),
                    Outside(read) = {}, ~Misrouted(i.subnet), ~BoundElsewhere(i),
                    ~(~read /\ HeldInPart(i.subnet)), ~(read /\ estate)
             PROVE  i.id \in Reported(read, estate)
  BY DEF OpeningsAreSeenOrListed
<1>1. CASE read
  <2>1. PICK p \in Ports : Reaches(Applied, i, p)
    BY DEF Opens, ReachedIn
  <2>2. PICK x \in Laid.instances : x.id = i.id /\ p \in InternetExposure(Laid, x)
    BY <2>1, LaidReaches
  <2>3. After(read) = Laid
    BY <1>1 DEF After, Laid
  <2> QED
    BY <1>1, <2>2, <2>3 DEF Reported
<1>2. CASE ~read
  <2>1. NothingListed
    BY <1>2 DEF Outside, NothingListed
  <2>2. i.id \in Reported(FALSE, estate)
    BY <1>2, <2>1, AloneSeenOrListed
  <2>3. read = FALSE
    BY <1>2
  <2> QED
    BY <2>2, <2>3
<1> QED
  BY <1>1, <1>2

\* What a plan has the internet reach is reported or listed, and a plan laid over the account
\* shows the account as it will be: whatever the account holds, whoever made it, and
\* whatever the plan changes (terraform.ParseChange, outside, overlay).
THEOREM PlansAreAccountedFor == PlanSpec => []OpeningsAreAccountedFor
<1>1. PlanInit => PlanInv
  BY PlanStarts
<1>2. PlanInv /\ [PlanNext]_planVars => PlanInv'
  BY PlanKept
<1>3. PlanInv => OpeningsAreAccountedFor
  BY OpeningsSeen, OverlayShows DEF OpeningsAreAccountedFor
<1> QED
  BY <1>1, <1>2, <1>3, PTL DEF PlanSpec
=============================================================================
