------------------------------ MODULE MCStores ------------------------------
(***************************************************************************)
(* Small instances of the graph store: the graph in memory, the graph in   *)
(* PostgreSQL, and the graph in memory behind the event bus.  A behaviour  *)
(* is of one of them, and leaves the others' variables alone.              *)
(***************************************************************************)
EXTENDS IngestPipeline, AgeStore, TLC

CONSTANT Subjects   \* which of "memory", "age" and "pipeline" are run

VARIABLE subject

---------------------------------------------------------------------------
(***************************************************************************)
(* The two stores: graphs of two nodes, the two edges between them, one    *)
(* complete-snapshot origin and one partial origin; a third node, with an  *)
(* edge to it, has a label outside the ontology.                           *)
(***************************************************************************)

MCNodes == {"a", "b", "x"}
MCEdges == {"ab", "ba", "ax"}
MCFrom == "ab" :> "a" @@ "ba" :> "b" @@ "ax" :> "a"
MCTo == "ab" :> "b" @@ "ba" :> "a" @@ "ax" :> "x"

Ev(o, ns, es) == [origin |-> o, nodes |-> ns, edges |-> es]

\* The snapshot lists node a and the stated edge; the partial feed guesses the
\* same edge, alone or with the other node and the edge back.
MCShapes ==
  { Ev("snap", {"a"}, "ab" :> FALSE),
    Ev("snap", {"a", "b", "x"}, "ax" :> FALSE),
    Ev("partial", {}, "ab" :> TRUE),
    Ev("partial", {"b"}, "ab" :> TRUE @@ "ba" :> TRUE) }

\* The stores by themselves go no further than this.
StoreTime == 2
StoreRemovals == 1

---------------------------------------------------------------------------
(***************************************************************************)
(* The pipeline: four ingests of one graph of two nodes and the edge       *)
(* between them.  Two are snapshots of the same scope, taken in either     *)
(* order; one is of another scope, one is partial.                         *)
(***************************************************************************)

MCSize == "full" :> 2 @@ "short" :> 1 @@ "wide" :> 1 @@ "feed" :> 1
NoEdges == [k \in {} |-> FALSE]

\* The full snapshot needs two messages, and its edge comes with the second;
\* the short one no longer lists node b; the wide one, of another scope, and
\* the partial feed know b only.
MCShapeOf ==
  <<"full", 1>>  :> Ev("snap", {"a"}, NoEdges) @@
  <<"full", 2>>  :> Ev("snap", {"a", "b"}, "ab" :> FALSE) @@
  <<"short", 1>> :> Ev("snap", {"a"}, NoEdges) @@
  <<"wide", 1>>  :> Ev("snap2", {"b"}, NoEdges) @@
  <<"feed", 1>>  :> Ev("partial", {"b"}, NoEdges)

\* With pruning on, the other scope is left out.
PipelineRuns ==
  /\ PipelineNext
  /\ ttl > 0 => at'["wide"] = 0

---------------------------------------------------------------------------

storeVars ==
  <<nodes, edges, pending, pendingSwept, nodeOrigins, edgeOrigins, removals>>
tableVars == <<vertices, relationships, waiting, looked, provenance, epoch, tables>>
batchVars == <<busVars, at, ttl>>

StoresInit ==
  /\ subject \in Subjects
  /\ AgeInit
  /\ PipelineInit
  /\ subject # "age" => DOMAIN vertices = {}
  /\ subject # "pipeline" => ttl = 0

StoresNext ==
  /\ UNCHANGED subject
  /\ \/ subject = "memory" /\ Next /\ now' <= StoreTime /\ removals' <= StoreRemovals
                              /\ UNCHANGED <<tableVars, batchVars>>
     \/ subject = "age" /\ AgeNext /\ now' <= StoreTime
                           /\ UNCHANGED <<storeVars, batchVars>>
     \/ subject = "pipeline" /\ PipelineRuns /\ UNCHANGED tableVars

StoresSpec == StoresInit /\ [][StoresNext]_<<subject, now, storeVars, tableVars, batchVars>>
=============================================================================
