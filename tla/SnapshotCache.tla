---------------------------- MODULE SnapshotCache ----------------------------
(***************************************************************************)
(* The analyzer's incremental snapshot.  A replica keeps the graph it read *)
(* last and patches it, on each pass, with the elements observed since; a  *)
(* delta carries no deletions, so what left the graph is seen through the  *)
(* store's removal epoch, which costs a full read.                         *)
(*                                                                         *)
(* One replica reads; everyone writes and removes between its reads.  The  *)
(* pass takes its watermark first, then reads the epoch, then the graph:   *)
(* three steps, with the rest of the fleet in between.                     *)
(*                                                                         *)
(* An element's last_seen is its event's, which was observed before it is  *)
(* written: the lag says how long before, at most.                         *)
(***************************************************************************)
EXTENDS Integers, Functions

CONSTANTS
  Elements,          \* nodes and edges
  FullSnapshotEvery, \* incremental passes between two full reads
  MaxLag,            \* bound on the lag
  MaxTime,           \* bound on the clock
  MaxWrites,         \* bound on the writes
  MaxRemovals,       \* bound on the removal epoch
  MaxFaults          \* bound on the reads that fail

ASSUME CacheAssumption ==
  /\ FullSnapshotEvery \in Nat
  /\ MaxLag \in Nat
  /\ MaxTime \in Nat
  /\ MaxWrites \in Nat
  /\ MaxRemovals \in Nat
  /\ MaxFaults \in Nat

VARIABLES
  now,              \* the clock, in seconds
  lag,              \* the longest time from an observation to its write
  graph,            \* element -> when it was last seen, and its revision
  writes,           \* the writes so far: the latest revision
  removals,         \* the store's removal epoch
  cacheValid,       \* a full read has seeded the cache
  cache,            \* element -> what the replica holds of it
  snapWatermark,    \* the next delta asks for what was seen since
  passesSinceFull,
  removalEpoch,     \* the removal epoch the cache was built at
  pass,             \* the pass under way
  alive,            \* the elements in the graph at some time since it began
  faults

storeVars == <<now, lag, graph, writes, removals>>
cacheVars == <<cacheValid, cache, snapWatermark, passesSinceFull, removalEpoch>>
snapshotVars == <<storeVars, cacheVars, pass, alive, faults>>

Element == [seen : Nat, rev : Nat]
Steps == {"idle", "epoch", "read"}
Pass == [step : Steps, watermark : Nat, epoch : Nat, known : BOOLEAN, full : BOOLEAN]

Idle == [step |-> "idle", watermark |-> 0, epoch |-> 0, known |-> FALSE, full |-> FALSE]
Nothing == [e \in {} |-> 0]

Init ==
  /\ now = 1
  /\ lag \in 0..MaxLag
  /\ graph = Nothing
  /\ writes = 0
  /\ removals = 0
  /\ cacheValid = FALSE
  /\ cache = Nothing
  /\ snapWatermark = 0
  /\ passesSinceFull = 0
  /\ removalEpoch = 0
  /\ pass = Idle
  /\ alive = {}
  /\ faults = 0

Succeeds == UNCHANGED faults
Fails == faults < MaxFaults /\ faults' = faults + 1

---------------------------------------------------------------------------
(***************************************************************************)
(* The store, written by the whole fleet.                                  *)
(***************************************************************************)

\* An element is written, last seen when its event was observed; a parked
\* edge that lands is written with the observation it was parked with.
Write(e, seen) ==
  /\ writes < MaxWrites
  /\ seen \in 1..now /\ now - seen <= lag
  /\ writes' = writes + 1
  /\ graph' = [x \in DOMAIN graph \cup {e} |->
                 IF x = e THEN [seen |-> seen, rev |-> writes + 1] ELSE graph[x]]
  /\ alive' = alive \cup {e}
  /\ UNCHANGED <<now, lag, removals, cacheVars, pass, faults>>

\* The removal epoch moves when anything is removed.
CountedRemoval(gone) == IF gone = {} THEN removals ELSE removals + 1

\* These elements leave the graph: a sweep's omissions or a prune.
Without(gone) ==
  /\ graph' = Restrict(graph, DOMAIN graph \ gone)
  /\ removals' = CountedRemoval(gone)
  /\ removals' <= MaxRemovals

RemoveElements(gone) ==
  /\ gone # {}
  /\ Without(gone)
  /\ UNCHANGED <<now, lag, writes, cacheVars, pass, alive, faults>>

Tick ==
  /\ now < MaxTime
  /\ now' = now + 1
  /\ UNCHANGED <<lag, graph, writes, removals, cacheVars, pass, alive, faults>>

---------------------------------------------------------------------------
(***************************************************************************)
(* A pass reads the graph.                                                 *)
(***************************************************************************)

\* A full read is due whatever the store says.
FullDue(pruned) == ~cacheValid \/ pruned \/ passesSinceFull >= FullSnapshotEvery

\* The pass prunes, if it leads and that is due, and takes its watermark.
Begin(gone) ==
  /\ pass.step = "idle"
  /\ Without(gone)
  /\ pass' = [Idle EXCEPT !.step = "epoch", !.watermark = now, !.full = FullDue(gone # {})]
  /\ alive' = DOMAIN graph'
  /\ UNCHANGED <<now, lag, writes, cacheVars, faults>>

\* Fault: an epoch that cannot be read is taken for an unchanged one.
UnreadIsUnchanged(p) == [p EXCEPT !.step = "read", !.known = FALSE]

\* An epoch that cannot be read costs a full read.
EpochUnread(p) == [p EXCEPT !.step = "read", !.known = FALSE, !.full = TRUE]

\* The removal epoch, read before the graph: a removal in between moves it
\* again.
ReadEpoch ==
  /\ pass.step = "epoch"
  /\ \/ /\ pass' = [pass EXCEPT !.step = "read", !.epoch = removals, !.known = TRUE,
                                !.full = pass.full \/ removals # removalEpoch]
        /\ Succeeds
     \/ pass' = EpochUnread(pass) /\ Fails
  /\ UNCHANGED <<storeVars, cacheVars, alive>>

\* Fault: what was seen in the watermark's own second is left out.
SinceExclusive(since) == {e \in DOMAIN graph : graph[e].seen > since}

\* What the store returns as observed since.
SnapshotSince(since) == {e \in DOMAIN graph : graph[e].seen >= since}

\* The cache is patched with what was observed since the last pass's
\* watermark.  A delta that fails is made up for by a full read.
ReadDelta ==
  LET delta == SnapshotSince(snapWatermark)
  IN /\ pass.step = "read" /\ ~pass.full
     /\ \/ /\ cache' = [e \in DOMAIN cache \cup delta |->
                          IF e \in delta THEN graph[e] ELSE cache[e]]
           /\ snapWatermark' = pass.watermark
           /\ passesSinceFull' = passesSinceFull + 1
           /\ pass' = Idle
           /\ Succeeds
           /\ UNCHANGED <<cacheValid, removalEpoch>>
        \/ /\ pass' = [pass EXCEPT !.full = TRUE]
           /\ Fails
           /\ UNCHANGED cacheVars
     /\ UNCHANGED <<storeVars, alive>>

\* The epoch a full read belongs to, when it could be read.
EpochOf(p) == IF p.known THEN p.epoch ELSE removalEpoch

\* Fault: an element the cache holds keeps its place in a rebuilt one.
RebuiltAround == [e \in DOMAIN graph |-> IF e \in DOMAIN cache THEN cache[e] ELSE graph[e]]

\* A cache built anew is the graph.
Rebuilt == graph

\* The whole graph is read, and the cache built anew; a read that fails ends
\* the pass.
ReadFull ==
  /\ pass.step = "read" /\ pass.full
  /\ \/ /\ cache' = Rebuilt
        /\ cacheValid' = TRUE
        /\ snapWatermark' = pass.watermark
        /\ passesSinceFull' = 0
        /\ removalEpoch' = EpochOf(pass)
        /\ Succeeds
     \/ UNCHANGED cacheVars /\ Fails
  /\ pass' = Idle
  /\ UNCHANGED <<storeVars, alive>>

Step == Begin({}) \/ ReadEpoch \/ ReadDelta \/ ReadFull

Next ==
  \/ \E e \in Elements, seen \in 1..now : Write(e, seen)
  \/ \E gone \in SUBSET DOMAIN graph : RemoveElements(gone) \/ Begin(gone)
  \/ Tick
  \/ ReadEpoch
  \/ ReadDelta
  \/ ReadFull

Spec == Init /\ [][Next]_snapshotVars

\* The analyzer's ticker starts a pass again and again, and a pass goes on.
LiveSpec == Spec /\ WF_snapshotVars(Step)

---------------------------------------------------------------------------
(***************************************************************************)
(* Properties.                                                             *)
(***************************************************************************)

\* Every variable has its type.
TypeOK ==
  /\ now \in Nat
  /\ lag \in Nat
  /\ DOMAIN graph \subseteq Elements
  /\ graph \in [DOMAIN graph -> Element]
  /\ writes \in Nat
  /\ removals \in Nat
  /\ cacheValid \in BOOLEAN
  /\ DOMAIN cache \subseteq Elements
  /\ cache \in [DOMAIN cache -> Element]
  /\ snapWatermark \in Nat
  /\ passesSinceFull \in 0..FullSnapshotEvery
  /\ removalEpoch \in Nat
  /\ pass \in Pass
  /\ alive \subseteq Elements
  /\ faults \in Nat

\* The cache cannot hold an element that left the graph without the removal
\* epoch telling: it has moved since the one the cache was built at.
RemovalsAreSeen ==
  DOMAIN cache \subseteq DOMAIN graph \/ removals > removalEpoch

\* A read of the graph ends a pass: it leaves a cache to reason over.
Served == pass.step = "read" /\ cacheVars' # cacheVars

\* No phantoms: what a pass reasons over was in the graph at some time since
\* that pass began.  A path through an element removed before the pass, on
\* this replica or another, is never reported.
NoPhantoms ==
  [][Served => DOMAIN cache' \subseteq alive]_snapshotVars

\* "No write can slip through the gap between the read and the watermark":
\* what was written before a pass began is in the snapshot it reasons over,
\* as the graph then had it.  It holds when events are written in the second
\* they were observed; one written later is older than the watermark.
NothingSlipsThrough ==
  [][Served /\ lag = 0 =>
       \A e \in DOMAIN graph :
         graph[e].seen < pass.watermark
           => e \in DOMAIN cache' /\ cache'[e].rev = graph[e].rev]_snapshotVars

\* The cache heals: once the graph is left alone, the passes come to hold it
\* as it is, whatever a delta missed before.
Heals == <>[](cache = graph)
=============================================================================
