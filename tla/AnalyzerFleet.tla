---------------------------- MODULE AnalyzerFleet ----------------------------
(***************************************************************************)
(* The analyzer, run by every replica on the shared graph.  A pass skips   *)
(* when its replica wrote nothing since the last one, reads the graph,     *)
(* publishes the critical paths it finds, and then, if the replica leads,  *)
(* announces what changed and tells the feedback sink.                     *)
(*                                                                         *)
(* Leadership is a session lock of the database.  A pass asks for it once, *)
(* and acts on the answer after.                                           *)
(*                                                                         *)
(* The graph is abstracted to the critical paths it has; SnapshotCache     *)
(* models how a pass reads it.                                             *)
(***************************************************************************)
EXTENDS Integers, FiniteSets

CONSTANTS
  Replicas,
  Nobody,           \* no replica
  Paths,            \* the critical paths there may be
  Prunes,           \* staleness pruning is on (GRAPH_TTL, off by default)
  ForceRescanEvery, \* skipped passes between two that read the graph anyway
  MaxWrites,        \* bound on the writes
  MaxFaults         \* bound on the faults and failovers

ASSUME FleetAssumption ==
  /\ Nobody \notin Replicas
  /\ Prunes \in BOOLEAN
  /\ ForceRescanEvery \in Nat
  /\ MaxWrites \in Nat
  /\ MaxFaults \in Nat

VARIABLES
  graph,     \* the critical paths of the shared graph
  version,   \* replica -> the writes made through it
  writes,    \* the writes so far
  entered,   \* path -> how often it came into the graph
  holder,    \* who holds the advisory lock
  state,     \* replica -> its tenantState
  pass,      \* replica -> the pass under way
  outbox,    \* drift alerts on their way to the webhook
  alerted,   \* path -> how often the webhook was told that it appeared
  faults,    \* the reads and calls that failed
  failovers  \* the crashes, dropped sessions and failed lock queries

storeVars == <<graph, version, writes, entered>>
alertVars == <<outbox, alerted>>
fleetVars == <<storeVars, holder, state, pass, alertVars, faults, failovers>>

\* What a replica keeps of its passes, and where it is in one.
Kept(latest, hasRun, lastVersion, skips) ==
  [latest |-> latest, hasRun |-> hasRun, lastVersion |-> lastVersion, skips |-> skips]
InPass(step, prev, first) == [step |-> step, prev |-> prev, first |-> first]

Fresh == Kept({}, FALSE, 0, 0)
AtRest == InPass("idle", {}, FALSE)

Init ==
  /\ graph \in SUBSET Paths
  /\ version = [r \in Replicas |-> 0]
  /\ writes = 0
  /\ entered = [p \in Paths |-> IF p \in graph THEN 1 ELSE 0]
  /\ holder = Nobody
  /\ state = [r \in Replicas |-> Fresh]
  /\ pass = [r \in Replicas |-> AtRest]
  /\ outbox = {}
  /\ alerted = [p \in Paths |-> 0]
  /\ faults = 0
  /\ failovers = 0

Succeeds == UNCHANGED faults
Fails == faults + failovers < MaxFaults /\ faults' = faults + 1
FailsOver == faults + failovers < MaxFaults /\ failovers' = failovers + 1

---------------------------------------------------------------------------
(***************************************************************************)
(* The shared graph.                                                       *)
(***************************************************************************)

\* A replica ingests something, which may open paths or close them.
Write(r, g) ==
  /\ writes < MaxWrites
  /\ writes' = writes + 1
  /\ graph' = g
  /\ version' = [version EXCEPT ![r] = @ + 1]
  /\ entered' = [p \in Paths |-> IF p \in g \ graph THEN entered[p] + 1 ELSE entered[p]]
  /\ UNCHANGED <<holder, state, pass, alertVars, faults, failovers>>

\* What the pruner removes; the version moves when that is anything.
Pruned(r, gone) ==
  /\ graph' = graph \ gone
  /\ version' = IF gone = {} THEN version ELSE [version EXCEPT ![r] = @ + 1]
  /\ UNCHANGED <<writes, entered>>

---------------------------------------------------------------------------
(***************************************************************************)
(* Leadership.                                                             *)
(***************************************************************************)

\* Fault: whoever asks for the lock is taken to have got it.
AcquiresAlways(r) == TRUE

\* The lock is this replica's already, or free to take.
Acquires(r) == holder \in {r, Nobody}

\* The replica asks whether it leads, taking the lock if it is free.  A query
\* that fails answers no, and closes the connection that may hold the lock.
IsLeader(r, answer) ==
  \/ /\ answer = Acquires(r)
     /\ holder' = IF answer THEN r ELSE holder
     /\ UNCHANGED failovers
  \/ /\ ~answer
     /\ holder' = IF holder = r THEN Nobody ELSE holder
     /\ FailsOver

\* The session that holds the lock drops.
DropSession ==
  /\ holder # Nobody
  /\ holder' = Nobody
  /\ FailsOver
  /\ UNCHANGED <<storeVars, state, pass, alertVars, faults>>

\* A replica stops, and is started again: what it had in memory is gone.
Crash(r) ==
  /\ FailsOver
  /\ holder' = IF holder = r THEN Nobody ELSE holder
  /\ version' = [version EXCEPT ![r] = 0]
  /\ state' = [state EXCEPT ![r] = Fresh]
  /\ pass' = [pass EXCEPT ![r] = AtRest]
  /\ outbox' = {a \in outbox : a.by # r}
  /\ UNCHANGED <<graph, writes, entered, alerted, faults>>

---------------------------------------------------------------------------
(***************************************************************************)
(* A pass.                                                                 *)
(***************************************************************************)

\* Nothing was written through this replica since its last pass, and it has
\* not skipped too often.
Steady(st, cur) == st.hasRun /\ cur = st.lastVersion /\ st.skips < ForceRescanEvery

\* The version a pass starts from is noted before the graph is read.
Noted(st, cur) == Kept(st.latest, st.hasRun, cur, 0)

\* A pass that is skipped is counted.
Skipped(st) == Kept(st.latest, st.hasRun, st.lastVersion, st.skips + 1)

\* A pass begins: the leader prunes what is stale, and the pass is skipped
\* when there is nothing to see.
BeginPass(r) ==
  /\ pass[r].step = "idle"
  /\ \E gone \in SUBSET graph :
       /\ \/ gone = {} /\ ~Prunes /\ UNCHANGED <<holder, failovers>>
          \/ Prunes /\ \E leads \in BOOLEAN : IsLeader(r, leads) /\ (gone # {} => leads)
       /\ Pruned(r, gone)
       /\ IF gone = {} /\ Steady(state[r], version[r])
          THEN /\ state' = [state EXCEPT ![r] = Skipped(@)]
               /\ UNCHANGED pass
          ELSE /\ state' = [state EXCEPT ![r] = Noted(@, version'[r])]
               /\ pass' = [pass EXCEPT ![r] = InPass("read", {}, FALSE)]
  /\ UNCHANGED <<alertVars, faults>>

\* Fault: a pass that finds nothing leaves the last paths standing.
PublishedNonempty(st, paths) ==
  Kept(IF paths = {} THEN st.latest ELSE paths, TRUE, st.lastVersion, st.skips)

\* The paths of the graph as read are published, on every replica.
Published(st, paths) == Kept(paths, TRUE, st.lastVersion, st.skips)

\* The graph is read and its paths are published.  A read that fails, or a
\* risk simulation cut short, ends the pass.
Analyze(r) ==
  /\ pass[r].step = "read"
  /\ \/ /\ state' = [state EXCEPT ![r] = Published(@, graph)]
        /\ pass' = [pass EXCEPT ![r] = InPass("lead", state[r].latest, ~state[r].hasRun)]
        /\ Succeeds
     \/ /\ pass' = [pass EXCEPT ![r] = AtRest]
        /\ UNCHANGED state
        /\ Fails
  /\ UNCHANGED <<storeVars, holder, alertVars, failovers>>

\* What changed between two passes.
DiffPaths(prev, cur) == [appeared |-> cur \ prev, resolved |-> prev \ cur]

\* The alert of a drift: nothing on a first pass, where everything is new.
Drift(r, ps, cur) ==
  LET d == DiffPaths(ps.prev, cur)
  IN IF ps.first \/ (d.appeared = {} /\ d.resolved = {}) THEN {}
     ELSE {[by |-> r, appeared |-> d.appeared, resolved |-> d.resolved,
            nr |-> CHOOSE n \in 0..Cardinality(outbox) : \A a \in outbox : a.nr # n]}

\* The pass asks whether its replica leads.  If so it sends the drift off, in
\* a goroutine of its own, and goes on to the sink.
CheckLeader(r) ==
  /\ pass[r].step = "lead"
  /\ \E leads \in BOOLEAN :
       /\ IsLeader(r, leads)
       /\ outbox' = IF leads THEN outbox \cup Drift(r, pass[r], state[r].latest) ELSE outbox
       /\ pass' = [pass EXCEPT ![r] = IF leads THEN InPass("sink", @.prev, @.first) ELSE AtRest]
  /\ UNCHANGED <<storeVars, state, alerted, faults>>

\* The sink has been told; StatusReporter says what it does.
EndPass(r) ==
  /\ pass[r].step = "sink"
  /\ pass' = [pass EXCEPT ![r] = AtRest]
  /\ UNCHANGED <<storeVars, holder, state, alertVars, faults, failovers>>

\* The webhook takes an alert, or it is lost: it is not sent again.
Notify(a) ==
  /\ a \in outbox
  /\ outbox' = outbox \ {a}
  /\ \/ /\ alerted' = [p \in Paths |-> IF p \in a.appeared THEN alerted[p] + 1 ELSE alerted[p]]
        /\ Succeeds
     \/ UNCHANGED alerted /\ Fails
  /\ UNCHANGED <<storeVars, holder, state, pass, failovers>>

Outside ==
  \/ \E r \in Replicas, g \in SUBSET Paths : Write(r, g)
  \/ \E r \in Replicas : Crash(r)
  \/ DropSession

Analysis(r) == BeginPass(r) \/ Analyze(r) \/ CheckLeader(r)
Notified == \E a \in outbox : Notify(a)

Next ==
  \/ Outside
  \/ \E r \in Replicas : Analysis(r) \/ EndPass(r)
  \/ Notified

Spec == Init /\ [][Next]_fleetVars

\* Each replica's ticker starts passes for ever, and passes and alerts go on.
LiveSpec ==
  /\ Spec
  /\ \A r \in Replicas : WF_fleetVars(Analysis(r) \/ EndPass(r))
  /\ WF_fleetVars(Notified)

---------------------------------------------------------------------------
(***************************************************************************)
(* Properties.                                                             *)
(***************************************************************************)

\* "External side-effects are at-most-once across the fleet": a path is
\* announced at most as often as it came into the graph.  It holds while
\* leadership stays where it is: a new leader that had not found the path yet
\* announces it again.
AlertedOnce == failovers = 0 => \A p \in Paths : alerted[p] <= entered[p]

\* A replica that did not ingest a change cannot serve a stale cache for
\* ever: once the graph is left alone, every replica comes to serve it.
ServedCatchesUp == <>[](\A r \in Replicas : state[r].latest = graph)
=============================================================================
