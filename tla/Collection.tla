---------------------------- MODULE Collection ----------------------------
(***************************************************************************)
(* The connectors: on a schedule, the replica that leads reads accounts    *)
(* and clusters call by call while they change, and publishes what it got. *)
(* A feed that was read in full, of an account that is known, is a         *)
(* complete snapshot: what it does not list is retracted.                  *)
(*                                                                         *)
(* A call (one kind of object, all its pages) is a step, and any of them   *)
(* may fail or time out.  What that costs depends on the feed and on the   *)
(* kind.  The Kubernetes feed goes on without the kind, as not complete.   *)
(* A feed of AWS fails whole with most of its calls; but the network feed  *)
(* goes on without instance profiles, ECS services and load balancers, and *)
(* the EKS one without the Pod Identity associations of a cluster, and     *)
(* what is left is published as if it were complete.                       *)
(***************************************************************************)
EXTENDS Naturals, FiniteSets, Sequences

CONSTANTS
  Collectors,     \* replicas
  Schedule,       \* the feeds in the order they are read, the connectors' one after the other
  ConnectorOf,    \* feed -> its connector
  KindsOf,        \* feed -> the calls it takes
  ItemsOf,        \* kind -> the objects there may be
  Quiet,          \* kinds that a feed goes on without, as complete as with them (instance
                  \* profiles, ECS services, load balancers, Pod Identity associations)
  Tolerant,       \* feeds that go on without any kind, as not complete (Kubernetes)
  Terse,          \* feeds that may have nothing to say (EKS, Lambda, API Gateway, Kubernetes)
  Unscoped,       \* feeds that never describe anything in full (Azure)
  OfAccount,      \* feeds whose objects are known by their account (AWS)
  MaxPasses,      \* bound: collections begun
  MaxMoves,       \* bound: changes of the world
  MaxFailures     \* bound: failing calls, lost leaderships and restarts

ASSUME CollectionAssumption ==
  /\ Schedule \in Seq(DOMAIN KindsOf) /\ Schedule # << >>
  /\ "partial" \notin DOMAIN KindsOf
  /\ Tolerant \subseteq Terse

VARIABLES
  world,      \* the objects that exist
  lead,       \* the replica that leads
  account,    \* replica -> what it knows of its account: "unasked", "known", "unknown"
  pull,       \* replica -> its collection
  missed,     \* replica -> objects absent at some time since its connector began, and
  unread,     \* those of the quiet kinds whose call failed since (observations only)
  held,       \* the graph: objects, their id and the scope that asserts them
  health,     \* replica -> connector -> how its last run ended
  pulls, moves, mishaps

pullVars == <<world, lead, account, pull, missed, unread, held, health, pulls, moves, mishaps>>
pullBounds == <<pulls, moves, mishaps>>

Kinds == UNION {KindsOf[f] : f \in DOMAIN KindsOf}
Objects == UNION {ItemsOf[k] : k \in Kinds}
Resting == [at |-> "idle"]
ConnectorsRun == {ConnectorOf[f] : f \in DOMAIN KindsOf}

CollectionInit ==
  /\ world \in SUBSET Objects
  /\ lead \in Collectors
  /\ account = [r \in Collectors |-> "unasked"]
  /\ pull = [r \in Collectors |-> Resting]
  /\ missed = [r \in Collectors |-> {}] /\ unread = [r \in Collectors |-> {}]
  /\ held = {}
  /\ health = [r \in Collectors |-> [c \in ConnectorsRun |-> "never"]]
  /\ pulls = 0 /\ moves = 0 /\ mishaps = 0

Mishap == mishaps < MaxFailures /\ mishaps' = mishaps + 1
NoMishap == UNCHANGED mishaps

---------------------------------------------------------------------------
(***************************************************************************)
(* collectAll: the leader reads feed after feed.                           *)
(***************************************************************************)

\* The n-th feed of the schedule under way: the calls left, what was read, the events of
\* its connector that are ready and the calls that failed so far.
Feed(n, left, got, complete, events, errors) ==
  [at |-> "feed", n |-> n, left |-> left, got |-> got, complete |-> complete,
   events |-> events, errors |-> errors]

Reading(n, events, errors) == Feed(n, KindsOf[Schedule[n]], {}, TRUE, events, errors)

CollectAll(r) ==
  /\ pull[r] = Resting /\ pulls < MaxPasses
  /\ lead = r
  /\ pull' = [pull EXCEPT ![r] = Reading(1, << >>, 0)]
  /\ missed' = [missed EXCEPT ![r] = Objects \ world]
  /\ unread' = [unread EXCEPT ![r] = {}]
  /\ pulls' = pulls + 1
  /\ UNCHANGED <<world, lead, account, held, health, moves, mishaps>>

FeedOf(r) == Schedule[pull[r].n]

\* Account: asked once in the life of a process, whatever the answer.
AskAccount(r) ==
  /\ pull[r].at = "feed" /\ FeedOf(r) \in OfAccount
  /\ account[r] = "unasked"
  /\ \/ account' = [account EXCEPT ![r] = "known"] /\ NoMishap
     \/ account' = [account EXCEPT ![r] = "unknown"] /\ Mishap
  /\ UNCHANGED <<world, lead, pull, missed, unread, held, health, pulls, moves>>

Ready(r) == pull[r].at = "feed" /\ (FeedOf(r) \in OfAccount => account[r] # "unasked")

\* A call that succeeds.
ListKind(r, k) ==
  /\ Ready(r) /\ k \in pull[r].left
  /\ pull' = [pull EXCEPT ![r] =
       Feed(@.n, @.left \ {k}, @.got \cup (world \cap ItemsOf[k]), @.complete, @.events, @.errors)]
  /\ UNCHANGED <<world, lead, account, missed, unread, held, health, pullBounds>>

\* Fault: a kind that could not be listed is forgotten.
FailedKindUnsaid(p, k) == Feed(p.n, p.left \ {k}, p.got, p.complete, p.events, 1)

\* The kind is left out, and the pull is not complete.
FailedKind(p, k) == Feed(p.n, p.left \ {k}, p.got, FALSE, p.events, 1)

\* The next feed, or the connector's events are ready.
After(p, events, errors) ==
  IF p.n < Len(Schedule) /\ ConnectorOf[Schedule[p.n + 1]] = ConnectorOf[Schedule[p.n]]
  THEN Reading(p.n + 1, events, errors)
  ELSE [at |-> "publish", n |-> p.n, events |-> events, errors |-> errors]

\* fetchNetwork, fetchEKS: a quiet kind that cannot be read is left out, all of it, and
\* the feed is as complete, and its connector as healthy, as without the failure.
FailQuietly(r, k) ==
  /\ Ready(r) /\ k \in pull[r].left \cap Quiet
  /\ Mishap
  /\ pull' = [pull EXCEPT ![r] = Feed(@.n, @.left \ {k}, @.got, @.complete, @.events, @.errors)]
  /\ unread' = [unread EXCEPT ![r] = @ \cup ItemsOf[k]]
  /\ UNCHANGED <<world, lead, account, missed, held, health, pulls, moves>>

\* The kind is left out of a feed that goes on without it.
GoOnWithout(r, k) ==
  /\ Ready(r) /\ k \in pull[r].left \ Quiet /\ FeedOf(r) \in Tolerant
  /\ Mishap
  /\ pull' = [pull EXCEPT ![r] = FailedKind(@, k)]
  /\ UNCHANGED <<world, lead, account, missed, unread, held, health, pulls, moves>>

\* Any other call of a feed of AWS fails all of it, and the connector goes on to the next.
FailFeed(r, k) ==
  /\ Ready(r) /\ k \in pull[r].left \ Quiet /\ FeedOf(r) \notin Tolerant
  /\ Mishap
  /\ pull' = [pull EXCEPT ![r] = After(@, @.events, 1)]
  /\ UNCHANGED <<world, lead, account, missed, unread, held, health, pulls, moves>>

\* What a feed read describes in full: nothing when its account is not known.
SnapshotScope(r) ==
  IF FeedOf(r) \in Unscoped \/ ~pull[r].complete \/ (FeedOf(r) \in OfAccount /\ account[r] # "known")
  THEN "partial" ELSE FeedOf(r)

Event(r) ==
  [items |-> pull[r].got, scope |-> SnapshotScope(r),
   qualified |-> FeedOf(r) \in OfAccount /\ account[r] = "known"]

\* A terse feed of a place where there is nothing (no cluster, no function, no API) is
\* not published, so that it retracts nothing; a cluster that holds nothing of interest
\* still is by EKS.
EndFeed(r) ==
  /\ Ready(r) /\ pull[r].left = {}
  /\ \/ /\ pull[r].got # {} \/ FeedOf(r) \notin Tolerant
        /\ pull' = [pull EXCEPT ![r] = After(@, Append(@.events, Event(r)), @.errors)]
     \/ /\ pull[r].got = {} /\ FeedOf(r) \in Terse
        /\ pull' = [pull EXCEPT ![r] = After(@, @.events, @.errors)]
  /\ UNCHANGED <<world, lead, account, missed, unread, held, health, pullBounds>>

---------------------------------------------------------------------------
(***************************************************************************)
(* collectOne: what was collected is published as one batch.  The bus and  *)
(* the normalizer (Broker, IngestPipeline) are the one step they amount to *)
(* once the batch has landed.                                              *)
(***************************************************************************)

Asserted(e) == {[item |-> i, qualified |-> e.qualified, scope |-> e.scope] : i \in e.items}
WithdrawnBy(e) ==
  IF e.scope = "partial" THEN {} ELSE {x \in held : x.scope = e.scope /\ x \notin Asserted(e)}

Landed(events) ==
  (held \ UNION {WithdrawnBy(events[i]) : i \in DOMAIN events})
    \cup UNION {Asserted(events[i]) : i \in DOMAIN events}

Following(r) ==
  IF pull[r].n < Len(Schedule) THEN Reading(pull[r].n + 1, << >>, 0) ELSE Resting

Report(r, outcome) == health' = [health EXCEPT ![r][ConnectorOf[FeedOf(r)]] = outcome]

Publish(r) ==
  /\ pull[r].at = "publish"
  /\ \/ /\ held' = Landed(pull[r].events)
        /\ Report(r, IF pull[r].errors = 0 THEN "ok" ELSE "degraded")
        /\ NoMishap
     \/ /\ pull[r].events # << >> /\ Mishap
        /\ Report(r, "failed")
        /\ UNCHANGED held
  /\ pull' = [pull EXCEPT ![r] = Following(r)]
  /\ missed' = [missed EXCEPT ![r] = IF pull'[r] = Resting THEN {} ELSE Objects \ world]
  /\ unread' = [unread EXCEPT ![r] = {}]
  /\ UNCHANGED <<world, lead, account, pulls, moves>>

---------------------------------------------------------------------------
(***************************************************************************)
(* The world.                                                              *)
(***************************************************************************)

Create(i) ==
  /\ i \notin world /\ moves < MaxMoves
  /\ world' = world \cup {i} /\ moves' = moves + 1
  /\ UNCHANGED <<lead, account, pull, missed, unread, held, health, pulls, mishaps>>

Delete(i) ==
  /\ i \in world /\ moves < MaxMoves
  /\ world' = world \ {i} /\ moves' = moves + 1
  /\ missed' = [r \in Collectors |-> IF pull[r] = Resting THEN {} ELSE missed[r] \cup {i}]
  /\ UNCHANGED <<lead, account, pull, unread, held, health, pulls, mishaps>>

\* The session that holds the lead drops, which a collection under way does not notice.
LeadMoves(r) ==
  /\ lead # r /\ Mishap
  /\ lead' = r
  /\ UNCHANGED <<world, account, pull, missed, unread, held, health, pulls, moves>>

RestartCollector(r) ==
  /\ Mishap
  /\ account' = [account EXCEPT ![r] = "unasked"]
  /\ pull' = [pull EXCEPT ![r] = Resting]
  /\ missed' = [missed EXCEPT ![r] = {}] /\ unread' = [unread EXCEPT ![r] = {}]
  /\ health' = [health EXCEPT ![r] = [c \in ConnectorsRun |-> "never"]]
  /\ UNCHANGED <<world, lead, held, pulls, moves>>

CollectionNext ==
  \/ \E r \in Collectors :
       \/ CollectAll(r) \/ AskAccount(r) \/ EndFeed(r) \/ Publish(r) \/ LeadMoves(r) \/ RestartCollector(r)
       \/ \E k \in Kinds : ListKind(r, k) \/ FailQuietly(r, k) \/ GoOnWithout(r, k) \/ FailFeed(r, k)
  \/ \E i \in Objects : Create(i) \/ Delete(i)

CollectionSpec == CollectionInit /\ [][CollectionNext]_pullVars

---------------------------------------------------------------------------
(***************************************************************************)
(* Properties.                                                             *)
(***************************************************************************)

\* What a collection retracts was gone at some time since its connector began to read,
\* or is of a quiet kind whose call failed in that very collection: whatever calls fail,
\* in whichever feed, and however the world moves meanwhile, a feed that was not read in
\* full, or of an account that could not be told, takes nothing else away
\* (Connector.Collect, inCluster.Fetch, fetchNetwork, fetchEKS, snapshotScope, collectOne).
RetractedWereGone ==
  [][\A x \in held \ held' :
       \E r \in Collectors : pull[r].at = "publish" /\ x.item \in missed[r] \cup unread[r]]_pullVars

\* What snapshotScope says of every feed: "Only a feed that was fetched and parsed
\* without error gets here", so that what it no longer lists "can be retracted".  The
\* code does not keep it: a load balancer whose call failed is retracted.
PulledInFull ==
  [][\A x \in held \ held' : \E r \in Collectors : pull[r].at = "publish" /\ x.item \in missed[r]]_pullVars

\* What ScopedID's comment says of qualified and unqualified ids of one object: "a mix
\* is what would be wrong, and it cannot happen for a given asset because the account
\* either arrives with it or does not".
OneIdPerObject ==
  \A x, y \in held : x.item = y.item => x.qualified = y.qualified
=============================================================================
