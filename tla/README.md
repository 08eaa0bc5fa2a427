# PerspectiveGraph: a TLA+ verification project

PerspectiveGraph ingests what security tools see of an estate (scanners, cloud
inventories, Kubernetes, Terraform plans), merges it into one graph, and looks in
that graph for the likeliest ways from the internet to a crown jewel. It posts the
result to code forges, where it fails the check of a commit that opens such a way.

This directory models the backend (`src/backend`, Go). The modules are translations of
the source, not of its documentation; `PROJECT.json` maps every definition that
models code to the lines it models. Where a document, a comment or a test says something
the code does not do, a run shows it and `PROJECT.json` lists it under `findings`.

## 1. Inventory

### 1.1 How the parts interact

```
 tools, pipelines ──signed HTTP──> ingestion server ──> collectors, parsers ──> events
                                   (limiter, signatures)                         │ PublishBatch
 clouds, clusters <──calls── connectors' scheduler (leader only) ────────────────┤
                                                                                 v
                                             event bus (JetStream stream, KV bucket)
                                                                                 │ deliver / redeliver
                                                                                 v
 KEV, EPSS feeds <── threat intelligence <── normalizer.Handle, Sweep (every replica)
                                                                                 │ ApplyEvent, Sweep
                                                                                 v
                             graph store (memory, or Apache AGE shared by the replicas)
                                                                                 │ Snapshot, SnapshotSince,
                                                                                 │ RemovalEpoch, Prune
                                                                                 v
   analyzer.Service, a ticker on every replica: prune, read, search, simulate, publish
       │                    │                             │
       │ leader only        │ leader only                 │ every replica
       v                    v                             v
   drift webhook        feedback sink                 API, merge gate, history,
                        (statuses, comments,          suppressions, tickets, verdicts,
                         impact ledger)               KEV holdout, audit trail
                             │                            ^
                             v                            │ RequireRole: limiter, lockout, credentials
                           forge                      operators, the gate of a pipeline
```

Replicas share the bus, the bucket, the database, the forge and the identity provider, and nothing else. What a
replica knows of the others it reads from one of these, and every such read may be out of
date when it is used.

### 1.2 The components

For each: the state it keeps; its operations; what is hard; what makes it correct.
`PROJECT.json` lists the sources of each, and those that are not modelled.

**Graph store** (`internal/graph`, `internal/graph/memory`). State: nodes and edges with
their last observation, edges parked until both endpoints exist, who (source and scope)
asserted each element and when, a removal epoch. Operations: the batch write of an event,
the sweep that applies a complete snapshot's omissions, staleness pruning, expiry of parked
edges, snapshot reads. Hard: events come in any order, edges before nodes, facts and guesses of
the same edge from different feeds, and three independent ways to remove. Correct when: edges
never dangle nor wait needlessly; provenance stays on live elements; a guess never replaces a
fact; parked edges expire; every removal moves the epoch.

**AGE graph store** (`internal/graph/age`). State: the same, as tables of one PostgreSQL graph that
every replica writes: vertices, relationships, parked edges, provenance rows, the epoch. Operations:
those of the store, each one transaction under the graph's advisory lock, and the creation of the
tables, which accounts for what an older build left. Hard: the same rules a second time, in SQL and
Cypher, with a graph that predates the tables. Correct when: it steps as the memory store does.

**Audit trail** (`internal/audit`, `cmd/perspectivegraph/verifyaudit.go`). State: a hash chain of rows in PostgreSQL that
every replica appends to, the checkpoint retention leaves behind, a queue and a writer in each replica. Operations:
recording a request, appending, writing a tombstone for what could not be appended, closing, pruning, verifying. Hard: a
commit whose answer is lost, a close beside late calls, a verification beside a prune. Correct when: the chain holds
from the checkpoint on, an alarm is never raised over an honest chain, and no record vanishes without a trace.

**Event bus** (`internal/broker`). State: the stream, deliveries in flight, the bucket's marks
(`applied.<batch>.<message>`), totals, snapshot records and sweep claims, the dead-letter
stream. Operations: publishing an ingest as a batch of messages, consuming, retrying,
dead-lettering, marking, checking completeness, claiming and sweeping. Hard: delivery at least
once, replicas that crash between any two calls, calls that fail, acknowledgements that are
lost. Correct when: a batch is reported complete only if all of it is in the graph; a sweep follows
the whole batch and happens once; no message disappears unexplained; everything settles.

**Normalizer** (`internal/normalization`). State: none of its own. Operations: `Handle`, which
writes an event to the tenant's store, and `Sweep`. Hard: snapshots of one scope are taken, delivered
and swept in three different orders, with pruning beside them. Correct when: what the newest snapshot
of a scope lists stays; only the asserter of an element retracts it; partial feeds retract nothing.

**Analysis loop** (`internal/analyzer/service.go`). State per replica: the cached graph with its
watermark and epoch, passes since a full read, the version last analysed, skipped passes, the
published result. Operations: a pass. Hard: the fleet writes and removes between the
steps of a pass; a delta carries no deletions; change detection sees only this replica's writes. Correct when:
a pass never reasons over something that left the graph before it, every write is seen in the end,
and every replica's result catches up with the graph.

**Leader election** (`internal/leader`), **drift notification** (`internal/notify`), **commit status
reporter** (`internal/action`). State: a session lock in the database; what this replica has posted;
what the forge shows. Operations: `IsLeader`, the webhook, `OnCriticalPaths`. Hard: the lead moves while
a pass uses it; posts fail or lose their answer; memory dies with the process. Correct when: statuses
settle on what the graph says, nothing is announced twice.

**Impact ledger and gate rule** (`internal/impact`). State: the last pass's scores, each commit's
attributed routes. Operations: `ObservePass`, `Judge`, `compare`. Hard: commits and routes come, go and
come back in any order, restarts forget. Correct when: the ledger judges an arriving commit as the
gate would, never counts what was there before, and puts every new route down to somebody.

**Path search, alternatives, simulation** (`internal/analyzer/attackpath.go`, `kshortest.go`,
`montecarlo.go`). State: a worker pool with scratch sets that are reused, hand-written heaps,
generation stamps. Hard: reuse between seeds, stale queue entries, ties and free edges, sifts at the
boundary sizes, stamps that wrap, comparing two random simulations. Correct when: every exposure is
reported once by its likeliest route; alternatives come in order; a cut never looks harmful by noise.

**Port sets, network collector, Terraform plan** (`internal/ingestion`: `ports.go`, `cloudnet`, `terraform`). State: none between calls; a plan's
prior and planned resources, a read of the account, the estate's graph. Operations: set algebra on lists of port ranges, the first-match firewall;
an instance's exposure; both views of a plan, laid over the account; what the plan reaches and does not describe. Hard: ranges that touch and cut
each other; a network of which the configuration manages any part and others the rest, where each kind of resource merges by its own rule and what
cannot be judged must be listed. Correct when: a set of ranges means its ports; an opening is reported or listed; the overlay shows the account to come.

**IAM collector** (`ingestion/iam`, `terraform/iam.go`). State: none between calls; of a principal, the actions its documents grant and deny and
those its boundary does. Operations: folding statements into an action set, capping it, matching escalation techniques, reading a trust policy. Hard: Allow
and Deny, Action and NotAction, conditions and boundaries, in any combination. Correct when: an escalation AWS would permit is never passed over, and one more
grant never lowers its weight.

**Kubernetes and EKS collectors** (`ingestion/k8s`, `ingestion/eks`, `ingestion/kube.go`). State: none; the dump of a cluster, the EKS API's records. Operations: identities,
roles, bindings, ways in and out of containers, and where a cluster meets its account. Hard: equal names in other kinds, namespaces and clusters. Correct
when: a route is drawn wherever the objects give one, and never over another's objects.

**Resource policies** (`ingestion`: `resourcepolicy.go`, `lambda`, `apigateway`, `custodian`; `pkg/ontology/labels.go`). State: what the graph says of a resource's exposure.
Operations: whether a policy lets everyone in, per kind of resource, and the label that results, merged over what was said before. Hard: denials and
conditions that narrow, confine or do neither; a door that is shut again. Correct when: a resource is a place attacks begin while, and only while, a stranger gets in.

**Crown jewels and prioritisation** (`ingestion/severity.go`, `ingestion/dataclass`, `analyzer/priority.go`). State: the properties of a data store's
node. Operations: marking by tags, by a classifier, by an event, by name; the weight of a basis. Hard: sources report in any order and the store merges. Correct when:
the better source's word stands.

**Ingestion server** (`ingestion/server.go`, `auth/hmac.go`, `cmd/ingest.go`). State: the signatures accepted within their window. Operations: a request from the budget to the bus, the
sender's retries. Hard: lost answers, doubled and late requests, clocks apart, a table that is swept. Correct when: a signature counts once, and a retry is no replay.

**Connectors and their scheduler** (`connector`). State: what it knows of the account, the health of each connector. Operations: a collection, call by call, publishing each feed
as a complete snapshot or not. Hard: the world moves between calls, any call fails, the lead moves. Correct when: what a pull retracts was gone.

**Threat intelligence, KEV holdout** (`threatintel`, `kevholdout`). State: each replica's copies of the two feeds; the open forecasts, in a file or a table. Operations: scoring, weighing an
edge; sealing, grading, dropping, flushing. Hard: calls without the lock, failed fetches, two replicas grading, a crash between grading and flushing. Correct when: a forecast ends in a verdict, and
the verdict says what happened.

**History, validation log, suppressions, tickets** (`history`, `validation`, `suppress`, `ticket`). State: memory and a file, or a table shared by the replicas, for each. Operations: recording
a pass; reporting and deleting verdicts, rewriting the log; suppressing; opening and closing tickets. Hard: a change, its snapshot and its rename are apart; appends race a rewrite; writes fail and
processes die between. Correct when: a restart brings back what was answered, the two backends agree, a path has one ticket.

**Authentication, security watch, rate limiter** (`auth`, `secwatch`, `ratelimit`). State: signing keys and their age; failures by address, lockouts in a table and each
replica's view of it; token buckets by address. Operations: `RequireRole`, refreshing keys, tripping and refreshing the view, `allow`. Hard: keys rotate, tables and providers fail, tables fill
up. Correct when: whoever is let in holds something that counts, a lockout reaches every replica, no address exceeds its budget.

**Merge gate** (`cmd/gate.go`, `cmd/gatelocal.go`, `api/gate.go`). State: of one call, its verdict. Operations: posting a report, waiting for its batch and for a pass, comparing on the engine or by itself,
exiting. Hard: lost marks, failing calls, clocks apart, partial reads, time running out. Correct when: a build is let through only if somebody looked.

**PR and MR commenter, remediation pull requests** (`action/comment.go`, `action/pr.go`, `api/remediation_pr.go`). State: the body last landed on each path's comment. Operations: finding, updating or creating the comment;
opening a fix. Hard: any call may fail or lose its answer, admins ask at once, the lead moves. Correct when: one comment a path with the verdict it has, and a fix opened whole.

**Red team** (`redteam`). State: the oracle's answers, kept. Operations: asking AWS's simulation, a path's verdict from its hops, the audit's tally. Hard: answers without context, calls that
fail. Correct when: what is recorded as AWS's answer is AWS's answer.

**Not modelled**: the tenant manager; identity resolution between feeds; policy invariants; the text of remediation, detection and compliance; coverage and search; the audit trail kept in a file;
the statistics of calibration; the parsers of other report formats; load balancers, ECS services, peerings and API gateways of the network and plan collectors; the API's read queries and its computation limiter; schema migration and
encryption at rest. They keep no state that the others rely on, are numerics, or wait for a later stage (section 7). **Not to be modelled**: the MCP server and assistant, benchmark and lab tools,
request plumbing, the wiring of the command line, the frontend.

## 2. The modules

| Module | Models | Notes |
|---|---|---|
| `GraphContract` | `pkg/ontology/event.go`, the parameters of `graph/store.go` | what both stores are told: elements, origins, events, the clock |
| `GraphStore` | `graph/memory/memory.go`, `graph/store.go` | one action per store operation: each holds the store's mutex throughout |
| `AgeStore` | `graph/age/age.go`, `provenance.go` | one action per transaction; each is a step of `GraphStore` over the tables |
| `BatchContract` | what a batch promises | abstract: publish, apply, retract once after all is applied |
| `Broker` | `broker/nats.go`, `batch.go`, `snapshot.go` | one action per call a replica makes; refines `BatchContract` |
| `IngestPipeline` | `normalization`, over the two above | extends `GraphStore`, instantiates `BatchContract`: `Handle`, `SweepBatch`, `PruneByTTL` step both together |
| `PortSets` | `ingestion/ports.go` | a behaviour is a run of `FirstMatch`, one rule an action |
| `PlanExposure` | `ingestion/terraform` (network, ACLs, overlay, outside), `cloudnet` exposure | an account and a configuration over edits and applies; the collector's answers are operators on the state |
| `IamAccess` | `ingestion/iam`, `terraform/iam.go` | a statement an action; the collector's sets are folded as it reads, its verdicts operators |
| `EscalationAudit` | `redteam` oracle, audit, comparison | extends `IamAccess` with AWS's simulation of the same documents |
| `KubeReach` | `ingestion/k8s`, `eks`, `kube.go` | an object an action; the edges drawn are operators on the estate |
| `ResourceExposure` | `resourcepolicy.go`, `lambda`, `apigateway`, `custodian`, `labels.go` | settings change and are described; the node's properties are the state |
| `CrownJewels` | `severity.go`, `dataclass`, `normalization` marking, `priority.go` | one event, or one change of the estate, an action |
| `IngestDoor` | `ingestion/server.go`, `auth/hmac.go`, `cmd/ingest.go` | senders, a network that doubles and loses, one process |
| `Collection` | `connector` and its connectors | one call of a cloud an action |
| `ThreatIntel` | `threatintel`, `kevholdout` | the two callers of `Scores`, and the feeds |
| `SnapshotCache` | `analyzer/service.go`, the incremental snapshot | a pass reads its watermark, the epoch and the graph in three steps |
| `AnalyzerFleet` | `analyzer/service.go` pass, `leader`, `notify` | several replicas on one graph |
| `StatusReporter` | `action/check.go`, `action/feedback.go` | extends `AnalyzerFleet` with the sink and the forge |
| `PullRequests` | `action/comment.go`, `action/pr.go`, the clients, `api/remediation_pr.go` | one call of the forge an action |
| `ImpactLedger` | `impact/ledger.go`, `impact/impact.go` compare | a sequence of passes, with restarts |
| `MergeGate` | `cmd/gate.go`, `cmd/gatelocal.go`, `api/gate.go` | the gate, the bus and the passes it waits for |
| `AttackGraph` | the graph the searches see | routes, costs, reachability: the reference definitions |
| `PathSearch` | `FindCriticalPaths`, `pathsFromSeed`, `dijkstra`, `reconstruct` | a pool of workers, one action per pop and per relaxed edge |
| `MinHeap`, `PriorityQueue` | `minHeap` | the array and its sifts, against the counts it stands for |
| `KShortest` | `kShortest` (Yen) | one action per spur node and per round |
| `RiskTrials` | `trials.run`, `SimulateRiskWith`, `mixtureCompromise`, `WhatIf` | the same trials on three graphs |
| `AuditLog` | `audit/postgres.go`, `hashRecord`, `verifyaudit.go` | a transaction is one action, a verification two |
| `TriageBoard` | `suppress`, `ticket`, their handlers, `atomicfile` | the change, the snapshot and the rename apart; or one statement of the table |
| `PathHistory` | `history/history.go`, `postgres.go` | the same passes to both backends |
| `VerdictLog` | `validation/validation.go`, `log.go`, `postgres.go` | the log's three-phase rewrite beside appends; the table |
| `ApiDoor` | `auth/auth.go`, `jwt.go`, `secwatch` | `RequireRole` step by step on every replica |
| `RateLimiter` | `ratelimit` | one request an action |

`IngestionProofs` holds the theorems of `GraphStore`, `IngestPipeline`, `AgeStore`, `IamAccess`, `EscalationAudit`, `ResourceExposure`, `KubeReach` and `PlanExposure`, `BrokerProofs` those of `Broker`,
`AnalysisProofs` of `PathSearch`, `KShortest`, `MinHeap`, `SnapshotCache`, `ImpactLedger`, `RiskTrials` and `PortSets`, `RegistersProofs` of the four registers and of `StatusReporter`, `ServiceProofs` of `IngestDoor`, `MergeGate`, `PullRequests`,
`RateLimiter`, `Collection`, `ThreatIntel` and `ApiDoor`; `MC*` are the small instances. Operators
introduced by "Fault:" are not part of the models: each is the form a plausible defect would give the
definition after it, and shows that a property can fail. A property whose comment begins with what a document
or a comment "says" states that sentence; section 6 tells which of them the models contradict.

### How state and actions correspond to the code

*GraphStore.* `nodes`, `edges`, `pending`, `nodeOrigins`, `edgeOrigins`, `pendingSwept`, `removals` are the
fields of `memory.Store`; a node is its `last_seen`, an edge its `last_seen` and whether it is inferred.
Other properties are left out: the store copies them. `ApplyEvent` is `graph.ApplyEvent`: it drops nodes
with a label outside the ontology (`Invalid`) and edges that touch them, and calls `UpsertBatchFrom`.

*AgeStore.* `provenance` is the set of rows of `_pg_provenance`, `waiting` that of `_pg_pending_edges`; a
transaction that fails rolls back, so it is no step. The store looks for expired parked edges in every
write (`looked`), where the memory store does every `SweepPendingEvery` (0 in the
mapping). `INSTANCE GraphStore` reads the origin maps off the rows. The clock is one: the engine's
`time.Now()` and the transaction's `now()` are not told apart.

*AuditLog.* `rows` and `checkpoint` are the two tables. An append holds the chain's advisory lock from before it reads the tail,
so it is one action; it may fail, or commit and have the writer told of an error. A hash is the tuple it is computed from: hashes
of different contents differ. A record is its number and the time it was queued at. `late`, `said` and `perished` are not
state of the code: they note records queued on a closed log, records whose loss was logged, and records that a crash took.

*Broker.* A replica's `step` is where `Consume` is in handling a message: received, handled, recorded,
marked, acknowledged, checking, claiming, sweeping; or failed, dead-lettering, terminating. JetStream
(`Deliver`, `AckTimeout`, `Expire`) is external and modelled by what the code configures: `MaxDeliver`, the
acknowledgement wait that `keepInProgress` extends while the handler runs, the maximal age. Each replica
holds one message at a time; the code's pull buffer holds four, handled one after another. The bucket's
one-hour TTL is not modelled.

*IngestPipeline.* An event is taken and observed when its batch is published. The bus is replaced by its
contract, which `Broker` implements, so that four ingests fit.

*PortSets.* A set maps each transport to its list of ranges, as in the code. `offered`, `undecided`, `allowed` are the variables of `FirstMatch`; its loop over the
rules is the steps, so each prefix of a rule list is a state. 65535 is `MaxPort`. Ranges that begin at one port come out of `Sorted` in the order they were in; Go's sort leaves it open, and merging does not
depend on it (the proof uses only that they are sorted).

*PlanExposure.* The collector keeps no state. What changes is the account, the configuration's part of it and the plan (`account`, `managed`, `planned`): `Elsewhere`, `Edit` and `Apply`
are AWS and Terraform, external, and every state is one in which a plan may be judged. `Before` and `Planned` are the bundles of the two views, `LiveRead` that of the account,
`Overlay` lays one over the other, `InternetExposure` and `Lateral` are cloudnet's, `Outside` the ids that the notes name, `Reported` what `finish` leaves exposed. `Shown` is
external: a group, table or list that the configuration manages shows in its own attributes what AWS has in it. `Sources` are the subnets that the configuration reads as data:
both views have them (`Looked`), and an association of one of them that the view does hold is dropped. An instance says whether it gets an address, or leaves it to its subnet, and then, of a subnet
the view does not know, no address is told (`Addressed`) and the groups alone decide. There is one VPC, one
family and one transport, rules are resources of their own, every reference resolves; load balancers, services, APIs and identities are left out.

*SnapshotCache.* `graph` maps the present elements to their `last_seen`; an element is observed up to `MaxLag` before
it is written. `cache`, `watermark`, `removalEpoch`, `passesSinceFull` are the fields of the code's cached
snapshot.

*AnalyzerFleet, StatusReporter.* The graph is abstracted to its set of critical paths. A commit is judged by
`CommitsOn`; `ImpactLedger` models the judgement. Posts go out one commit at a time.

*PathSearch.* Probabilities are integer costs, `-ln p` in the code: only sums and order are used. The queue is
a set of entries; `MinHeap` shows that the array behaves like one. The order of edges out of a node is
arbitrary. The final sort, the scores and the provenance of a path are not modelled.

*KShortest.* Its inner Dijkstra returns any cheapest route. *RiskTrials.* A hash is any function from key and trial to
a draw; probabilities are a few levels; the stamp wraps at `Stamps` in place of 2^32.

*IamAccess.* An action pattern is the set of actions it matches; a resource is a set of the account's, written out, by prefix, as `*` or by exception. `identity`, `cap` are the
code's action sets, folded statement by statement (`Read`); `Escalation` is the weight of the edge to account-admin, 0 for none; `noted` is what the plan's feed says it could not read. `CanEscalate` is AWS's
evaluation, external.

*EscalationAudit.* `memo` holds settled answers only, as the code does; a simulation is AWS's evaluation over the documents and the organisation's policy, without the request's context: a statement under a condition that was not
supplied does not match.

*KubeReach.* Objects appear one by one and each set of them is a dump; `DrawnEdges` is what `Parse` emits for it. What Kubernetes answers (`RulesOf`, `Covering`) is external.

*ResourceExposure.* A condition is a key that tells who calls or does not, an operator and whether each value is fixed; `Admits` (AWS's evaluation for a stranger who chooses what he can) is external. `network`,
`claimed`, `publicAccess` are the node's properties, merged over what was there.

*CrownJewels.* `node` holds `crown_jewel`, its basis and the classification. A collector's tags are judged as its event is built, the rest when it is normalized.

*IngestDoor.* The clock runs in half seconds, signatures carry whole ones. A request's steps are those others come between: the budget, the verification begun (its time read), the table, the
collector, the bus. The signature is its report, its second and the secret.

*Collection.* `pull` is a collection under way: its feed, what it read, the kinds that failed; `missed` notes what was absent at some time since its connector began, `unread` what is of a quiet
kind whose call failed since. A failing call costs what it costs in the code: the whole feed (`FailFeed`), the kind and the claim to be complete (`GoOnWithout`, Kubernetes), or only the kind (`FailQuietly`:
instance profiles, ECS services and load balancers of the network feed, Pod Identity associations of EKS). Calls that lose an object's text or tags only (a boundary policy, the tags of a function) are left out.
A terse feed of a place where there is nothing is not published. The graph is reduced to who asserts what, `Sweep` to the set difference.

*ThreatIntel.* `asker` is where each caller of `Scores` stands, between the calls it makes without the lock. Forecasts are in one process's memory and file, or in the table. Verdicts filed stay.

*PullRequests.* `landed` is the commenter's memory, `post` and `fix` what each call sequence is at. The repository is its pull request's comments, one branch and the pull requests opened. GitLab differs in the calls alone.

*MergeGate.* The report is a set of messages, each landed and marked apart, and the comparison counts as analysed when one of them carries the commit's stamp; a pass reads the graph and ends later. `Settings` are the ways the gate may be called.

*TriageBoard, PathHistory, VerdictLog.* What memory holds and what the file holds are apart; `Restart`, `RestartHistory` and `CrashAndLoad` load the one from the other. A rename is atomic. In `VerdictLog` the log is a sequence of lines, the last of which
may be torn. History's two backends run side by side on the same passes, as do the log and the table of verdicts.

*ApiDoor.* Times are ticks; `view` is a replica's copy of the lockout table. A refresh of the keys is one step with its fetch. *RateLimiter.* Tokens are integers; a request costs `PerRequest`.

## 3. Runs

| Run | Instance | Shows |
|---|---|---|
| `stores` | 3 nodes, 3 edges, 3 origins and the legacy one, a parked edge waits for the tick it is parked in; in memory and in the AGE tables the clock to 2 and one removal; behind the bus the clock to 3, two removals, 4 ingests (two snapshots of a scope, one of another, one partial), pruning off, or on without the other scope | the store's invariants and action properties; every step of the AGE store is one of the memory store's; what snapshots list stands, in any order of taking, delivering and sweeping |
| `broker` | 2 replicas, a two-message snapshot and a malformed message, 2 deliveries, 2 faults | the bus's safety, and that it implements `BatchContract` |
| `broker_live` | the snapshot, 1 fault, fair | every message settles, every snapshot is swept unless a fault intervenes |
| `broker_exhausted` | the same, safety | **violated**: a last delivery without an answer is never dead-lettered |
| `feedback` | 2 replicas, 1 path, 1 commit, a fault, fair | alerts and statuses once, and settled; results catch up |
| `analysis` | all subgraphs of a seven-edge graph with two workers; heaps of up to 7; up to 4 routes in every extension of a small network; 2 trials in 3 simulations; `SnapshotCache` (2 elements, a fault); `ImpactLedger` (2 commits, a route, 3 scores) | the four algorithms against reference definitions, and what a replica remembers between passes |
| `registers` | audit chain of 2 replicas, 2 records, queues of 1, 2 faults; board with 2 requests at a time, 2 paths, 3 requests, a suppression that ends while the clock runs; history of a path over 4 passes, series of 2; verdict log with 2 reporters, 3 reports; a fault each | what is kept survives failed writes, crashes and restarts, on both backends |
| `collectors` | 3 rules over 5 ports; 7 estates around a subnet (one of them has a subnet that is read as data, and instances that leave their address to it), plans of up to 2 changes; principals of 2 statements and a boundary of 1, the oracle asked about those; 3 Kubernetes scenarios, 2 clusters, up to 6 objects at once; resource policies of up to 3 statements | what is concluded of an account, a plan, a cluster or a policy is what is there |
| `service` | lockouts over 2 processes and 2 addresses, keys of 2 generations; 2 senders, 2 deliveries, a loss, clocks a second apart; 2 addresses for a table of 1 bucket; 8 ways to call the gate on a report of 2 messages, a lapse; 2 commenters, 2 requests for a fix, 2 faults; 4 feeds of 3 connectors, a move, a failure; 2 replicas and a vulnerability, a fault | who and what is let in, and what the engine says and keeps outside the graph |
| `gate_reads_late` | the gate with 2 replicas | **violated**: a pass that began before the report was in is taken for one that saw it |
| `holdout_blind` | the feeds with one replica | **violated**: a forecast is refuted because the feed did not answer |
| `jewel_demoted` | a data store, 5 events | **violated**: a tag replaces what a classifier established |

All but the runs of the bus, of `feedback` and of `CrownJewels` check several independent components: `subject` says which one a behaviour is
of, the others stay idle. One run then costs one start, and what it checks is the union.

**Why the bounds are enough.** The store's cases need an edge whose two endpoints come apart, a second edge between the
same nodes, two origins, and an instant after the TTL: each happens, and every action fires. In the pipeline the full snapshot takes two messages, so that the short one may be taken, delivered or swept before, between and after
them. On the bus, what matters is
two replicas holding the two last messages of a batch, redelivery, and two faults, so that one can hit the recovery from the
other. Yen's bars need routes that share a root and tie: the
network has five nodes. A heap of seven has three full levels, and passes
every size from one on, with one and with two children at the end. Stamps wrap within one run of trials. The ledger has two
commits, because attribution depends on whether another arrived, and three scores, so that one can rise and fall back. The audit chain has a queue that one record fills, and records enough for an append beside a verification
of a chain that was pruned. Two requests at a time are enough for every race of the board, which is between a change, a snapshot and a rename. Five ports let two ranges touch, overlap, nest and lie one port apart; three rules let one cut what another left. A plan
of two changes is enough for one to open and the other to hide it, and estates grow over applies. An escalation needs at most an Allow, a Deny that meets it and a boundary, or two Allows that make one technique. Six
objects give a pod, its account, two roles and two bindings of the same names. A resource policy of three statements has an Allow, a Deny, and one that qualifies either. A lockout spreads over two replicas; keys
need one replica, a rotation and an age past the TTL. A table of one bucket is full with the first address. The gate's report needs two messages, one that is in and one that is not. The theorems of
section 5 do not depend on bounds.

**Symmetry** is used where nothing tells the members of a set apart: replicas of the bus (`MCSymmetry`), replicas of the audit chain, handlers and reporters (`RegisterSymmetry`), processes and addresses (`Alike`). No run that checks
liveness uses it. **Deadlock** is checked in `feedback`, whose system never stops. In the others it may: a bus
with every message settled, a search that has reported, a gate that has answered, a clock at its bound.

## 4. Fairness, and the properties that need it

* `broker_live`: weak fairness of each replica's work (its consumer goroutine runs), of delivery of each deliverable message
  (JetStream serves a waiting consumer), and of the acknowledgement timeout of a message no live replica holds. Crashes, failures and expiry
  are not fair. `MessagesSettle` and `SnapshotsAreApplied` need all three.
* `feedback`: weak fairness of each replica's pass, sink included, and of the webhook goroutine. Writes, crashes and lost
  sessions are not fair. `VerdictSettles` and `ServedCatchesUp` need it.
* `analysis`: weak fairness of the algorithms' steps (`SearchEnds`), and of a replica's pass: `Service.Run` ticks for as long as the process lives (`Heals`).

`VerdictSettles` is stated while the lead has not moved and no answer was lost; `RedIsCleared` and `RedIsPosted` drop that, and do not hold (section 6).
`SaidOnce` is stated likewise. The other runs check safety and need no fairness.

## 5. Proofs

All are checked by TLAPS for every value of the constants that the named assumptions allow.

**IngestionProofs**. *On `GraphStore`* (`GraphAssumption`: endpoints are nodes, events are well formed, bounds are naturals). The inductive invariant is the
conjunction of the types, `NoDangling`, `ParkedWaits`, `OriginsHaveElements`, `ParkedWithinTTL` and "the last expiry check is not
in the future", which `ParkedWithinTTL` needs. One lemma per operation (`UpsertBatchFrom`, `Sweep`, `Prune`), one step per conjunct. From it:
`EdgesStayInPlace`, `OriginsFollowElements`, `ParkedEdgesExpire`, together `EverythingStaysInPlace`; and the action properties `GuessesNeverReplaceFacts` and
`EveryRemovalMovesTheEpoch`, together `WritesAlwaysKeepTheirWord`. The runs check the two conjunctions.

*On `IngestPipeline`* (`PipelineAssumption`: batches have messages, each with an event). The store's invariant carries over by its own lemmas: a handled message is a batch
write, a sweep is a sweep. To it comes `AssertionsStand`: with pruning off, what an applied event listed is on record for its origin since the event was taken, as long as no newer snapshot of the scope was
applied over it. A sweep of the scope withdraws only what is older than its own snapshot, so by then the event no longer stands; a sweep of another withdraws nothing of it. An element on record is
in the graph (`OriginsHaveElements`), so `ListedAlwaysStands`. `Owned`, that whoever is on record listed the element, gives `RetractionsAreByTheAsserter`.

*On `AgeStore`* (`AgeAssumption`: the legacy source is an origin). The rows of an element are read as a map from origins to times. Lemmas say what each statement does to the maps: an upsert of rows is `Note`,
deleting an origin's older rows is `Withdraw`, deleting old rows is ageing. This needs the table's key, one row for an element and origin, so the invariant has it (`Rows`). It also has that a waiting edge is
not in the graph, without which the prune would not be the memory store's. From it `TablesStepAsMemory`: every transaction is a step of `GraphStore` on the maps, for any graph and rows an older build left.

*On `IamAccess`* (`IamAssumption`: a statement allows or denies, under one of three kinds of condition; one on everything covers every resource; a technique needs some action). The invariant, `ReadFrom`, says what an action set is of its
documents: each readable Allow is among the grants, and each deny comes of an unconditional Deny over the whole account. So what a request may do the set grants, and no escalation is missed. For the score, the edge's probability is written
as a function of the votes (`ScoreOf`) and shown monotone in each of them (`ScoreIsMonotone`); an Allow only widens a set, a Deny or a boundary only narrows it. Two votes meet at the top: a Deny of everything
under a condition must touch every technique, or becoming administrator would lower the score; it does, because a technique needs an action. From it `IamScoresAreSound`.

*On `EscalationAudit`* (the same assumption). The account does not change once the oracle is asked, so what is kept is what would be answered again (`AuditInv`); and an answer is reality's because a permit was clean of context
and a refusal lacked none. From it `AuditsTellReality`, on any resource.

*On `ResourceExposure`* (`ExposureAssumption`: the five sorts; a function whose policy the input left out has no statement in the model). A call a stranger is admitted by is public to the collectors
(`AdmittedIsPublic`), and where no Deny is conditional, the stranger who meets every condition he can is admitted by what they call public (`PublicAdmits`). The invariant adds that the node says what was decided last; from it `DoorsStayToldApart`. The attempt widened the
exception `HalfConfining`: a Deny for everyone elsewhere is half of one whenever it has any other condition, negated or not.

*On `KubeReach`* (`KubeAssumption`: references and subjects are of the kinds the code knows, the synthetic role's name has "admin" in it, and no role a binding refers to is named like an ARN). The graph is a function of the estate, so the
invariant is small: what is there is of the scenario, and a cluster has one object of a name. Every edge drawn is of one of seven shapes (`EdgeShapes`). What contains a node and is not left by the edges contains what the node reaches (`ReachedStaysIn`);
three such sets give that routes stay in their cluster (`RoutesStayIn`), that a pod which may not become administrator stays below (`PodsStayBelow`), and that a principal reaches only what names it (`MappingsAreNamed`). The other way round,
what Kubernetes allows is three edges long and each of them is drawn (`EscalationsDrawn`). From it `RoutesStayReal`, for any number of clusters, objects and rules. The bound of eight steps in `Reached` does not weaken it: the sets are closed under any number.

*On `PlanExposure`* (`PlanAssumption`: an estate to begin with is one that AWS accepts, the two parts of it have nothing in common, ids tell a group from an access list, nobody makes the VPC's first table). The invariant, `PlanInv`: what is
managed is in the account, what is planned is not among what was made elsewhere, the account is acceptable before and after, and an instance that an address made elsewhere is bound to is the same before and after. Lemmas say what the partial functions
are (`TableOfIs`, `AclOfIs`, `LaidTables`, `LaidLists`), which associations a view tells (`AccountTells`) and that a list the plan holds is shown with just the entries it will have (`PlannedEntries`, `OverlayEntries`), which is where an entry that the plan deletes but AWS still shows must be
told from one made elsewhere (`KeptEntries`). A packet that will get through has four reasons (`ReachesIs`). With a read, each of the four is in the overlay (`LaidReaches`), and of a plan that only adds, nothing but them (`LaidIsTrue`). Without one,
a route or a list that comes to let it through is listed (`RouteIsTold`, `ListIsTold`), so an instance made elsewhere cannot be opened unlisted (`OthersAreListed`), and one of the plan's is judged open (`PlanReaches`) and not left to the estate's verdict
(`OpenedIsUnsettled`), unless what lets the packet in is of a group it does not show, which is then listed. From it `PlansAreAccountedFor`. The exceptions of `OpeningsAreSeenOrListed` (section 6) are used each at one place, and no other was needed.

**RegistersProofs**. *On `AuditLog`* (`AuditAssumption`: bounds are naturals, queues hold something). One invariant for the chain: the rows follow the
checkpoint without a gap, each linked to the one before it, and a verification that no prune overtook began at the checkpoint that
still stands. From it `ChainNeverBreaks` and `AlarmsOnlyOverRetention`, together `TrailStaysTrustworthy`. Another for the records: what a replica holds
after its writer ended was queued on a closed log. With it, each step that drops a record leaves it in the chain, in the
log, or with a crashed process: `NothingVanishesUnsaid`.

*On `TriageBoard`* (no assumption). The argument is about who is alone. Requests that overlap on a store know it and mark the file as one that may be behind (`OverlapIsSeen`); a request nobody overlapped copies what memory holds and
writes that (`CopyIsCurrent`); so an unmarked file differs from memory by a change that is on its way (`FileIsCurrent`). `Single`, that a path has one open ticket, is carried through memory, the copies and the file. From it `DecisionsAreKept`.

*On `PathHistory`* (`HistoryAssumption`). What a process remembers, its file and the table are alike as long as no write was lost: the same paths, and series whose points have the same dates, in order and spaced. Trimming drops the oldest points, so
what is dropped lies before what is kept (`Covers`). From it `HistoryIsKept`.

*On `VerdictLog`* (no assumption). The log read back is a recursion over its lines. The lemmas take it one line at a time: a replay that settles
puts and deletes by path and scope, `SnapshotReadsBack` says that a rewritten log reads back to the set it was written from. That is an induction over a sequence; it is done on a set of naturals (`NatSetInduction`, proved
by counting with the library's facts on cardinality), so that no operator is a parameter. The invariant: whoever rewrites has, with the events since, what memory holds (`RewriteCovers`), and a log that is owed no rewrite and has lost nothing reads
back to it (`LogIsCurrent`). From it `TheLogIsTheStore`.

*On `StatusReporter`* and the fleet it extends (`FleetAssumption`: nobody is no replica). While nothing failed over there has been one leader. `Accounted`: for every path, what was announced, what is on its way, and one more if the
leader has yet to announce it, is at most the times the path came into the graph; a replica that takes the lead first owes at most what came in. `ForgeInv`: while no answer was lost either, only the leader
remembers posts, and the forge shows those and nothing else red. From it `NothingIsSaidTwice`.

**BrokerProofs** (`BrokerAssumption`: batches have messages, scopes are scopes). The invariant says what a replica has behind it at each step of
handling a message (an applied message before a mark, a record before a mark, a complete batch before a claim), that marks and
claims in the bucket are backed by what the graph holds, and that no two replicas sweep a batch. Counting the bucket's keys is counting a set of the
batch's messages: cardinality lemmas turn "as many marks as the total" into "every message". From it the safety properties, together `BusAlwaysTellsTheTruth`, and
`BusKeepsItsContract`: every step of `Broker` is a step of `BatchContract` or leaves `published`, `applied` and `sweeps` alone.

**AnalysisProofs**. *On `SnapshotCache`* (`CacheAssumption`: bounds are naturals). The invariant adds to the types that a cache which holds something the graph lost was
built at an older epoch (`RemovalsAreSeen`), and what a pass knows at each step: an incremental one has, once past the epoch, a cache
with nothing that was gone before the pass began. From it `NothingRemovedIsServed`. `Fresh`: when events are written in the second they were observed in, the cache has
everything that was written before its watermark, as it was written; the delta brings the rest. From it `WritesAreServed`.

*On `PathSearch`* (`SearchAssumption`; `GraphAssumption`: the nodes are finitely many, the highest cost a natural). The invariant has four parts for each worker. `Frontier`: whatever is queued is no
nearer than the node expanded last. `Expanding`: what is left to relax leaves the node being expanded, at its final distance.
`QueuedOrEased`: a node that was found waits in the queue at its distance, or each of its edges is relaxed or about to be. `FoundBy`: a
node's distance is accounted for by the edge it was found by. When the queue runs empty this gives `Certified`: the
distances satisfy the shortest-path equations. `Advances`: nodes are expanded in order of distance.

What is reported rests on more. `Rooted`: the edges that nodes were found by go up in rank from the seed, and each leaves a node that has been expanded; so a node that is found again
by a shorter way, which was not expanded, has found none, and hangs anew as a leaf. Free edges are why the distances alone would not do: along them `prev` could go in circles. With the ranks the loop of
`reconstruct` comes back to the seed and passes no node twice (`WayBackClimbs`), and a node has a distance exactly when edges reach it (`ReachedHasDistance`). The routes by number of hops are the loopless
walks (`RoutesAreWalks`), no walk is shorter than the distances say (`NoWalkIsCheaper`), and the way back costs its distance (`CostOfIs`). `SeedsInv`: a seed is queued, searched from, or done. From these
`ExposuresStayExact`: whatever the graph and however many workers, a report has the likeliest loopless route of each pair that is due, once, and nothing else.

*On `KShortest`* (`YenAssumption`: the two ends are nodes, a network is a set of edges). That the routes are in order is not inductive: a round that had searched too little would show much later. `Looked` is what
a round owes: a route that was not found yet leaves those found at some node (`RouteLeaves`), and there either the round has still to look along the last route, or a candidate goes the same way that far and is no dearer.
A search from one node bars just the hops found routes take from there, so what it returns is new (`JoinedIsNew`), and the rest of every route that leaves them there is still to be had (`WayOnIsLeft`); a cheaper rest is a cheaper
route, since costs split at a node (`CheaperWayOn`). At the end of a round nothing is left to look at, so the cheapest candidate is the cheapest route to come, and with no candidate there is none (`CandidateIsNoDearer`). The next
round looks along the route just taken, the only one whose company changes what others leave (`LeavesOneMore`). From it `RoutesComeInOrder`.

*On `MinHeap`* (`HeapAssumption`: distances and the bound are naturals). A sift is a recursion over the turns of its loop. `LoopRuns` and `LoopSettles`, from an induction over the naturals that finite sets give (`NatSetInduction`), say
that such a recursion has a solution, keeps to any set its turns keep to, and stays put once a rank has run out. `Rising` and `Sinking` are those sets: all is in order but the item under way, and what is around it would be in order without
it; the rank is how far it can still go. A swap is a bijection of places, so it changes no count (`SwapKeeps`). From it `HeapKeepsTheQueue`: every step of the array is one of `PriorityQueue`.

*On `ImpactLedger`* (`LedgerAssumption`: the highest score is positive). `Mirrored`: the ledger's copies are those of the last pass, or empty after a restart. `StandingIsNobodys`: a route that
stood before a commit arrived, and was there in every pass since without rising, was never put down to it. From it `LedgerStaysFair`.

*On `RiskTrials`* (`RiskAssumption`: links, seeds and jewels are of the graph, what was cut was in it, what is held is a seed, a stamp tells at least two trials apart). `RiskTypes` says that no stamp is
ahead of the trial's, so a new trial, or wiped sets when stamps run out, leave nothing marked (`StartTrialKeeps`). `Underway`: what is marked is reached by links the trial realizes, what was taken off the stack has its links
crossed, and a jewel where an attack may start is hit exactly by what was taken off. With an empty stack what is marked is closed, so it is all that is reached (`ReachableIsLeast`), and `TrialsTellTheTruth` follows. What a cut or a
capability changes is then a matter of the realized links (`MoreLinksMoreJewels`, `IdleCut`), and of an earlier simulation having all its trials (`Progress`). From it `TrialsStaySound`.

*On `PortSets`* (`PortsAssumption`: the highest port is a natural, a rule's bounds are ports or missing). One lemma says of each operation which ports its result has: `SortedIs` (a sort is a bijection of places, by counting
what comes before), `GrownIs` (a range that begins no earlier than the last one joins the list without a port lost, added, or left touching), from these `MergeIs`; `CommonIs`, `RestIs`, `FlatIs`, `CutIs`, `MeetIs`; and
`RulePortsAre`, that a rule's ranges are the packets it is about. The loops are `Turns`, which `TurnsRun` solves by induction. `ByPacket` then says of every packet, after each rule, whether it is undecided and whether it was let through. From it `FirstMatchDecides`.

**ServiceProofs**, on `PullRequests` (`ForgeAssumption`: pages are naturals, a person's comment is marked for no path). For the fix, `FixInv`: a branch that is not there has no
files, and at most one request commits, on a branch that holds what it has committed so far. A failure leaves the branch behind, and with it nobody who may commit. From it `FixesAreWhole`.
For the comments, `CommentsInv`: while nobody was excused one replica posts at a time, doubles of a path lie past what the search covers, and who is about to
create a comment would not find one if it searched again. From it `CommentsAreOne`.

*On `MergeGate`* (`GateAssumption`: settings are modes, the skew is an integer). The invariant says that nothing is applied before the report is sent, that a mark is of an
applied message, and that from the poll on every message was marked by the floor, whatever the runner's clock said. One lemma for the engine's steps, which only add to
what is applied and never move the marks of a whole report, one for an exit with a verdict, one per step of the gate. From it `GateLooks`.

*On `IngestDoor`* (`DoorAssumption`: skews are integers, the window, the sweep's interval and the retries naturals). `SeenWasTaken` and `TakenIsSeen`: a signature that is kept was
taken, and one that was taken is kept or has run out; the sweep drops nothing else. `SignsLater`: a sender that is to sign again does so in a later second than it ever did, because
every pause is a second or more; so no two of its requests share a signature (`SignedOnce`). From it `RequestsCountOnce`.

*On `RateLimiter`* (`LimiterAssumption`). An address without a bucket is read as one with a full bucket, so evicting a full bucket changes nothing. `PaidSince`: what an address drew since any of its admissions, and what it could draw now,
is at most a burst and what flowed in since. `PaidBetween`, the same between two admissions, follows as the last is made. From it `LimiterKeepsBudgets`.

*On `Collection`* (`CollectionAssumption`: a schedule of known feeds, none of them named "partial"; a feed that goes on without any kind may also have nothing to say). What is held for a feed is something the feed can list, under the id its kind of event gives it (`HeldInv`). An event
that claims to describe its feed has all but what was absent at some time since the collection began, and the objects of the quiet kinds whose call failed in that very collection (`EventInv`, `Unseen`); a quiet kind whose call succeeded gets no exception, which is why each failing call has a lemma of its own (`GoOnKeeps`,
`QuietKeeps`). So whatever applying it removes was gone or is of a kind that this collection could not read: `PullsRetractTheGone`.

*On `ThreatIntel`* (`IntelAssumption`: there is an engine, weights are percentages). What a pass grades was due when it began (`DueInv`), a vulnerability has one forecast (`OneEach`), and over a file, where one pass runs at a time,
what it grades is still sealed, and what the file has beyond memory has its verdict (`FileInv`). Over the table a second pass may have come between; then the forecast was overtaken, which the property excepts (section 6). From it `ForecastsEndInVerdicts`.

*On `ApiDoor`* (`AccessAssumption`: times are naturals, a role is required). `Covers`: a lockout that the table has and a replica's view has not is over, or was set after the view was read; so what a view misses is
younger than the view. `KeysInv`: a key that a replica holds was published when the keys were fetched. With what each answer rested on (`VerdictInv`) this gives `TheDoorIsKept`.

**Left to TLC.** Liveness under fairness (`Heals`, `SearchEnds`, `MessagesSettle`, `SnapshotsAreApplied`, `VerdictSettles`, `ServedCatchesUp`), which needs ENABLED. Every
other property of a passing run is a theorem.

## 6. Findings, and what the models show beside them

`findings` in `PROJECT.json` quotes the sentence and the line for each of the four violated properties. More divergences turned up that no
run is spent on. Those with a name are stated in their modules and can be run by putting the name into the run's configuration.

**The graph.**

* A guess parked over a parked fact replaces it (`GraphStore!FactsStayParked`).
* A message of an older snapshot that is applied after a newer one was swept brings back what the newer omitted, until the scope's next sweep;
  `pkg/ontology/event.go` says of snapshots "so an older one landing late never undoes a newer one". Sweeps compare times, writes do not.
* An older event handled late moves `last_seen` back, and a prune then finds a node that was seen since (`IngestPipeline!PrunedWereUnobserved`).
* The AGE store's prune deletes provenance rows by their own time, the memory store's with the element. A row that outlives its element speaks for it again if it comes back, and keeps
  a snapshot from retracting it until the row ages. `StepAsMemory` therefore compares a prune on the elements the store holds.
* An owner's `crown_jewel: false` on a posted event is overridden by the next event about a store whose name is suggestive and that says nothing.

**The passes and the forge.**

* `NothingSlipsThrough` is stated for elements written within the second they were observed in. `analyzer/service.go` says "no write can slip through the gap"; one written
  later does, and the periodic full read makes up for it (`Heals`).
* A pass whose read fails has already noted the version it was to analyse, so the passes after it skip, up to `forceRescanEvery` of them (`ServedCatchesUp` holds all the same).
* A lost answer, or a change of leader, leaves a commit red for ever (`StatusReporter!RedIsCleared`); a deposed leader's clearance is never corrected (`RedIsPosted`).
* Alerts are "at-most-once across the fleet" only while the lead stays: a new leader announces what it had not found yet itself. A deposed leader still in its sink acts
  beside the new one, where `leader.go` says "exactly one of them performs at-most-once external actions".
* A pull request may carry two comments of one path (`PullRequests!SingleComment`): two leaders posted at once, or the marker is further back than the search goes.
* After a fix that failed halfway its branch exists, and every later request for it fails at creating the branch.
* The ledger calls itself "conservative, never silent". A route a commit worsened that disappears and comes back at its old score counts against nobody (`NewRoutesCount` states the exception).

**The registers.**

* `VerifyPG` reads the checkpoint and the rows in two statements. A prune between them makes an honest chain look broken. `verifyaudit.go` checks for the table first, because "telling an
  operator their audit log has been tampered with" over a mistyped name is the wrong answer it "must never give" (`AlarmsAreOvertaken` states the exception).
* A call to `Record` beside `Close` may queue after the writer has ended, and is then lost without a word (`NothingVanishes` excepts it); `postgres.go` says "an audit record that vanishes
  without trace is worse than one that arrives late". An append whose commit succeeds but whose answer is lost leaves both the record and its tombstone.
* `PruneBefore` removes every row up to the last one older than the cutoff. Replicas time records when they queue them, so a newer record that was appended earlier goes too.
* Two writers of one file may rename their snapshots in the other order (`TriageBoard!LastSnapshotWins`); the next undisturbed write repairs it. The ticket table's `Create` looks and then inserts, without a unique index: two
  requests may open two tickets.
* A verdict that comes while the log is to be rewritten is answered before it is in the file (`VerdictLog!AcknowledgedIsLoaded`). The table keeps every verdict, the log the latest of a path and scope, so metrics move with the
  backend (`MetricsAgree`).

**The collectors.**

* A plan read alone is silent in ways `OpeningsAreSeenOrListed` names. A subnet tied to a table whose routes the plan does not hold is judged private, and not listed, although `network.go` says
  of unknown routing "erring toward reporting" (`HeldInPart`; the same of an access list held in part). An address bound to an instance that the plan does not describe is neither judged nor listed, with a read of the
  account too (`BoundElsewhere`). Not read at all: an association that is taken away, a main table changed beneath subnets of others; and a main table of the plan's
  overrules an association made elsewhere, and a new association of a subnet that the configuration reads as data is dropped, although `network.go` says "Associations of subnets the configuration does not
  manage still say how they route." (all four `Misrouted`, the last `AssociationsSayHowTheyRoute` too). An instance that the overlay shows open may be left to the estate's old verdict (`PlanExposure!LaidOverIsJudgedWhole`).
* A Deny on a partial wildcard is taken for one on everything, so an escalation over what it spares is missed; the package says of its simplifications that each "errs toward reporting" (`IamAccess!ErrsTowardReporting`).
* An escalation that only a request's context permits counts as one the engine over-reports (`EscalationAudit!DisagreementsAreReal`).
* Which of two rules of a role comes first decides the weight; only containers, not init containers, are read; an account bound under its user name is not recognised; an account that the dump does not list is not covered by group
  bindings; and a rule over every resource may be passed over as benign (`KubeReach!BenignMeansBenign`).
* A Deny for everyone elsewhere that holds only under a further condition is taken to confine (`ResourceExposure!ConfinedMeansConfined`). `NotPrincipal` and `NotAction` are not read. A function whose policy cannot be
  read is judged by its URL alone. A Kubernetes service that is no load balancer any more, and a database that was closed, keep `internet_exposed`: what said so is not taken back (`labels.go`).

**The service.**

* The network feed goes on without instance profiles (that failure is not even logged), ECS services and load balancers, EKS without Pod Identity, and each still publishes a complete snapshot: one failing call retracts
  every object of the kind, although `aws.go` says of a snapshot that "Only a feed that was fetched and parsed without error gets here" (`Collection!PulledInFull`; `RetractedWereGone` states the exception). An account that is told on one pull and not on another gives an object two ids
  (`OneIdPerObject`).
* A failed EPSS fetch marks the vulnerability as asked for, for the whole TTL. With the KEV feed down after a restart a scan lowers the edge of a listed vulnerability while its node keeps `kev`. An older answer in flight
  may replace a newer copy. A crash between the verdict and the flush grades a forecast again.
* The holdout runs on every replica. Two passes over the table that overlap both file a verdict of one forecast; and the slower one, which drops by vulnerability, takes the forecast that the faster one sealed anew,
  which then never gets a verdict (`SealsEndInVerdicts` states the exception, `Overtaken`). `pgmigrate/sql/0005_kev_holdout.sql` says "a CVE is sealed once and graded once". The attempt to prove the property without the
  exception showed it.
* `verifyV2` reads its clock before it takes the lock, so a verification that waits may end after its signature has been swept (`AcceptedOnce` states the exception).

## 7. Plan

Done: the way of an event from its sender to the graph and from the graph to a verdict on a forge, the algorithms in between, what is kept beside the graph, what the collectors conclude, and the door. Next, in this order:

1. **Proofs**: what of the network and plan collectors needs no induction over data.
2. **The AGE store**: its snapshot and delta reads, which are two statements without the lock.
3. **The rest of the plan overlay**: load balancers, services, API gateways; peerings of the network collector.
4. **Identity resolution** between feeds, which merges nodes: the order of events may decide what is merged.
5. **Policy invariants** against a reference traversal; the audit trail kept in a file; the API's computation limiter.
