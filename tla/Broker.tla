------------------------------- MODULE Broker -------------------------------
(***************************************************************************)
(* The event bus: an ingest published as one batch of messages, the        *)
(* replicas that share one durable JetStream consumer, and the key-value   *)
(* bucket by which they learn that a batch has reached the graph and that  *)
(* a complete snapshot may retract what it omits.                          *)
(*                                                                         *)
(* JetStream is external: it keeps a message until it is acknowledged,     *)
(* hands it to one replica at a time, hands it out again when it is        *)
(* negatively acknowledged or its acknowledgement does not come, at most   *)
(* MaxDeliver times, and drops it at the stream's maximal age.  A replica  *)
(* handles one message at a time; each call it makes is one action, so     *)
(* that replicas interleave, and crash, between any two of them.           *)
(*                                                                         *)
(* Every call that fails, every crash, every lost acknowledgement is a     *)
(* fault, and a behaviour has at most MaxFaults of them.  A handler that   *)
(* returns an error is not a fault: MaxDeliver bounds those.               *)
(***************************************************************************)
EXTENDS Integers, FiniteSets, Functions

CONSTANTS
  Replicas,
  Batches,     \* the ingests
  Size,        \* how many messages each takes
  Scopes,      \* what a complete snapshot may describe in full
  NoScope,     \* not a complete snapshot
  ScopeOf,     \* message -> the scope its event describes in full
  Malformed,   \* messages that no handler can decode
  MaxDeliver,  \* deliveries of one message
  MaxFaults    \* bound on the faults of a behaviour

\* The messages of a batch, in the order they are published.
MessagesOf(b) == {b} \X (1..Size[b])
Messages == UNION {MessagesOf(b) : b \in Batches}

ASSUME BrokerAssumption ==
  /\ Size \in [Batches -> Nat \ {0}]
  /\ NoScope \notin Scopes
  /\ ScopeOf \in [Messages -> Scopes \cup {NoScope}]
  /\ Malformed \subseteq Messages
  /\ MaxDeliver \in Nat \ {0}
  /\ MaxFaults \in Nat

VARIABLES
  phase,       \* of a batch: "new", "sending", "failed"
  published,   \* the messages the stream accepted
  tracked,     \* the batches whose total is in the bucket
  stream,      \* the messages the stream holds
  ready,       \* those of them that wait for a replica
  deliveries,  \* message -> times it was handed to a replica
  hand,        \* busy replica -> what it handles and how far it is
  applied,     \* the messages whose event reached the graph
  marks,       \* batch -> the keys that say a message was applied
  records,     \* the complete snapshots recorded: <<batch, scope>>
  lostRecords, \* the messages whose snapshot record failed to be written
  claimed,     \* the batches whose sweep some replica took
  sweeps,      \* <<batch, scope>> -> times the omissions were applied
  dlq,         \* the messages the dead-letter stream holds
  givenUp,     \* the messages terminated after a failure
  aged,        \* the messages the stream dropped at its maximal age
  faults

publisherVars == <<phase, published, tracked>>
streamVars == <<stream, ready, deliveries, aged>>
bucketVars == <<marks, records, lostRecords, claimed>>
brokerVars == <<publisherVars, streamVars, bucketVars, hand, applied, sweeps,
                dlq, givenUp, faults>>

Steps == {"handle", "record", "mark", "ack", "check", "claim", "sweep",
          "deadLetter", "term"}

Delivery == [msg : Messages, attempt : Nat, step : Steps, todo : SUBSET Scopes]

Init ==
  /\ phase = [b \in Batches |-> "new"]
  /\ published = {}
  /\ tracked = {}
  /\ stream = {}
  /\ ready = {}
  /\ deliveries = [m \in Messages |-> 0]
  /\ hand = [r \in {} |-> 0]
  /\ applied = {}
  /\ marks = [b \in Batches |-> {}]
  /\ records = {}
  /\ lostRecords = {}
  /\ claimed = {}
  /\ sweeps = [x \in Batches \X Scopes |-> 0]
  /\ dlq = {}
  /\ givenUp = {}
  /\ aged = {}
  /\ faults = 0

\* A call succeeds, or fails as one of the faults allowed.
Succeeds == UNCHANGED faults
Fails == faults < MaxFaults /\ faults' = faults + 1

BatchOf(m) == m[1]

\* The batch carries a complete snapshot: each of its messages says so.
SnapshotBatch(b) == \E m \in MessagesOf(b) : ScopeOf[m] # NoScope

---------------------------------------------------------------------------
(***************************************************************************)
(* Publishing a batch.                                                     *)
(***************************************************************************)

\* The total is written before any message; without it the batch is
\* published all the same, untracked.
StartBatch(b) ==
  /\ phase[b] = "new"
  /\ phase' = [phase EXCEPT ![b] = "sending"]
  /\ \/ tracked' = tracked \cup {b} /\ Succeeds
     \/ tracked' = tracked /\ Fails
  /\ UNCHANGED <<published, streamVars, bucketVars, hand, applied, sweeps, dlq, givenUp>>

\* The next message of the batch, in order.
NextMessage(b) == <<b, Cardinality(published \cap MessagesOf(b)) + 1>>

\* The stream takes a message.
Accept(m) ==
  /\ published' = published \cup {m}
  /\ stream' = stream \cup {m}
  /\ ready' = ready \cup {m}

\* The next message is published; an error ends the batch there, whether or
\* not the stream took the message.
Publish(b) ==
  LET m == NextMessage(b)
  IN /\ phase[b] = "sending"
     /\ m \in Messages
     /\ \/ Accept(m) /\ Succeeds /\ UNCHANGED phase
        \/ /\ Accept(m) \/ UNCHANGED <<published, stream, ready>>
           /\ Fails
           /\ phase' = [phase EXCEPT ![b] = "failed"]
     /\ UNCHANGED <<tracked, deliveries, aged, bucketVars, hand, applied, sweeps, dlq, givenUp>>

---------------------------------------------------------------------------
(***************************************************************************)
(* The stream.                                                             *)
(***************************************************************************)

\* What a replica starts with: a message it cannot decode is dead-lettered.
Received(m, attempt) ==
  [msg |-> m, attempt |-> attempt, todo |-> {},
   step |-> IF m \in Malformed THEN "deadLetter" ELSE "handle"]

\* An idle replica gets a waiting message with deliveries left.
Deliver(r, m) ==
  /\ r \notin DOMAIN hand
  /\ m \in ready
  /\ deliveries[m] < MaxDeliver
  /\ ready' = ready \ {m}
  /\ deliveries' = [deliveries EXCEPT ![m] = @ + 1]
  /\ hand' = [x \in DOMAIN hand \cup {r} |->
                IF x = r THEN Received(m, deliveries[m] + 1) ELSE hand[x]]
  /\ UNCHANGED <<publisherVars, stream, aged, bucketVars, applied, sweeps, dlq, givenUp, faults>>

Held(m) == \E r \in DOMAIN hand : hand[r].msg = m

\* No acknowledgement came within ackWait.  While a replica works on the
\* message it asks for more time, so that takes a fault of its own.
AckTimeout(m) ==
  /\ m \in stream \ ready
  /\ IF Held(m) THEN Fails ELSE Succeeds
  /\ ready' = ready \cup {m}
  /\ UNCHANGED <<publisherVars, stream, deliveries, aged, bucketVars, hand, applied, sweeps,
                 dlq, givenUp>>

\* The message reaches the stream's maximal age.
Expire(m) ==
  /\ m \in stream
  /\ Fails
  /\ stream' = stream \ {m}
  /\ ready' = ready \ {m}
  /\ aged' = aged \cup {m}
  /\ UNCHANGED <<publisherVars, deliveries, bucketVars, hand, applied, sweeps, dlq, givenUp>>

---------------------------------------------------------------------------
(***************************************************************************)
(* Handling a message.                                                     *)
(***************************************************************************)

\* The replica is about to take this step.
At(r, s) == r \in DOMAIN hand /\ hand[r].step = s

\* The replica goes on to another step, or is done with the message.
Goto(r, s) == hand' = [hand EXCEPT ![r].step = s]
Drop(r) == hand' = Restrict(hand, DOMAIN hand \ {r})

\* What follows a step of a message whose handler succeeded: the snapshot is
\* recorded before the mark, so that a complete batch has all its records,
\* and the sweep comes after the acknowledgement, so that a long one is never
\* taken for a lost message.
Then(s) ==
  CASE s = "handle" -> "record" [] s = "record" -> "mark"
    [] s = "mark"   -> "ack"    [] s = "ack"    -> "check"

\* The event reached the graph.
Handle(r) ==
  /\ At(r, "handle")
  /\ applied' = applied \cup {hand[r].msg}
  /\ Goto(r, Then("handle"))
  /\ UNCHANGED <<publisherVars, streamVars, bucketVars, sweeps, dlq, givenUp, faults>>

\* Fault: a failing message is handed back once too often.
GivesUpLate(attempt) == attempt > MaxDeliver

\* The deliveries of the message are used up.
GivesUp(attempt) == attempt >= MaxDeliver

\* The handler reports an error; the write may have been committed.  The
\* message is given up or handed back, which only its latest delivery can do.
HandleFails(r) ==
  LET m == hand[r].msg
      n == hand[r].attempt
  IN /\ At(r, "handle")
     /\ applied' \in {applied, applied \cup {m}}
     /\ IF GivesUp(n)
        THEN Goto(r, "deadLetter") /\ UNCHANGED ready
        ELSE /\ Drop(r)
             /\ ready' = ready \cup {x \in stream \cap {m} : deliveries[m] = n}
     /\ UNCHANGED <<publisherVars, stream, deliveries, aged, bucketVars, sweeps, dlq, givenUp,
                    faults>>

\* Best effort: a failure never keeps the message from being terminated.
DeadLetter(r) ==
  /\ At(r, "deadLetter")
  /\ \/ dlq' = dlq \cup {hand[r].msg} /\ Succeeds
     \/ dlq' = dlq /\ Fails
  /\ Goto(r, "term")
  /\ UNCHANGED <<publisherVars, streamVars, bucketVars, applied, sweeps, givenUp>>

Term(r) ==
  LET m == hand[r].msg
  IN /\ At(r, "term")
     /\ stream' = stream \ {m}
     /\ ready' = ready \ {m}
     /\ givenUp' = givenUp \cup {m}
     /\ Drop(r)
     /\ UNCHANGED <<publisherVars, deliveries, aged, bucketVars, applied, sweeps, dlq, faults>>

\* Before it is marked, a complete snapshot is recorded.
RecordSnapshot(r) ==
  LET m == hand[r].msg
  IN /\ At(r, "record")
     /\ IF BatchOf(m) \in tracked /\ ScopeOf[m] # NoScope
        THEN \/ /\ records' = records \cup {<<BatchOf(m), ScopeOf[m]>>}
                /\ UNCHANGED lostRecords
                /\ Succeeds
             \/ /\ lostRecords' = lostRecords \cup {m}
                /\ UNCHANGED records
                /\ Fails
        ELSE UNCHANGED <<records, lostRecords, faults>>
     /\ Goto(r, Then("record"))
     /\ UNCHANGED <<publisherVars, streamVars, marks, claimed, applied, sweeps, dlq, givenUp>>

\* Fault: each delivery of a message is a key.
KeyPerDelivery(m, attempt) == IF attempt = 1 THEN m ELSE <<m, attempt>>

\* One key per message: a redelivery rewrites it.
AppliedKey(m, attempt) == m

\* Best effort: a mark that fails leaves the batch incomplete.
MarkApplied(r) ==
  LET m == hand[r].msg
      b == BatchOf(m)
  IN /\ At(r, "mark")
     /\ IF b \in tracked
        THEN \/ /\ marks' = [marks EXCEPT ![b] = @ \cup {AppliedKey(m, hand[r].attempt)}]
                /\ Succeeds
             \/ marks' = marks /\ Fails
        ELSE UNCHANGED <<marks, faults>>
     /\ Goto(r, Then("mark"))
     /\ UNCHANGED <<publisherVars, streamVars, records, lostRecords, claimed, applied, sweeps,
                    dlq, givenUp>>

\* The acknowledgement is sent and not waited for: it may be lost.
Ack(r) ==
  LET m == hand[r].msg
  IN /\ At(r, "ack")
     /\ \/ stream' = stream \ {m} /\ ready' = ready \ {m} /\ Succeeds
        \/ UNCHANGED <<stream, ready>> /\ Fails
     /\ Goto(r, Then("ack"))
     /\ UNCHANGED <<publisherVars, deliveries, aged, bucketVars, applied, sweeps, dlq, givenUp>>

---------------------------------------------------------------------------
(***************************************************************************)
(* Applying what a complete snapshot omits.                                *)
(***************************************************************************)

\* Every message of the batch is marked.
BatchComplete(b) == b \in tracked /\ Cardinality(marks[b]) >= Size[b]

\* Fault: only the messages of the snapshot's own event look for a sweep.
DueOnOwnMessage(m) == ScopeOf[m] # NoScope

\* Every message of a batch that carries a snapshot may be its last.
SweepDue(m) == SnapshotBatch(BatchOf(m))

\* Is the batch complete?  If the bucket cannot tell, it is kept as it is.
CheckComplete(r) ==
  LET m == hand[r].msg
  IN /\ At(r, "check")
     /\ \/ /\ IF SweepDue(m) /\ BatchComplete(BatchOf(m))
              THEN Goto(r, "claim") ELSE Drop(r)
           /\ Succeeds
        \/ Drop(r) /\ Fails
     /\ UNCHANGED <<publisherVars, streamVars, bucketVars, applied, sweeps, dlq, givenUp>>

\* Fault: the key is put, not created.
ClaimAlways(b) == TRUE

\* Creating the key succeeds for one replica.
Claims(b) == b \notin claimed

\* The complete snapshots of the batch that a sweep of it finds.
RecordsOf(b) == {s \in Scopes : <<b, s>> \in records}

\* The first replica to create the batch's key sweeps it.  A call that fails
\* may have created the key.
Claim(r) ==
  LET b == BatchOf(hand[r].msg)
  IN /\ At(r, "claim")
     /\ \/ /\ Claims(b) /\ RecordsOf(b) # {}
           /\ claimed' = claimed \cup {b}
           /\ hand' = [hand EXCEPT ![r].step = "sweep", ![r].todo = RecordsOf(b)]
           /\ Succeeds
        \/ /\ ~Claims(b) \/ RecordsOf(b) = {}
           /\ claimed' = claimed \cup {b}
           /\ Drop(r)
           /\ Succeeds
        \/ /\ claimed' \in {claimed, claimed \cup {b}}
           /\ Drop(r)
           /\ Fails
     /\ UNCHANGED <<publisherVars, streamVars, marks, records, lostRecords, applied, sweeps,
                    dlq, givenUp>>

\* The omissions of one recorded snapshot are applied; one that fails is
\* left to the next snapshot of its scope.
SweepScope(r, s) ==
  LET b    == BatchOf(hand[r].msg)
      todo == hand[r].todo \ {s}
  IN /\ At(r, "sweep")
     /\ s \in hand[r].todo
     /\ \/ sweeps' = [sweeps EXCEPT ![<<b, s>>] = @ + 1] /\ Succeeds
        \/ sweeps' = sweeps /\ Fails
     /\ IF todo = {} THEN Drop(r) ELSE hand' = [hand EXCEPT ![r].todo = todo]
     /\ UNCHANGED <<publisherVars, streamVars, bucketVars, applied, dlq, givenUp>>

\* A replica dies: what it was doing is left where it was.
Crash(r) ==
  /\ r \in DOMAIN hand
  /\ Fails
  /\ Drop(r)
  /\ UNCHANGED <<publisherVars, streamVars, bucketVars, applied, sweeps, dlq, givenUp>>

---------------------------------------------------------------------------
\* A replica goes on with the message it holds.
Work(r) ==
  \/ Handle(r)
  \/ HandleFails(r)
  \/ DeadLetter(r)
  \/ Term(r)
  \/ RecordSnapshot(r)
  \/ MarkApplied(r)
  \/ Ack(r)
  \/ CheckComplete(r)
  \/ Claim(r)
  \/ \E s \in Scopes : SweepScope(r, s)

Next ==
  \/ \E b \in Batches : StartBatch(b) \/ Publish(b)
  \/ \E r \in Replicas, m \in Messages : Deliver(r, m)
  \/ \E m \in Messages : AckTimeout(m) \/ Expire(m)
  \/ \E r \in Replicas : Work(r) \/ Crash(r)

Spec == Init /\ [][Next]_brokerVars

\* The consumer's goroutine runs on, JetStream hands out what waits, and an
\* acknowledgement nobody will send times out.
Fairness ==
  /\ \A r \in Replicas : WF_brokerVars(Work(r))
  /\ \A m \in Messages : WF_brokerVars(\E r \in Replicas : Deliver(r, m))
  /\ \A m \in Messages : WF_brokerVars(AckTimeout(m) /\ ~Held(m))

LiveSpec == Spec /\ Fairness

---------------------------------------------------------------------------
(***************************************************************************)
(* Properties.                                                             *)
(***************************************************************************)

\* Every variable of the bus has its type.
TypeOK ==
  /\ phase \in [Batches -> {"new", "sending", "failed"}]
  /\ published \subseteq Messages
  /\ tracked \subseteq Batches
  /\ stream \subseteq published
  /\ ready \subseteq stream
  /\ deliveries \in [Messages -> 0..MaxDeliver]
  /\ DOMAIN hand \subseteq Replicas
  /\ hand \in [DOMAIN hand -> Delivery]
  /\ applied \subseteq published
  /\ marks \in [Batches -> SUBSET Messages]
  /\ records \subseteq Batches \X Scopes
  /\ lostRecords \subseteq published
  /\ claimed \subseteq tracked
  /\ sweeps \in [Batches \X Scopes -> Nat]
  /\ dlq \subseteq published
  /\ givenUp \subseteq published
  /\ aged \subseteq published
  /\ faults \in 0..MaxFaults

\* The gate's answer is honest: when the marks add up to the batch's total,
\* each of its messages has reached the graph, however often any of them was
\* delivered and whichever replica handled it.
CompleteMeansApplied ==
  \A b \in Batches : BatchComplete(b) => MessagesOf(b) \subseteq applied

\* What a snapshot omits is retracted only once all of it is in the graph: a
\* sweep of a batch that is still arriving, or of one with a message given
\* up unapplied, would remove what the batch lists.
SweepsFollowApplication ==
  \A b \in Batches, s \in Scopes :
    sweeps[<<b, s>>] > 0 => MessagesOf(b) \subseteq applied

\* One sweep per batch and scope: a message redelivered after the batch was
\* complete finds it complete again, on this replica or another.
SweptOnce == \A x \in DOMAIN sweeps : sweeps[x] <= 1

\* A batch that counts as complete has all its snapshot records, but those
\* the bucket refused: the replica that finds it complete, which need not be
\* the one that read the snapshot, sweeps every scope of it.
CompleteMeansRecorded ==
  \A b \in Batches : \A m \in MessagesOf(b) :
    BatchComplete(b) /\ ScopeOf[m] # NoScope
      => <<b, ScopeOf[m]>> \in records \/ m \in lostRecords

\* A message leaves the stream in three ways only: its event is in the graph,
\* or it was terminated after its dead-lettering, or the stream's maximal age
\* passed.
NoSilentLoss == published \ stream \subseteq applied \cup givenUp \cup aged

\* A message that can be decoded is given up only when its deliveries are
\* used up, however the deliveries were lost.
GivenUpAtTheCap ==
  \A m \in givenUp \ Malformed : deliveries[m] = MaxDeliver

\* What is out of reach: no replica will get the message again, and it stays
\* in the stream until that drops it.
Exhausted(m) == m \in ready /\ deliveries[m] = MaxDeliver

\* What the bus promises the graph's writer: see BatchContract.
Contract == INSTANCE BatchContract

\* The replicas, for all their redeliveries, crashes and failed calls, keep
\* that promise: each step publishes, applies or retracts as it allows, or
\* does nothing the writer sees.
ImplementsContract == Contract!Spec

\* A message is never stuck: it reaches the graph, is dead-lettered, ages
\* out, or a fault made its last delivery come to nothing.
MessagesSettle ==
  \A m \in Messages :
    m \in stream ~> m \in applied \cup givenUp \cup aged \/ (Exhausted(m) /\ faults > 0)

\* A complete snapshot is applied: once its whole batch is in the graph, its
\* omissions are, unless a fault or a message given up after all costs the
\* batch its sweep.
SnapshotsAreApplied ==
  \A b \in Batches, s \in Scopes :
    (MessagesOf(b) \subseteq applied /\ \E m \in MessagesOf(b) : ScopeOf[m] = s)
      ~> (\/ sweeps[<<b, s>>] > 0
          \/ MessagesOf(b) \cap givenUp # {}
          \/ faults > 0)

\* An event that exhausts redelivery is retained: the dead-letter stream
\* "retains events that exhausted redelivery so an operator (or a future
\* replay tool) can inspect them instead of losing them silently".  The
\* replica dead-letters a message when its handler returns an error; one
\* whose last delivery ends without an answer is never looked at again.
ExhaustedAreRetained ==
  \A m \in Messages : Exhausted(m) => m \in applied \cup dlq

\* What the bus answers for, at any moment, whatever crashed or failed: a batch called
\* complete is applied and its omissions are on record, and no message leaves the stream
\* unexplained, nor with deliveries left (BatchStatus, markApplied, retryOrDeadLetter).
BusTellsTheTruth ==
  CompleteMeansApplied /\ CompleteMeansRecorded /\ NoSilentLoss /\ GivenUpAtTheCap
=============================================================================
