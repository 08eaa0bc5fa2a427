---------------------------- MODULE BrokerProofs ----------------------------
(***************************************************************************)
(* The event bus keeps its promises for every number of replicas, batches, *)
(* messages, deliveries and faults: a batch counts as complete, and its    *)
(* snapshot is swept, only when all of it is in the graph; a sweep runs at *)
(* most once; and no message is lost without a trace.                      *)
(***************************************************************************)
EXTENDS Broker, FiniteSetTheorems, TLAPS

\* The snapshot the message carries, if any, is recorded or known lost.
Recorded(m) ==
  ScopeOf[m] # NoScope
    => <<BatchOf(m), ScopeOf[m]>> \in records \/ m \in lostRecords

\* What BatchComplete counts, as sets.
AllMarked(b) == b \in tracked /\ marks[b] = MessagesOf(b)

\* What a replica has behind it at each step of handling a message.
HandOK(r) ==
  LET m == hand[r].msg
      s == hand[r].step
  IN /\ m \in published
     /\ hand[r].attempt <= deliveries[m]
     /\ s \in {"record", "mark", "ack", "check", "claim", "sweep"} => m \in applied
     /\ (s \in {"mark", "ack", "check", "claim", "sweep"} /\ BatchOf(m) \in tracked)
          => Recorded(m)
     /\ s \in {"claim", "sweep"} => AllMarked(BatchOf(m))
     /\ s = "sweep" =>
          /\ BatchOf(m) \in claimed
          /\ \A c \in hand[r].todo : sweeps[<<BatchOf(m), c>>] = 0
     /\ (s \in {"deadLetter", "term"} /\ m \notin Malformed)
          => deliveries[m] = MaxDeliver

Hands == \A r \in DOMAIN hand : HandOK(r)

\* No two replicas sweep the same batch.
OneSweeper ==
  \A r, x \in DOMAIN hand :
    /\ hand[r].step = "sweep"
    /\ hand[x].step = "sweep"
    /\ BatchOf(hand[r].msg) = BatchOf(hand[x].msg)
    => r = x

\* A mark stands for a message of its batch that is in the graph.
Marked ==
  \A b \in Batches :
    /\ marks[b] \subseteq MessagesOf(b)
    /\ marks[b] \subseteq applied
    /\ \A m \in marks[b] : Recorded(m)

\* A batch is claimed once it is complete, and swept once it is claimed.
Swept ==
  /\ \A b \in claimed : AllMarked(b)
  /\ \A b \in Batches, s \in Scopes :
       sweeps[<<b, s>>] = 0 \/ (sweeps[<<b, s>>] = 1 /\ b \in claimed)

\* A batch is tracked, if at all, before its first message.
TrackedFirst ==
  \A b \in Batches :
    phase[b] = "new" => b \notin tracked /\ \A m \in published : BatchOf(m) # b

IInv ==
  /\ TypeOK
  /\ Hands
  /\ OneSweeper
  /\ Marked
  /\ Swept
  /\ TrackedFirst
  /\ NoSilentLoss
  /\ GivenUpAtTheCap

---------------------------------------------------------------------------
(***************************************************************************)
(* Messages and marks.                                                     *)
(***************************************************************************)

\* A message belongs to one batch, the one it names.
LEMMA MessageBatch ==
  /\ \A m \in Messages : BatchOf(m) \in Batches /\ m \in MessagesOf(BatchOf(m))
  /\ \A b \in Batches : \A m \in MessagesOf(b) : m \in Messages /\ BatchOf(m) = b
  BY DEF Messages, MessagesOf, BatchOf

\* A batch has as many messages as its size says.
LEMMA BatchSize ==
  ASSUME NEW b \in Batches
  PROVE  IsFiniteSet(MessagesOf(b)) /\ Cardinality(MessagesOf(b)) = Size[b]
<1>1. Size[b] \in Nat /\ Size[b] >= 1
  BY BrokerAssumption
<1>2. IsFiniteSet(1..Size[b]) /\ Cardinality(1..Size[b]) = Size[b]
  BY <1>1, FS_Interval
<1>3. IsFiniteSet({b}) /\ Cardinality({b}) = 1
  BY FS_Singleton
<1>4. /\ IsFiniteSet({b} \X (1..Size[b]))
      /\ Cardinality({b} \X (1..Size[b])) = 1 * Size[b]
  BY <1>2, <1>3, FS_Product, ZenonT(60)
<1>5. QED
  BY <1>1, <1>4 DEF MessagesOf

\* Counting marks is enough: as many of them as the batch has messages are
\* all of them.
LEMMA CountIsAll ==
  ASSUME NEW b \in Batches, marks[b] \subseteq MessagesOf(b)
  PROVE  BatchComplete(b) <=> AllMarked(b)
<1>1. /\ Cardinality(marks[b]) <= Size[b]
      /\ Size[b] = Cardinality(marks[b]) => MessagesOf(b) = marks[b]
  BY BatchSize, FS_Subset
<1>2. IsFiniteSet(marks[b])
  BY BatchSize, FS_Subset
<1>3. Cardinality(marks[b]) \in Nat /\ Size[b] \in Nat
  BY <1>2, FS_CardinalityType, BrokerAssumption
<1>4. QED
  BY <1>1, <1>3, BatchSize DEF BatchComplete, AllMarked

\* What never shrinks.
Grows ==
  /\ published \subseteq published'
  /\ applied \subseteq applied'
  /\ tracked \subseteq tracked'
  /\ claimed \subseteq claimed'
  /\ records \subseteq records'
  /\ lostRecords \subseteq lostRecords'
  /\ \A b \in Batches : marks[b] \subseteq marks'[b] /\ marks'[b] \subseteq MessagesOf(b)
  /\ \A m \in Messages : deliveries[m] <= deliveries'[m]

\* A step that does not touch a replica leaves what it has behind it.
LEMMA HandStays ==
  ASSUME TypeOK, TypeOK', Grows,
         NEW r \in DOMAIN hand, HandOK(r), hand'[r] = hand[r],
         BatchOf(hand[r].msg) \in tracked' => BatchOf(hand[r].msg) \in tracked,
         hand[r].step = "sweep" =>
           \A c \in hand[r].todo :
             sweeps'[<<BatchOf(hand[r].msg), c>>] = sweeps[<<BatchOf(hand[r].msg), c>>]
  PROVE  HandOK(r)'
<1> DEFINE m == hand[r].msg
           s == hand[r].step
<1>1. m \in Messages /\ BatchOf(m) \in Batches
  BY MessageBatch DEF TypeOK, Delivery
<1>2. m \in published' /\ hand'[r].attempt <= deliveries'[m]
  <2>1. hand[r].attempt \in Nat /\ deliveries[m] \in Nat /\ deliveries'[m] \in Nat
    BY <1>1 DEF TypeOK, Delivery
  <2>2. QED
    BY <1>1, <2>1 DEF HandOK, Grows
<1>3. s \in {"record", "mark", "ack", "check", "claim", "sweep"} => m \in applied'
  BY DEF HandOK, Grows
<1>4. (s \in {"mark", "ack", "check", "claim", "sweep"} /\ BatchOf(m) \in tracked')
        => Recorded(m)'
  BY DEF HandOK, Grows, Recorded
<1>5. s \in {"claim", "sweep"} =>
        BatchOf(m) \in tracked' /\ marks'[BatchOf(m)] = MessagesOf(BatchOf(m))
  <2>1. s \in {"claim", "sweep"} =>
          BatchOf(m) \in tracked /\ marks[BatchOf(m)] = MessagesOf(BatchOf(m))
    BY DEF HandOK, AllMarked
  <2>2. /\ tracked \subseteq tracked'
        /\ marks[BatchOf(m)] \subseteq marks'[BatchOf(m)]
        /\ marks'[BatchOf(m)] \subseteq MessagesOf(BatchOf(m))
    BY <1>1 DEF Grows
  <2>3. QED
    BY <2>1, <2>2
<1>6. s = "sweep" =>
        /\ BatchOf(m) \in claimed'
        /\ \A c \in hand'[r].todo : sweeps'[<<BatchOf(m), c>>] = 0
  BY DEF HandOK, Grows
<1>7. (s \in {"deadLetter", "term"} /\ m \notin Malformed)
        => deliveries'[m] = MaxDeliver
  <2>1. deliveries[m] \in 0..MaxDeliver /\ deliveries'[m] \in 0..MaxDeliver
    BY <1>1 DEF TypeOK
  <2>2. QED
    BY <1>1, <2>1, BrokerAssumption DEF HandOK, Grows
<1>8. QED
  BY <1>2, <1>3, <1>4, <1>5, <1>6, <1>7 DEF HandOK, Recorded, AllMarked

\* A step that touches one replica at most keeps what the others have behind
\* them.
LEMMA HandsStep ==
  ASSUME IInv, TypeOK', Grows, NEW r, tracked' = tracked,
         \A x \in DOMAIN hand' \ {r} : x \in DOMAIN hand /\ hand'[x] = hand[x],
         \A x \in DOMAIN hand \ {r} :
           hand[x].step = "sweep" =>
             \A c \in hand[x].todo :
               sweeps'[<<BatchOf(hand[x].msg), c>>] = sweeps[<<BatchOf(hand[x].msg), c>>],
         r \in DOMAIN hand' => HandOK(r)'
  PROVE  Hands'
<1> SUFFICES ASSUME NEW x \in DOMAIN hand', x # r
             PROVE  HandOK(x)'
  BY DEF Hands
<1>1. x \in DOMAIN hand /\ hand'[x] = hand[x] /\ HandOK(x)
  BY DEF IInv, Hands
<1>2. QED
  BY <1>1, HandStays DEF IInv

\* A step after which the replica it touches sweeps only if it did before
\* lets no two replicas sweep one batch.
LEMMA SweeperStep ==
  ASSUME IInv, NEW r,
         \A x \in DOMAIN hand' \ {r} : x \in DOMAIN hand /\ hand'[x] = hand[x],
         (r \in DOMAIN hand' /\ hand'[r].step = "sweep")
           => r \in DOMAIN hand /\ hand[r].step = "sweep" /\ hand'[r].msg = hand[r].msg
  PROVE  OneSweeper'
  BY DEF IInv, OneSweeper, BatchOf

\* The marks and the sweeps stand if the bucket does.
LEMMA BucketFrame ==
  ASSUME IInv, UNCHANGED bucketVars, UNCHANGED <<tracked, sweeps>>, applied \subseteq applied'
  PROVE  Marked' /\ Swept'
  BY DEF IInv, Marked, Swept, Recorded, AllMarked, bucketVars

\* The publishers' invariant stands if they do nothing.
LEMMA PublisherFrame ==
  ASSUME IInv, UNCHANGED publisherVars
  PROVE  TrackedFirst'
  BY DEF IInv, TrackedFirst, publisherVars

\* Going on to a step changes nothing else of the delivery.
LEMMA GotoHand ==
  ASSUME TypeOK, NEW r \in DOMAIN hand, NEW s \in Steps, Goto(r, s)
  PROVE  /\ DOMAIN hand' = DOMAIN hand
         /\ hand' \in [DOMAIN hand' -> Delivery]
         /\ hand'[r].step = s
         /\ hand'[r].msg = hand[r].msg
         /\ hand'[r].attempt = hand[r].attempt
         /\ hand'[r].todo = hand[r].todo
         /\ \A x \in DOMAIN hand' \ {r} : x \in DOMAIN hand /\ hand'[x] = hand[x]
  BY DEF TypeOK, Goto, Delivery

\* Being done with a delivery frees the replica.
LEMMA DropHand ==
  ASSUME TypeOK, NEW r \in DOMAIN hand, Drop(r)
  PROVE  /\ DOMAIN hand' = DOMAIN hand \ {r}
         /\ hand' \in [DOMAIN hand' -> Delivery]
         /\ \A x \in DOMAIN hand' \ {r} : x \in DOMAIN hand /\ hand'[x] = hand[x]
  BY DEF TypeOK, Drop, Restrict

---------------------------------------------------------------------------
(***************************************************************************)
(* The publishers and the stream.                                          *)
(***************************************************************************)

\* Starting a batch keeps the invariant: it is tracked before it has a
\* message, so no replica has passed its records untracked.
LEMMA StartBatchPreserves ==
  ASSUME IInv, NEW b \in Batches, StartBatch(b)
  PROVE  IInv'
<1>1. /\ phase' = [phase EXCEPT ![b] = "sending"]
      /\ phase[b] = "new"
      /\ tracked' \in {tracked, tracked \cup {b}}
      /\ UNCHANGED <<published, streamVars, bucketVars, hand, applied, sweeps, dlq, givenUp>>
  BY DEF StartBatch
<1>2. TypeOK'
  <2>1. faults' \in 0..MaxFaults
    BY BrokerAssumption DEF IInv, TypeOK, StartBatch, Succeeds, Fails
  <2>2. QED
    BY <1>1, <2>1 DEF IInv, TypeOK, streamVars, bucketVars
<1>3. Grows
  BY <1>1 DEF IInv, TypeOK, Marked, Grows, streamVars, bucketVars
<1>4. Hands'
  <2> SUFFICES ASSUME NEW x \in DOMAIN hand'
               PROVE  HandOK(x)'
    BY DEF Hands
  <2>1. x \in DOMAIN hand /\ hand'[x] = hand[x] /\ HandOK(x) /\ hand[x].msg \in published
    BY <1>1 DEF IInv, Hands, HandOK
  <2>2. BatchOf(hand[x].msg) # b
    BY <1>1, <2>1 DEF IInv, TrackedFirst
  <2>3. QED
    BY <1>1, <1>2, <1>3, <2>1, <2>2, HandStays DEF IInv
<1>5. OneSweeper'
  BY <1>1 DEF IInv, OneSweeper
<1>6. Marked' /\ Swept'
  BY <1>1 DEF IInv, Marked, Swept, Recorded, AllMarked, bucketVars
<1>7. TrackedFirst'
  BY <1>1 DEF IInv, TypeOK, TrackedFirst
<1>8. NoSilentLoss' /\ GivenUpAtTheCap'
  BY <1>1 DEF IInv, NoSilentLoss, GivenUpAtTheCap, streamVars
<1>9. QED
  BY <1>2, <1>4, <1>5, <1>6, <1>7, <1>8 DEF IInv

\* Publishing keeps the invariant: the message is in the stream.
LEMMA PublishPreserves ==
  ASSUME IInv, NEW b \in Batches, Publish(b)
  PROVE  IInv'
<1> DEFINE m == NextMessage(b)
<1>1. /\ phase[b] = "sending"
      /\ m \in Messages
      /\ Accept(m) \/ UNCHANGED <<published, stream, ready>>
      /\ phase' \in {phase, [phase EXCEPT ![b] = "failed"]}
      /\ UNCHANGED <<tracked, deliveries, aged, bucketVars, hand, applied, sweeps, dlq, givenUp>>
  BY DEF Publish
<1>2. BatchOf(m) = b
  BY DEF NextMessage, BatchOf
<1> HIDE DEF m
<1>3. /\ published \subseteq published' /\ published' \subseteq published \cup {m}
      /\ stream' \subseteq published' /\ ready' \subseteq stream'
      /\ published' \ stream' \subseteq published \ stream
  BY <1>1 DEF Accept, IInv, TypeOK
<1>4. TypeOK'
  <2>1. faults' \in 0..MaxFaults
    BY BrokerAssumption DEF IInv, TypeOK, Publish, Succeeds, Fails
  <2>2. QED
    BY <1>1, <1>3, <2>1 DEF IInv, TypeOK, bucketVars
<1>5. Grows
  BY <1>1, <1>3 DEF IInv, TypeOK, Marked, Grows, bucketVars
<1>6. Hands'
  <2> SUFFICES ASSUME NEW x \in DOMAIN hand'
               PROVE  HandOK(x)'
    BY DEF Hands
  <2>1. x \in DOMAIN hand /\ hand'[x] = hand[x] /\ HandOK(x)
    BY <1>1 DEF IInv, Hands
  <2>2. QED
    BY <1>1, <1>4, <1>5, <2>1, HandStays DEF IInv
<1>7. OneSweeper'
  BY <1>1 DEF IInv, OneSweeper
<1>8. Marked' /\ Swept'
  BY <1>1, BucketFrame
<1>9. TrackedFirst'
  BY <1>1, <1>2, <1>3 DEF IInv, TypeOK, TrackedFirst
<1>10. NoSilentLoss' /\ GivenUpAtTheCap'
  BY <1>1, <1>3 DEF IInv, NoSilentLoss, GivenUpAtTheCap
<1>11. QED
  BY <1>4, <1>6, <1>7, <1>8, <1>9, <1>10 DEF IInv

\* Handing a message to a replica keeps the invariant: it has nothing behind
\* it yet, and a message already given up had no deliveries left.
LEMMA DeliverPreserves ==
  ASSUME IInv, NEW r \in Replicas, NEW m \in Messages, Deliver(r, m)
  PROVE  IInv'
<1>1. /\ r \notin DOMAIN hand
      /\ m \in ready
      /\ deliveries[m] < MaxDeliver
      /\ ready' = ready \ {m}
      /\ deliveries' = [deliveries EXCEPT ![m] = @ + 1]
      /\ DOMAIN hand' = DOMAIN hand \cup {r}
      /\ hand'[r] = Received(m, deliveries[m] + 1)
      /\ \A x \in DOMAIN hand : hand'[x] = hand[x]
      /\ hand' = [x \in DOMAIN hand' |-> hand'[x]]
      /\ UNCHANGED <<publisherVars, stream, aged, bucketVars, applied, sweeps, dlq, givenUp, faults>>
  BY DEF Deliver
<1>2. deliveries[m] \in Nat /\ deliveries[m] + 1 \in 0..MaxDeliver /\ deliveries'[m] = deliveries[m] + 1
  BY <1>1, BrokerAssumption DEF IInv, TypeOK
<1>3. Received(m, deliveries[m] + 1) \in Delivery
  BY <1>2 DEF Received, Delivery, Steps
<1>4. TypeOK'
  <2>1. hand' \in [DOMAIN hand' -> Delivery]
    BY <1>1, <1>3 DEF IInv, TypeOK
  <2>2. deliveries' \in [Messages -> 0..MaxDeliver]
    BY <1>1, <1>2 DEF IInv, TypeOK
  <2>3. QED
    BY <1>1, <2>1, <2>2 DEF IInv, TypeOK, publisherVars, bucketVars
<1>5. Grows
  BY <1>1, <1>2 DEF IInv, TypeOK, Marked, Grows, publisherVars, bucketVars
<1>6. HandOK(r)'
  BY <1>1, <1>2 DEF IInv, TypeOK, HandOK, Received, publisherVars
<1>7. Hands'
  BY <1>1, <1>4, <1>5, <1>6, HandsStep DEF publisherVars
<1>8. OneSweeper'
  BY <1>1, SweeperStep DEF Received
<1>9. Marked' /\ Swept'
  BY <1>1, BucketFrame DEF publisherVars
<1>10. TrackedFirst'
  BY <1>1, PublisherFrame
<1>11. NoSilentLoss' /\ GivenUpAtTheCap'
  BY <1>1 DEF IInv, TypeOK, NoSilentLoss, GivenUpAtTheCap, publisherVars
<1>12. QED
  BY <1>4, <1>7, <1>8, <1>9, <1>10, <1>11 DEF IInv

\* A message handed back for want of an acknowledgement is still there.
LEMMA AckTimeoutPreserves ==
  ASSUME IInv, NEW m \in Messages, AckTimeout(m)
  PROVE  IInv'
<1>1. /\ m \in stream
      /\ ready' = ready \cup {m}
      /\ UNCHANGED <<publisherVars, stream, deliveries, aged, bucketVars, hand, applied, sweeps,
                     dlq, givenUp>>
  BY DEF AckTimeout
<1>2. TypeOK'
  <2>1. faults' \in 0..MaxFaults
    BY BrokerAssumption DEF IInv, TypeOK, AckTimeout, Succeeds, Fails
  <2>2. QED
    BY <1>1, <2>1 DEF IInv, TypeOK, publisherVars, bucketVars
<1>3. Hands' /\ OneSweeper'
  BY <1>1 DEF IInv, Hands, OneSweeper, HandOK, Recorded, AllMarked, publisherVars, bucketVars
<1>4. Marked' /\ Swept' /\ TrackedFirst'
  BY <1>1, BucketFrame, PublisherFrame DEF publisherVars
<1>5. NoSilentLoss' /\ GivenUpAtTheCap'
  BY <1>1 DEF IInv, NoSilentLoss, GivenUpAtTheCap, publisherVars
<1>6. QED
  BY <1>2, <1>3, <1>4, <1>5 DEF IInv

\* A message the stream drops for its age is accounted for as such.
LEMMA ExpirePreserves ==
  ASSUME IInv, NEW m \in Messages, Expire(m)
  PROVE  IInv'
<1>1. /\ m \in stream
      /\ stream' = stream \ {m}
      /\ ready' = ready \ {m}
      /\ aged' = aged \cup {m}
      /\ UNCHANGED <<publisherVars, deliveries, bucketVars, hand, applied, sweeps, dlq, givenUp>>
  BY DEF Expire
<1>2. TypeOK'
  <2>1. faults' \in 0..MaxFaults
    BY BrokerAssumption DEF IInv, TypeOK, Expire, Fails
  <2>2. QED
    BY <1>1, <2>1 DEF IInv, TypeOK, publisherVars, bucketVars
<1>3. Hands' /\ OneSweeper'
  BY <1>1 DEF IInv, Hands, OneSweeper, HandOK, Recorded, AllMarked, publisherVars, bucketVars
<1>4. Marked' /\ Swept' /\ TrackedFirst'
  BY <1>1, BucketFrame, PublisherFrame DEF publisherVars
<1>5. NoSilentLoss' /\ GivenUpAtTheCap'
  BY <1>1 DEF IInv, NoSilentLoss, GivenUpAtTheCap, publisherVars
<1>6. QED
  BY <1>2, <1>3, <1>4, <1>5 DEF IInv

---------------------------------------------------------------------------
(***************************************************************************)
(* Handling a message.                                                     *)
(***************************************************************************)

\* A handled message is in the graph from then on.
LEMMA HandlePreserves ==
  ASSUME IInv, NEW r, Handle(r)
  PROVE  IInv'
<1> DEFINE m == hand[r].msg
<1>1. /\ r \in DOMAIN hand
      /\ hand[r].step = "handle"
      /\ applied' = applied \cup {m}
      /\ Goto(r, "record")
      /\ UNCHANGED <<publisherVars, streamVars, bucketVars, sweeps, dlq, givenUp, faults>>
  BY DEF Handle, At, Then
<1>2. /\ DOMAIN hand' = DOMAIN hand
      /\ hand' \in [DOMAIN hand' -> Delivery]
      /\ hand'[r].step = "record"
      /\ hand'[r].msg = m
      /\ hand'[r].attempt = hand[r].attempt
      /\ \A x \in DOMAIN hand' \ {r} : x \in DOMAIN hand /\ hand'[x] = hand[x]
  BY <1>1, GotoHand DEF IInv, Steps
<1>3. HandOK(r) /\ m \in published
  BY <1>1 DEF IInv, Hands, HandOK
<1>4. TypeOK'
  BY <1>1, <1>2, <1>3 DEF IInv, TypeOK, publisherVars, streamVars, bucketVars
<1>5. Grows
  BY <1>1 DEF IInv, TypeOK, Marked, Grows, publisherVars, streamVars, bucketVars
<1>6. HandOK(r)'
  BY <1>1, <1>2, <1>3 DEF HandOK, publisherVars, streamVars
<1>7. Hands'
  BY <1>1, <1>2, <1>4, <1>5, <1>6, HandsStep DEF publisherVars
<1>8. OneSweeper'
  BY <1>2, SweeperStep
<1>9. Marked' /\ Swept' /\ TrackedFirst'
  BY <1>1, BucketFrame, PublisherFrame DEF publisherVars
<1>10. NoSilentLoss' /\ GivenUpAtTheCap'
  BY <1>1 DEF IInv, NoSilentLoss, GivenUpAtTheCap, publisherVars, streamVars
<1>11. QED
  BY <1>4, <1>7, <1>8, <1>9, <1>10 DEF IInv

\* A message whose handler failed is given up at its last delivery only.
LEMMA HandleFailsPreserves ==
  ASSUME IInv, NEW r, HandleFails(r)
  PROVE  IInv'
<1> DEFINE m == hand[r].msg
           n == hand[r].attempt
<1>1. /\ r \in DOMAIN hand
      /\ hand[r].step = "handle"
      /\ applied' \in {applied, applied \cup {m}}
      /\ UNCHANGED <<publisherVars, stream, deliveries, aged, bucketVars, sweeps, dlq, givenUp,
                     faults>>
  BY DEF HandleFails, At
<1>2. HandOK(r) /\ m \in published /\ n <= deliveries[m]
  BY <1>1 DEF IInv, Hands, HandOK
<1>3. m \in Messages /\ n \in Nat /\ deliveries[m] \in 0..MaxDeliver
  BY <1>1, <1>2 DEF IInv, TypeOK, Delivery
<1>4. Grows
  BY <1>1, <1>3 DEF IInv, TypeOK, Marked, Grows, publisherVars, bucketVars
<1>5. /\ ready' \subseteq stream
      /\ DOMAIN hand' \subseteq DOMAIN hand
      /\ hand' \in [DOMAIN hand' -> Delivery]
      /\ \A x \in DOMAIN hand' \ {r} : x \in DOMAIN hand /\ hand'[x] = hand[x]
      /\ r \in DOMAIN hand' =>
           /\ GivesUp(n)
           /\ hand'[r].step = "deadLetter"
           /\ hand'[r].msg = m
           /\ hand'[r].attempt = n
  <2>1. CASE GivesUp(n)
    <3>1. Goto(r, "deadLetter") /\ ready' = ready
      BY <2>1 DEF HandleFails
    <3>2. QED
      BY <1>1, <2>1, <3>1, GotoHand DEF IInv, TypeOK, Steps
  <2>2. CASE ~GivesUp(n)
    <3>1. Drop(r) /\ ready' \subseteq ready \cup stream
      BY <2>2 DEF HandleFails
    <3>2. QED
      BY <1>1, <3>1, DropHand DEF IInv, TypeOK
  <2>3. QED
    BY <2>1, <2>2
<1>6. TypeOK'
  BY <1>1, <1>2, <1>5 DEF IInv, TypeOK, publisherVars, bucketVars
<1>7. r \in DOMAIN hand' => HandOK(r)'
  <2> SUFFICES ASSUME r \in DOMAIN hand'
               PROVE  HandOK(r)'
    OBVIOUS
  <2>1. deliveries'[m] = MaxDeliver
    BY <1>1, <1>2, <1>3, <1>5, BrokerAssumption DEF GivesUp
  <2>2. QED
    BY <1>1, <1>2, <1>5, <2>1 DEF HandOK, publisherVars
<1>8. Hands'
  BY <1>1, <1>4, <1>5, <1>6, <1>7, HandsStep DEF publisherVars
<1>9. OneSweeper'
  BY <1>5, SweeperStep
<1>10. Marked' /\ Swept' /\ TrackedFirst'
  BY <1>1, BucketFrame, PublisherFrame DEF publisherVars
<1>11. NoSilentLoss' /\ GivenUpAtTheCap'
  BY <1>1 DEF IInv, NoSilentLoss, GivenUpAtTheCap, publisherVars
<1>12. QED
  BY <1>6, <1>8, <1>9, <1>10, <1>11 DEF IInv

\* Dead-lettering changes only what the dead-letter stream holds.
LEMMA DeadLetterPreserves ==
  ASSUME IInv, NEW r, DeadLetter(r)
  PROVE  IInv'
<1> DEFINE m == hand[r].msg
<1>1. /\ r \in DOMAIN hand
      /\ hand[r].step = "deadLetter"
      /\ dlq' \in {dlq, dlq \cup {m}}
      /\ Goto(r, "term")
      /\ UNCHANGED <<publisherVars, streamVars, bucketVars, applied, sweeps, givenUp>>
  BY DEF DeadLetter, At
<1>2. /\ DOMAIN hand' = DOMAIN hand
      /\ hand' \in [DOMAIN hand' -> Delivery]
      /\ hand'[r].step = "term"
      /\ hand'[r].msg = m
      /\ hand'[r].attempt = hand[r].attempt
      /\ \A x \in DOMAIN hand' \ {r} : x \in DOMAIN hand /\ hand'[x] = hand[x]
  BY <1>1, GotoHand DEF IInv, Steps
<1>3. HandOK(r) /\ m \in published
  BY <1>1 DEF IInv, Hands, HandOK
<1>4. TypeOK'
  <2>1. faults' \in 0..MaxFaults
    BY BrokerAssumption DEF IInv, TypeOK, DeadLetter, Succeeds, Fails
  <2>2. QED
    BY <1>1, <1>2, <1>3, <2>1 DEF IInv, TypeOK, publisherVars, streamVars, bucketVars
<1>5. Grows
  BY <1>1 DEF IInv, TypeOK, Marked, Grows, publisherVars, streamVars, bucketVars
<1>6. HandOK(r)'
  BY <1>1, <1>2, <1>3 DEF HandOK, publisherVars, streamVars
<1>7. Hands'
  BY <1>1, <1>2, <1>4, <1>5, <1>6, HandsStep DEF publisherVars
<1>8. OneSweeper'
  BY <1>2, SweeperStep
<1>9. Marked' /\ Swept' /\ TrackedFirst'
  BY <1>1, BucketFrame, PublisherFrame DEF publisherVars
<1>10. NoSilentLoss' /\ GivenUpAtTheCap'
  BY <1>1 DEF IInv, NoSilentLoss, GivenUpAtTheCap, publisherVars, streamVars
<1>11. QED
  BY <1>4, <1>7, <1>8, <1>9, <1>10 DEF IInv

\* A terminated message is accounted for as given up.
LEMMA TermPreserves ==
  ASSUME IInv, NEW r, Term(r)
  PROVE  IInv'
<1> DEFINE m == hand[r].msg
<1>1. /\ r \in DOMAIN hand
      /\ hand[r].step = "term"
      /\ stream' = stream \ {m}
      /\ ready' = ready \ {m}
      /\ givenUp' = givenUp \cup {m}
      /\ Drop(r)
      /\ UNCHANGED <<publisherVars, deliveries, aged, bucketVars, applied, sweeps, dlq, faults>>
  BY DEF Term, At
<1>2. /\ DOMAIN hand' = DOMAIN hand \ {r}
      /\ hand' \in [DOMAIN hand' -> Delivery]
      /\ \A x \in DOMAIN hand' \ {r} : x \in DOMAIN hand /\ hand'[x] = hand[x]
  BY <1>1, DropHand DEF IInv
<1>3. m \in published /\ (m \notin Malformed => deliveries[m] = MaxDeliver)
  BY <1>1 DEF IInv, Hands, HandOK
<1>4. TypeOK'
  BY <1>1, <1>2, <1>3 DEF IInv, TypeOK, publisherVars, bucketVars
<1>5. Grows
  BY <1>1 DEF IInv, TypeOK, Marked, Grows, publisherVars, bucketVars
<1>6. Hands'
  BY <1>1, <1>2, <1>4, <1>5, HandsStep DEF publisherVars
<1>7. OneSweeper'
  BY <1>2, SweeperStep
<1>8. Marked' /\ Swept' /\ TrackedFirst'
  BY <1>1, BucketFrame, PublisherFrame DEF publisherVars
<1>9. NoSilentLoss' /\ GivenUpAtTheCap'
  BY <1>1, <1>3 DEF IInv, NoSilentLoss, GivenUpAtTheCap, publisherVars
<1>10. QED
  BY <1>4, <1>6, <1>7, <1>8, <1>9 DEF IInv

\* Before the mark, the snapshot of the message is recorded or known lost.
LEMMA RecordPreserves ==
  ASSUME IInv, NEW r, RecordSnapshot(r)
  PROVE  IInv'
<1> DEFINE m == hand[r].msg
<1>1. /\ r \in DOMAIN hand
      /\ hand[r].step = "record"
      /\ Goto(r, "mark")
      /\ UNCHANGED <<publisherVars, streamVars, marks, claimed, applied, sweeps, dlq, givenUp>>
  BY DEF RecordSnapshot, At, Then
<1>2. /\ DOMAIN hand' = DOMAIN hand
      /\ hand' \in [DOMAIN hand' -> Delivery]
      /\ hand'[r].step = "mark"
      /\ hand'[r].msg = m
      /\ hand'[r].attempt = hand[r].attempt
      /\ \A x \in DOMAIN hand' \ {r} : x \in DOMAIN hand /\ hand'[x] = hand[x]
  BY <1>1, GotoHand DEF IInv, Steps
<1>3. HandOK(r) /\ m \in published /\ m \in applied
  BY <1>1 DEF IInv, Hands, HandOK
<1>4. m \in Messages /\ BatchOf(m) \in Batches /\ ScopeOf[m] \in Scopes \cup {NoScope}
  BY <1>3, MessageBatch, BrokerAssumption DEF IInv, TypeOK
<1>5. /\ records \subseteq records' /\ lostRecords \subseteq lostRecords'
      /\ records' \subseteq Batches \X Scopes
      /\ lostRecords' \subseteq published
      /\ BatchOf(m) \in tracked => Recorded(m)'
  <2>1. CASE BatchOf(m) \in tracked /\ ScopeOf[m] # NoScope
    <3>1. \/ /\ records' = records \cup {<<BatchOf(m), ScopeOf[m]>>}
             /\ lostRecords' = lostRecords
          \/ /\ lostRecords' = lostRecords \cup {m}
             /\ records' = records
      BY <2>1 DEF RecordSnapshot
    <3>2. <<BatchOf(m), ScopeOf[m]>> \in records' \/ m \in lostRecords'
      BY <3>1
    <3>3. Recorded(m)'
      BY <1>2, <3>2 DEF Recorded
    <3>4. QED
      BY <1>3, <1>4, <2>1, <3>1, <3>3 DEF IInv, TypeOK
  <2>2. CASE ~(BatchOf(m) \in tracked /\ ScopeOf[m] # NoScope)
    <3>1. records' = records /\ lostRecords' = lostRecords
      BY <2>2 DEF RecordSnapshot
    <3>2. BatchOf(m) \in tracked => Recorded(m)'
      BY <1>2, <2>2 DEF Recorded
    <3>3. QED
      BY <3>1, <3>2 DEF IInv, TypeOK
  <2>3. QED
    BY <2>1, <2>2
<1>6. TypeOK'
  <2>1. faults' \in 0..MaxFaults
    BY BrokerAssumption DEF IInv, TypeOK, RecordSnapshot, Succeeds, Fails
  <2>2. QED
    BY <1>1, <1>2, <1>5, <2>1 DEF IInv, TypeOK, publisherVars, streamVars
<1>7. Grows
  BY <1>1, <1>5 DEF IInv, TypeOK, Marked, Grows, publisherVars, streamVars
<1>8. HandOK(r)'
  BY <1>1, <1>2, <1>3, <1>5 DEF HandOK, Recorded, publisherVars, streamVars
<1>9. Hands'
  BY <1>1, <1>2, <1>6, <1>7, <1>8, HandsStep DEF publisherVars
<1>10. OneSweeper'
  BY <1>2, SweeperStep
<1>11. Marked' /\ Swept'
  BY <1>1, <1>5 DEF IInv, Marked, Swept, Recorded, AllMarked, publisherVars
<1>12. TrackedFirst'
  BY <1>1, PublisherFrame
<1>13. NoSilentLoss' /\ GivenUpAtTheCap'
  BY <1>1 DEF IInv, NoSilentLoss, GivenUpAtTheCap, publisherVars, streamVars
<1>14. QED
  BY <1>6, <1>9, <1>10, <1>11, <1>12, <1>13 DEF IInv

\* A mark names a message that is in the graph and whose snapshot is
\* recorded; the batch it completes stays complete.
LEMMA MarkPreserves ==
  ASSUME IInv, NEW r, MarkApplied(r)
  PROVE  IInv'
<1> DEFINE m == hand[r].msg
           b == BatchOf(m)
<1>1. /\ r \in DOMAIN hand
      /\ hand[r].step = "mark"
      /\ Goto(r, "ack")
      /\ UNCHANGED <<publisherVars, streamVars, records, lostRecords, claimed, applied, sweeps,
                     dlq, givenUp>>
  BY DEF MarkApplied, At, Then
<1>2. /\ DOMAIN hand' = DOMAIN hand
      /\ hand' \in [DOMAIN hand' -> Delivery]
      /\ hand'[r].step = "ack"
      /\ hand'[r].msg = m
      /\ hand'[r].attempt = hand[r].attempt
      /\ \A x \in DOMAIN hand' \ {r} : x \in DOMAIN hand /\ hand'[x] = hand[x]
  BY <1>1, GotoHand DEF IInv, Steps
<1>3. /\ HandOK(r) /\ m \in published /\ m \in applied
      /\ b \in tracked => Recorded(m)
  BY <1>1 DEF IInv, Hands, HandOK
<1>4. m \in Messages /\ b \in Batches /\ m \in MessagesOf(b)
  BY <1>3, MessageBatch DEF IInv, TypeOK
<1>5. marks' = marks \/ (b \in tracked /\ marks' = [marks EXCEPT ![b] = @ \cup {m}])
  BY DEF MarkApplied, AppliedKey
<1>6. /\ marks' \in [Batches -> SUBSET Messages]
      /\ \A c \in Batches : marks[c] \subseteq marks'[c] /\ marks'[c] \subseteq MessagesOf(c)
      /\ \A c \in Batches : \A x \in marks'[c] : x \in applied /\ Recorded(x)
  BY <1>3, <1>4, <1>5 DEF IInv, TypeOK, Marked
<1>7. TypeOK'
  <2>1. faults' \in 0..MaxFaults
    BY BrokerAssumption DEF IInv, TypeOK, MarkApplied, Succeeds, Fails
  <2>2. QED
    BY <1>1, <1>2, <1>6, <2>1 DEF IInv, TypeOK, publisherVars, streamVars
<1>8. Grows
  BY <1>1, <1>6 DEF IInv, TypeOK, Grows, publisherVars, streamVars
<1>9. HandOK(r)'
  BY <1>1, <1>2, <1>3 DEF HandOK, Recorded, publisherVars, streamVars
<1>10. Hands'
  BY <1>1, <1>2, <1>7, <1>8, <1>9, HandsStep DEF publisherVars
<1>11. OneSweeper'
  BY <1>2, SweeperStep
<1>12. Marked'
  BY <1>1, <1>6 DEF Marked, Recorded
<1>13. Swept'
  <2>1. \A c \in claimed : c \in Batches /\ c \in tracked /\ marks[c] = MessagesOf(c)
    BY DEF IInv, TypeOK, Swept, AllMarked
  <2>2. \A c \in claimed' : c \in tracked' /\ marks'[c] = MessagesOf(c)
    BY <1>1, <1>6, <2>1 DEF publisherVars
  <2>3. QED
    BY <1>1, <2>2 DEF IInv, Swept, AllMarked
<1>14. TrackedFirst'
  BY <1>1, PublisherFrame
<1>15. NoSilentLoss' /\ GivenUpAtTheCap'
  BY <1>1 DEF IInv, NoSilentLoss, GivenUpAtTheCap, publisherVars, streamVars
<1>16. QED
  BY <1>7, <1>10, <1>11, <1>12, <1>13, <1>14, <1>15 DEF IInv

\* An acknowledged message is in the graph.
LEMMA AckPreserves ==
  ASSUME IInv, NEW r, Ack(r)
  PROVE  IInv'
<1> DEFINE m == hand[r].msg
<1>1. /\ r \in DOMAIN hand
      /\ hand[r].step = "ack"
      /\ stream' \in {stream, stream \ {m}}
      /\ ready' = ready \cap stream'
      /\ Goto(r, "check")
      /\ UNCHANGED <<publisherVars, deliveries, aged, bucketVars, applied, sweeps, dlq, givenUp>>
  BY DEF Ack, At, Then, IInv, TypeOK
<1>2. /\ DOMAIN hand' = DOMAIN hand
      /\ hand' \in [DOMAIN hand' -> Delivery]
      /\ hand'[r].step = "check"
      /\ hand'[r].msg = m
      /\ hand'[r].attempt = hand[r].attempt
      /\ \A x \in DOMAIN hand' \ {r} : x \in DOMAIN hand /\ hand'[x] = hand[x]
  BY <1>1, GotoHand DEF IInv, Steps
<1>3. HandOK(r) /\ m \in published /\ m \in applied
  BY <1>1 DEF IInv, Hands, HandOK
<1>4. TypeOK'
  <2>1. faults' \in 0..MaxFaults
    BY BrokerAssumption DEF IInv, TypeOK, Ack, Succeeds, Fails
  <2>2. QED
    BY <1>1, <1>2, <2>1 DEF IInv, TypeOK, publisherVars, bucketVars
<1>5. Grows
  BY <1>1 DEF IInv, TypeOK, Marked, Grows, publisherVars, bucketVars
<1>6. HandOK(r)'
  BY <1>1, <1>2, <1>3 DEF HandOK, Recorded, publisherVars, bucketVars
<1>7. Hands'
  BY <1>1, <1>2, <1>4, <1>5, <1>6, HandsStep DEF publisherVars
<1>8. OneSweeper'
  BY <1>2, SweeperStep
<1>9. Marked' /\ Swept' /\ TrackedFirst'
  BY <1>1, BucketFrame, PublisherFrame DEF publisherVars
<1>10. NoSilentLoss' /\ GivenUpAtTheCap'
  BY <1>1, <1>3 DEF IInv, NoSilentLoss, GivenUpAtTheCap, publisherVars
<1>11. QED
  BY <1>4, <1>7, <1>8, <1>9, <1>10 DEF IInv

---------------------------------------------------------------------------
(***************************************************************************)
(* The sweep.                                                              *)
(***************************************************************************)

\* A replica goes on to claim a batch only if all of it is marked.
LEMMA CheckPreserves ==
  ASSUME IInv, NEW r, CheckComplete(r)
  PROVE  IInv'
<1> DEFINE m == hand[r].msg
<1>1. /\ r \in DOMAIN hand
      /\ hand[r].step = "check"
      /\ UNCHANGED <<publisherVars, streamVars, bucketVars, applied, sweeps, dlq, givenUp>>
  BY DEF CheckComplete, At
<1>2. HandOK(r) /\ m \in published /\ m \in applied
  BY <1>1 DEF IInv, Hands, HandOK
<1>3. m \in Messages /\ BatchOf(m) \in Batches
  BY <1>2, MessageBatch DEF IInv, TypeOK
<1>4. /\ DOMAIN hand' \subseteq DOMAIN hand
      /\ hand' \in [DOMAIN hand' -> Delivery]
      /\ \A x \in DOMAIN hand' \ {r} : x \in DOMAIN hand /\ hand'[x] = hand[x]
      /\ r \in DOMAIN hand' =>
           /\ AllMarked(BatchOf(m))
           /\ hand'[r].step = "claim"
           /\ hand'[r].msg = m
           /\ hand'[r].attempt = hand[r].attempt
  <2>1. CASE Drop(r)
    BY <1>1, <2>1, DropHand DEF IInv
  <2>2. CASE ~Drop(r)
    <3>1. BatchComplete(BatchOf(m)) /\ Goto(r, "claim")
      BY <2>2 DEF CheckComplete
    <3>2. AllMarked(BatchOf(m))
      BY <1>3, <3>1, CountIsAll DEF IInv, Marked
    <3>3. QED
      BY <1>1, <3>1, <3>2, GotoHand DEF IInv, Steps
  <2>3. QED
    BY <2>1, <2>2
<1>5. TypeOK'
  <2>1. faults' \in 0..MaxFaults
    BY BrokerAssumption DEF IInv, TypeOK, CheckComplete, Succeeds, Fails
  <2>2. QED
    BY <1>1, <1>4, <2>1 DEF IInv, TypeOK, publisherVars, streamVars, bucketVars
<1>6. Grows
  BY <1>1 DEF IInv, TypeOK, Marked, Grows, publisherVars, streamVars, bucketVars
<1>7. r \in DOMAIN hand' => HandOK(r)'
  BY <1>1, <1>2, <1>4
     DEF HandOK, Recorded, AllMarked, publisherVars, streamVars, bucketVars
<1>8. Hands'
  BY <1>1, <1>4, <1>5, <1>6, <1>7, HandsStep DEF publisherVars
<1>9. OneSweeper'
  BY <1>4, SweeperStep
<1>10. Marked' /\ Swept' /\ TrackedFirst'
  BY <1>1, BucketFrame, PublisherFrame DEF publisherVars
<1>11. NoSilentLoss' /\ GivenUpAtTheCap'
  BY <1>1 DEF IInv, NoSilentLoss, GivenUpAtTheCap, publisherVars, streamVars
<1>12. QED
  BY <1>5, <1>8, <1>9, <1>10, <1>11 DEF IInv

\* The replica whose creation of the key succeeds finds a batch that nobody
\* claimed, so nobody sweeps it and nothing of it was swept.
LEMMA ClaimPreserves ==
  ASSUME IInv, NEW r, Claim(r)
  PROVE  IInv'
<1> DEFINE m == hand[r].msg
           b == BatchOf(m)
<1>1. /\ r \in DOMAIN hand
      /\ hand[r].step = "claim"
      /\ claimed' \in {claimed, claimed \cup {b}}
      /\ UNCHANGED <<publisherVars, streamVars, marks, records, lostRecords, applied, sweeps,
                     dlq, givenUp>>
  BY DEF Claim, At
<1>2. HandOK(r) /\ m \in published /\ m \in applied /\ AllMarked(b)
  BY <1>1 DEF IInv, Hands, HandOK
<1>3. m \in Messages /\ b \in Batches /\ b \in tracked
  BY <1>2, MessageBatch DEF IInv, TypeOK, AllMarked
<1>4. /\ DOMAIN hand' \subseteq DOMAIN hand
      /\ hand' \in [DOMAIN hand' -> Delivery]
      /\ \A x \in DOMAIN hand' \ {r} : x \in DOMAIN hand /\ hand'[x] = hand[x]
      /\ r \in DOMAIN hand' =>
           /\ b \notin claimed
           /\ b \in claimed'
           /\ hand'[r].step = "sweep"
           /\ hand'[r].msg = m
           /\ hand'[r].attempt = hand[r].attempt
           /\ hand'[r].todo \subseteq Scopes
  <2>1. CASE Drop(r)
    BY <1>1, <2>1, DropHand DEF IInv
  <2>2. CASE ~Drop(r)
    <3>1. /\ b \notin claimed
          /\ claimed' = claimed \cup {b}
          /\ hand' = [hand EXCEPT ![r].step = "sweep", ![r].todo = RecordsOf(b)]
      BY <2>2 DEF Claim, Claims
    <3>2. RecordsOf(b) \subseteq Scopes
      BY DEF RecordsOf
    <3>3. QED
      BY <1>1, <3>1, <3>2 DEF IInv, TypeOK, Delivery, Steps
  <2>3. QED
    BY <2>1, <2>2
<1>5. TypeOK'
  <2>1. faults' \in 0..MaxFaults
    BY BrokerAssumption DEF IInv, TypeOK, Claim, Succeeds, Fails
  <2>2. QED
    BY <1>1, <1>3, <1>4, <2>1 DEF IInv, TypeOK, publisherVars, streamVars
<1>6. Grows
  BY <1>1 DEF IInv, TypeOK, Marked, Grows, publisherVars, streamVars
<1>7. r \in DOMAIN hand' => HandOK(r)'
  <2> SUFFICES ASSUME r \in DOMAIN hand'
               PROVE  HandOK(r)'
    OBVIOUS
  <2>1. \A c \in Scopes : sweeps[<<b, c>>] = 0
    BY <1>3, <1>4 DEF IInv, Swept
  <2>2. \A c \in hand'[r].todo : sweeps'[<<b, c>>] = 0
    BY <1>1, <1>4, <2>1
  <2>3. QED
    BY <1>1, <1>2, <1>4, <2>2
       DEF HandOK, Recorded, AllMarked, publisherVars, streamVars
<1>8. Hands'
  BY <1>1, <1>4, <1>5, <1>6, <1>7, HandsStep DEF publisherVars
<1>9. OneSweeper'
  <2>1. \A x \in DOMAIN hand : hand[x].step = "sweep" => BatchOf(hand[x].msg) \in claimed
    BY DEF IInv, Hands, HandOK
  <2>2. QED
    BY <1>4, <2>1 DEF IInv, OneSweeper, BatchOf
<1>10. Marked'
  BY <1>1 DEF IInv, Marked, Recorded
<1>11. Swept'
  BY <1>1, <1>2 DEF IInv, Swept, AllMarked, publisherVars
<1>12. TrackedFirst'
  BY <1>1, PublisherFrame
<1>13. NoSilentLoss' /\ GivenUpAtTheCap'
  BY <1>1 DEF IInv, NoSilentLoss, GivenUpAtTheCap, publisherVars, streamVars
<1>14. QED
  BY <1>5, <1>8, <1>9, <1>10, <1>11, <1>12, <1>13 DEF IInv

\* The one sweeper of a batch goes through its scopes, each once.
LEMMA SweepScopePreserves ==
  ASSUME IInv, NEW r, NEW s \in Scopes, SweepScope(r, s)
  PROVE  IInv'
<1> DEFINE m == hand[r].msg
           b == BatchOf(m)
           todo == hand[r].todo \ {s}
<1>1. /\ r \in DOMAIN hand
      /\ hand[r].step = "sweep"
      /\ s \in hand[r].todo
      /\ sweeps' \in {sweeps, [sweeps EXCEPT ![<<b, s>>] = @ + 1]}
      /\ UNCHANGED <<publisherVars, streamVars, bucketVars, applied, dlq, givenUp>>
  BY DEF SweepScope, At
<1>2. /\ HandOK(r) /\ m \in published /\ m \in applied /\ AllMarked(b) /\ b \in claimed
      /\ \A c \in hand[r].todo : sweeps[<<b, c>>] = 0
  BY <1>1 DEF IInv, Hands, HandOK
<1>3. m \in Messages /\ b \in Batches
  BY <1>2, MessageBatch DEF IInv, TypeOK
<1>4. /\ DOMAIN hand' \subseteq DOMAIN hand
      /\ hand' \in [DOMAIN hand' -> Delivery]
      /\ \A x \in DOMAIN hand' \ {r} : x \in DOMAIN hand /\ hand'[x] = hand[x]
      /\ r \in DOMAIN hand' =>
           /\ hand'[r].step = "sweep"
           /\ hand'[r].msg = m
           /\ hand'[r].attempt = hand[r].attempt
           /\ hand'[r].todo = todo
  <2>1. CASE todo = {}
    BY <1>1, <2>1, DropHand, ZenonT(60) DEF SweepScope, IInv
  <2>2. CASE todo # {}
    <3>1. hand' = [hand EXCEPT ![r].todo = todo]
      BY <2>2 DEF SweepScope
    <3>2. QED
      BY <1>1, <3>1 DEF IInv, TypeOK, Delivery
  <2>3. QED
    BY <2>1, <2>2
<1>5. /\ sweeps' \in [Batches \X Scopes -> Nat]
      /\ sweeps'[<<b, s>>] \in {0, 1}
      /\ \A c \in Batches, t \in Scopes :
           <<c, t>> # <<b, s>> => sweeps'[<<c, t>>] = sweeps[<<c, t>>]
  BY <1>1, <1>2, <1>3 DEF IInv, TypeOK
<1>6. TypeOK'
  <2>1. faults' \in 0..MaxFaults
    BY BrokerAssumption DEF IInv, TypeOK, SweepScope, Succeeds, Fails
  <2>2. QED
    BY <1>1, <1>4, <1>5, <2>1 DEF IInv, TypeOK, publisherVars, streamVars, bucketVars
<1>7. Grows
  BY <1>1 DEF IInv, TypeOK, Marked, Grows, publisherVars, streamVars, bucketVars
<1>8. \A x \in DOMAIN hand \ {r} :
        hand[x].step = "sweep" =>
          \A c \in hand[x].todo :
            sweeps'[<<BatchOf(hand[x].msg), c>>] = sweeps[<<BatchOf(hand[x].msg), c>>]
  <2> SUFFICES ASSUME NEW x \in DOMAIN hand \ {r}, hand[x].step = "sweep",
                      NEW c \in hand[x].todo
               PROVE  sweeps'[<<BatchOf(hand[x].msg), c>>] = sweeps[<<BatchOf(hand[x].msg), c>>]
    OBVIOUS
  <2>1. BatchOf(hand[x].msg) # b
    BY <1>1 DEF IInv, OneSweeper
  <2>2. BatchOf(hand[x].msg) \in Batches /\ c \in Scopes
    BY MessageBatch DEF IInv, TypeOK, Delivery
  <2>3. QED
    BY <1>5, <2>1, <2>2
<1>9. r \in DOMAIN hand' => HandOK(r)'
  <2> SUFFICES ASSUME r \in DOMAIN hand'
               PROVE  HandOK(r)'
    OBVIOUS
  <2>1. \A c \in hand'[r].todo : sweeps'[<<b, c>>] = 0
    <3>1. hand[r].todo \subseteq Scopes
      BY <1>1 DEF IInv, TypeOK, Delivery
    <3>2. QED
      BY <1>2, <1>3, <1>4, <1>5, <3>1
  <2>2. QED
    BY <1>1, <1>2, <1>4, <2>1
       DEF HandOK, Recorded, AllMarked, publisherVars, streamVars, bucketVars
<1>10. Hands'
  BY <1>1, <1>4, <1>6, <1>7, <1>8, <1>9, HandsStep DEF publisherVars
<1>11. OneSweeper'
  BY <1>1, <1>4, SweeperStep
<1>12. Marked'
  BY <1>1 DEF IInv, Marked, Recorded, bucketVars
<1>13. Swept'
  <2>1. \A c \in claimed' : AllMarked(c)'
    BY <1>1 DEF IInv, Swept, AllMarked, publisherVars, bucketVars
  <2>2. \A c \in Batches, t \in Scopes :
          sweeps'[<<c, t>>] = 0 \/ (sweeps'[<<c, t>>] = 1 /\ c \in claimed')
    BY <1>1, <1>2, <1>5, ZenonT(60) DEF IInv, Swept, bucketVars
  <2>3. QED
    BY <2>1, <2>2 DEF Swept
<1>14. TrackedFirst'
  BY <1>1, PublisherFrame
<1>15. NoSilentLoss' /\ GivenUpAtTheCap'
  BY <1>1 DEF IInv, NoSilentLoss, GivenUpAtTheCap, publisherVars, streamVars
<1>16. QED
  BY <1>6, <1>10, <1>11, <1>12, <1>13, <1>14, <1>15 DEF IInv

\* A crash forgets what the replica was doing and nothing else.
LEMMA CrashPreserves ==
  ASSUME IInv, NEW r, Crash(r)
  PROVE  IInv'
<1>1. /\ r \in DOMAIN hand
      /\ Drop(r)
      /\ UNCHANGED <<publisherVars, streamVars, bucketVars, applied, sweeps, dlq, givenUp>>
  BY DEF Crash
<1>2. /\ DOMAIN hand' = DOMAIN hand \ {r}
      /\ hand' \in [DOMAIN hand' -> Delivery]
      /\ \A x \in DOMAIN hand' \ {r} : x \in DOMAIN hand /\ hand'[x] = hand[x]
  BY <1>1, DropHand DEF IInv
<1>3. TypeOK'
  <2>1. faults' \in 0..MaxFaults
    BY BrokerAssumption DEF IInv, TypeOK, Crash, Fails
  <2>2. QED
    BY <1>1, <1>2, <2>1 DEF IInv, TypeOK, publisherVars, streamVars, bucketVars
<1>4. Grows
  BY <1>1 DEF IInv, TypeOK, Marked, Grows, publisherVars, streamVars, bucketVars
<1>5. Hands'
  BY <1>1, <1>2, <1>3, <1>4, HandsStep DEF publisherVars
<1>6. OneSweeper'
  BY <1>2, SweeperStep
<1>7. Marked' /\ Swept' /\ TrackedFirst'
  BY <1>1, BucketFrame, PublisherFrame DEF publisherVars
<1>8. NoSilentLoss' /\ GivenUpAtTheCap'
  BY <1>1 DEF IInv, NoSilentLoss, GivenUpAtTheCap, publisherVars, streamVars
<1>9. QED
  BY <1>3, <1>5, <1>6, <1>7, <1>8 DEF IInv

---------------------------------------------------------------------------
(***************************************************************************)
(* The specification.                                                      *)
(***************************************************************************)

\* The invariant holds before anything is published.
LEMMA InitEstablishes == Init => IInv
<1> SUFFICES ASSUME Init
             PROVE  IInv
  OBVIOUS
<1>1. TypeOK
  BY BrokerAssumption DEF Init, TypeOK
<1>2. Hands /\ OneSweeper /\ Marked /\ Swept /\ TrackedFirst
  BY DEF Init, Hands, OneSweeper, Marked, Swept, TrackedFirst
<1>3. NoSilentLoss /\ GivenUpAtTheCap
  BY DEF Init, NoSilentLoss, GivenUpAtTheCap
<1>4. QED
  BY <1>1, <1>2, <1>3 DEF IInv

\* Every step of the bus, or none, keeps the invariant.
LEMMA StepPreserves == IInv /\ [Next]_brokerVars => IInv'
<1> SUFFICES ASSUME IInv, [Next]_brokerVars
             PROVE  IInv'
  OBVIOUS
<1>1. ASSUME NEW b \in Batches, StartBatch(b) \/ Publish(b)
      PROVE  IInv'
  BY <1>1, StartBatchPreserves, PublishPreserves
<1>2. ASSUME NEW r \in Replicas, NEW m \in Messages, Deliver(r, m)
      PROVE  IInv'
  BY <1>2, DeliverPreserves
<1>3. ASSUME NEW m \in Messages, AckTimeout(m) \/ Expire(m)
      PROVE  IInv'
  BY <1>3, AckTimeoutPreserves, ExpirePreserves
<1>4. ASSUME NEW r \in Replicas, Work(r)
      PROVE  IInv'
  BY <1>4, HandlePreserves, HandleFailsPreserves, DeadLetterPreserves, TermPreserves,
     RecordPreserves, MarkPreserves, AckPreserves, CheckPreserves, ClaimPreserves,
     SweepScopePreserves
     DEF Work
<1>5. ASSUME NEW r \in Replicas, Crash(r)
      PROVE  IInv'
  BY <1>5, CrashPreserves
<1>6. CASE UNCHANGED brokerVars
  BY <1>6 DEF brokerVars, publisherVars, streamVars, bucketVars, IInv, TypeOK, Hands, HandOK,
              OneSweeper, Marked, Swept, TrackedFirst, Recorded, AllMarked, NoSilentLoss,
              GivenUpAtTheCap
<1>7. QED
  BY <1>1, <1>2, <1>3, <1>4, <1>5, <1>6 DEF Next

\* The inductive invariant holds in every reachable state of the bus.
THEOREM BusInvariant == Spec => []IInv
  BY InitEstablishes, StepPreserves, PTL DEF Spec

\* The bus's variables keep their types under every interleaving.
THEOREM BusTypes == Spec => []TypeOK
<1>1. IInv => TypeOK
  BY DEF IInv
<1>2. QED
  BY <1>1, BusInvariant, PTL

\* When a batch's marks add up to its total, every message of it is in the
\* graph: the merge gate may trust the answer.
THEOREM TheGateIsToldTheTruth == Spec => []CompleteMeansApplied
<1>1. IInv => CompleteMeansApplied
  BY CountIsAll DEF IInv, Marked, CompleteMeansApplied, AllMarked
<1>2. QED
  BY <1>1, BusInvariant, PTL

\* No sweep of a batch precedes the application of any of its messages.
THEOREM SweepsAreLast == Spec => []SweepsFollowApplication
<1>1. IInv => SweepsFollowApplication
  <2> SUFFICES ASSUME IInv, NEW b \in Batches, NEW s \in Scopes, sweeps[<<b, s>>] > 0
               PROVE  MessagesOf(b) \subseteq applied
    BY DEF SweepsFollowApplication
  <2>1. b \in claimed
    BY DEF IInv, Swept
  <2>2. QED
    BY <2>1 DEF IInv, Swept, AllMarked, Marked
<1>2. QED
  BY <1>1, BusInvariant, PTL

\* However many replicas find the batch complete, and however often, each of
\* its scopes is swept once.
THEOREM OneSweepPerBatch == Spec => []SweptOnce
<1>1. IInv => SweptOnce
  <2> SUFFICES ASSUME IInv, NEW x \in DOMAIN sweeps
               PROVE  sweeps[x] <= 1
    BY DEF SweptOnce
  <2>1. PICK b \in Batches, s \in Scopes : x = <<b, s>>
    BY DEF IInv, TypeOK
  <2>2. sweeps[<<b, s>>] = 0 \/ sweeps[<<b, s>>] = 1
    BY DEF IInv, Swept
  <2>3. QED
    BY <2>1, <2>2
<1>2. QED
  BY <1>1, BusInvariant, PTL

\* The replica that finds a batch complete finds all its snapshots recorded,
\* but those whose recording failed.
THEOREM RecordsPrecedeMarks == Spec => []CompleteMeansRecorded
<1>1. IInv => CompleteMeansRecorded
  BY CountIsAll, MessageBatch
     DEF IInv, Marked, CompleteMeansRecorded, AllMarked, Recorded
<1>2. QED
  BY <1>1, BusInvariant, PTL

\* Every message that left the stream is in the graph, was given up, or aged
\* out.
THEOREM NothingIsLostSilently == Spec => []NoSilentLoss
<1>1. IInv => NoSilentLoss
  BY DEF IInv
<1>2. QED
  BY <1>1, BusInvariant, PTL

\* No message that can be decoded is given up with deliveries left.
THEOREM EveryDeliveryIsUsed == Spec => []GivenUpAtTheCap
<1>1. IInv => GivenUpAtTheCap
  BY DEF IInv
<1>2. QED
  BY <1>1, BusInvariant, PTL

\* What the bus answers for holds in every state (BatchStatus, markApplied,
\* retryOrDeadLetter).
THEOREM BusAlwaysTellsTheTruth == Spec => []BusTellsTheTruth
<1>1. CompleteMeansApplied /\ CompleteMeansRecorded /\ NoSilentLoss /\ GivenUpAtTheCap
        => BusTellsTheTruth
  BY DEF BusTellsTheTruth
<1>2. QED
  BY <1>1, TheGateIsToldTheTruth, RecordsPrecedeMarks, NothingIsLostSilently, EveryDeliveryIsUsed, PTL

---------------------------------------------------------------------------
(***************************************************************************)
(* The contract.                                                           *)
(***************************************************************************)

\* A step of the bus publishes, applies or retracts as the contract allows,
\* or changes nothing the contract speaks of.
LEMMA StepImplements ==
  IInv /\ [Next]_brokerVars => [Contract!Next]_(Contract!contractVars)
<1> SUFFICES ASSUME IInv, [Next]_brokerVars
             PROVE  Contract!Next \/ UNCHANGED Contract!contractVars
  OBVIOUS
<1> USE DEF Contract!contractVars
<1>1. ASSUME NEW b \in Batches, StartBatch(b)
      PROVE  UNCHANGED Contract!contractVars
  BY <1>1 DEF StartBatch
<1>2. ASSUME NEW b \in Batches, Publish(b)
      PROVE  Contract!Next \/ UNCHANGED Contract!contractVars
  <2>1. /\ NextMessage(b) \in Contract!Messages
        /\ published' \in {published, published \cup {NextMessage(b)}}
        /\ UNCHANGED <<applied, sweeps>>
    BY <1>2 DEF Publish, Accept, Messages, MessagesOf, Contract!Messages, Contract!MessagesOf
  <2>2. QED
    BY <2>1 DEF Contract!Next, Contract!Publish
<1>3. ASSUME NEW r \in Replicas, NEW m \in Messages, Deliver(r, m)
      PROVE  UNCHANGED Contract!contractVars
  BY <1>3 DEF Deliver, publisherVars
<1>4. ASSUME NEW m \in Messages, AckTimeout(m) \/ Expire(m)
      PROVE  UNCHANGED Contract!contractVars
  BY <1>4 DEF AckTimeout, Expire, publisherVars
<1>5. ASSUME NEW r \in Replicas, Handle(r) \/ HandleFails(r)
      PROVE  Contract!Next \/ UNCHANGED Contract!contractVars
  <2>1. /\ r \in DOMAIN hand
        /\ applied' \in {applied, applied \cup {hand[r].msg}}
        /\ UNCHANGED <<published, sweeps>>
    BY <1>5 DEF Handle, HandleFails, At, publisherVars
  <2>2. hand[r].msg \in published /\ hand[r].msg \in Contract!Messages
    BY <2>1 DEF IInv, Hands, HandOK, TypeOK, Messages, MessagesOf, Contract!Messages,
                Contract!MessagesOf
  <2>3. QED
    BY <2>1, <2>2 DEF Contract!Next, Contract!Apply
<1>6. ASSUME NEW r \in Replicas,
             \/ DeadLetter(r)
             \/ Term(r)
             \/ RecordSnapshot(r)
             \/ MarkApplied(r)
             \/ Ack(r)
             \/ CheckComplete(r)
             \/ Claim(r)
             \/ Crash(r)
      PROVE  UNCHANGED Contract!contractVars
  BY <1>6 DEF DeadLetter, Term, RecordSnapshot, MarkApplied, Ack, CheckComplete, Claim, Crash,
              publisherVars
<1>7. ASSUME NEW r \in Replicas, NEW s \in Scopes, SweepScope(r, s)
      PROVE  Contract!Next \/ UNCHANGED Contract!contractVars
  <2> DEFINE b == BatchOf(hand[r].msg)
  <2>1. /\ r \in DOMAIN hand
        /\ hand[r].step = "sweep"
        /\ s \in hand[r].todo
        /\ sweeps' \in {sweeps, [sweeps EXCEPT ![<<b, s>>] = @ + 1]}
        /\ UNCHANGED <<published, applied>>
    BY <1>7 DEF SweepScope, At, publisherVars
  <2>2. /\ AllMarked(b)
        /\ sweeps[<<b, s>>] = 0
        /\ hand[r].msg \in Messages
    BY <2>1 DEF IInv, Hands, HandOK, TypeOK
  <2>3. b \in Batches
    BY <2>2, MessageBatch
  <2>4. Contract!MessagesOf(b) \subseteq applied
    BY <2>2, <2>3 DEF IInv, Marked, AllMarked, MessagesOf, Contract!MessagesOf
  <2>5. sweeps' \in {sweeps, [sweeps EXCEPT ![<<b, s>>] = 1]}
    BY <2>1, <2>2
  <2>6. QED
    BY <2>1, <2>2, <2>3, <2>4, <2>5 DEF Contract!Next, Contract!Retract
<1>8. CASE UNCHANGED brokerVars
  BY <1>8 DEF brokerVars, publisherVars
<1>9. QED
  BY <1>1, <1>2, <1>3, <1>4, <1>5, <1>6, <1>7, <1>8 DEF Next, Work

\* The bus, with its replicas, redeliveries, crashes and failed calls, is an
\* implementation of the contract the graph's writer relies on.
THEOREM BusKeepsItsContract == Spec => ImplementsContract
<1>1. Init => Contract!Init
  BY DEF Init, Contract!Init
<1>2. QED
  BY <1>1, StepImplements, BusInvariant, PTL
     DEF Spec, ImplementsContract, Contract!Spec
=============================================================================
