------------------------- MODULE RegistersProofs -------------------------
(***************************************************************************)
(* Proofs about the four registers the engine keeps, each for any number of *)
(* replicas, requests and faults: the audit trail, the triage board, the   *)
(* history of the paths and the verdicts; and about what the replicas keep *)
(* of what they said, to the webhook and to the forge.                     *)
(***************************************************************************)
EXTENDS AuditLog, TriageBoard, PathHistory, VerdictLog, StatusReporter, Integers, FiniteSetTheorems,
        SequenceTheorems, TLAPS

---------------------------------------------------------------------------
(***************************************************************************)
(* The audit chain holds together for any number of replicas, any queue    *)
(* depth and any order of appends, failures and prunes, and verify-audit   *)
(* cries wolf over nothing but a prune between its two reads.              *)
(***************************************************************************)

\* The rows run without a gap from the checkpoint on: so the chain has one end.
Unbroken ==
  /\ checkpoint.seq \in Nat
  /\ \E n \in Nat : n >= checkpoint.seq /\ DOMAIN rows = (checkpoint.seq + 1)..n

\* A verification that no prune overtook starts where the chain does.
StartsRight ==
  verifier.step = "checkpoint" /\ ~verifier.overtaken => verifier.from = checkpoint

ChainInv == Unbroken /\ ChainHolds /\ StartsRight /\ AlarmsAreOvertaken

\* The end of an unbroken chain is its last row, or the checkpoint (append
\* reads one or the other).
LEMMA TailIsLast ==
  ASSUME checkpoint.seq \in Nat, NEW n \in Nat, n >= checkpoint.seq,
         DOMAIN rows = (checkpoint.seq + 1)..n,
         NEW tail \in ChainTail
  PROVE  /\ tail.seq = n
         /\ tail.hash = IF n = checkpoint.seq THEN checkpoint.hash ELSE rows[n].hash
<1>1. CASE n = checkpoint.seq
  <2>1. DOMAIN rows = {}
    BY <1>1
  <2>2. tail = checkpoint
    BY <2>1 DEF ChainTail
  <2> QED
    BY <1>1, <2>2
<1>2. CASE n > checkpoint.seq
  <2>1. n \in DOMAIN rows
    BY <1>2
  <2>2. PICK s \in DOMAIN rows : /\ \A u \in DOMAIN rows : u <= s
                                 /\ tail = [seq |-> s, hash |-> rows[s].hash]
    BY <2>1 DEF ChainTail
  <2>3. s = n
    BY <2>1, <2>2
  <2> QED
    BY <1>2, <2>2, <2>3
<1> QED
  BY <1>1, <1>2

\* A committed append leaves one chain (PGLog.append).
LEMMA AppendExtends ==
  ASSUME Unbroken, ChainHolds, NEW w, Committed(w), checkpoint' = checkpoint
  PROVE  Unbroken' /\ ChainHolds'
<1>1. PICK n \in Nat : n >= checkpoint.seq /\ DOMAIN rows = (checkpoint.seq + 1)..n
  BY DEF Unbroken
<1>2. PICK tail \in ChainTail :
        rows' = [s \in DOMAIN rows \cup {tail.seq + 1} |->
                   IF s = tail.seq + 1 THEN Chained(w, tail) ELSE rows[s]]
  BY DEF Committed
<1>3. checkpoint.seq \in Nat
  BY DEF Unbroken
<1>4. /\ tail.seq = n
      /\ tail.hash = IF n = checkpoint.seq THEN checkpoint.hash ELSE rows[n].hash
  BY <1>1, <1>3, TailIsLast
<1>5. DOMAIN rows' = (checkpoint.seq + 1)..(n + 1)
  BY <1>1, <1>2, <1>3, <1>4
<1>6. \A s \in DOMAIN rows : rows'[s] = rows[s]
  BY <1>1, <1>2, <1>3, <1>4
<1>7. rows'[n + 1] = Chained(w, tail)
  BY <1>2, <1>4
<1>8. rows'[n + 1].prev = tail.hash /\ rows'[n + 1].hash = HashRecord(n + 1, rows'[n + 1])
  BY <1>4, <1>7 DEF Chained, HashRecord
<1>9. Unbroken'
  BY <1>1, <1>3, <1>5 DEF Unbroken
<1>10. ChainHolds'
  <2> SUFFICES ASSUME NEW s \in DOMAIN rows'
               PROVE  /\ s > checkpoint.seq
                      /\ s # checkpoint.seq + 1 => s - 1 \in DOMAIN rows'
                      /\ rows'[s].prev = IF s = checkpoint.seq + 1 THEN checkpoint.hash
                                                                   ELSE rows'[s - 1].hash
                      /\ rows'[s].hash = HashRecord(s, rows'[s])
    BY DEF ChainHolds, Verifies
  <2>1. CASE s = n + 1
    <3>1. s # checkpoint.seq + 1 => n \in DOMAIN rows /\ s - 1 = n
      BY <1>1, <1>3, <2>1
    <3> QED
      BY <1>1, <1>3, <1>4, <1>5, <1>6, <1>8, <2>1, <3>1
  <2>2. CASE s # n + 1
    <3>1. s \in DOMAIN rows /\ s \in Int
      BY <1>1, <1>3, <1>5, <2>2
    <3>2. s # checkpoint.seq + 1 => s - 1 \in DOMAIN rows
      BY <3>1 DEF ChainHolds, Verifies
    <3> QED
      BY <1>1, <1>3, <1>5, <1>6, <3>1, <3>2 DEF ChainHolds, Verifies, HashRecord
  <2> QED
    BY <2>1, <2>2
<1> QED
  BY <1>9, <1>10

\* Retention leaves a chain that starts behind its checkpoint (PruneBefore).
LEMMA PruneShortens ==
  ASSUME Unbroken, ChainHolds, NEW r, NEW cutoff, PruneBefore(r, cutoff)
  PROVE  Unbroken' /\ ChainHolds'
<1>1. PICK n \in Nat : n >= checkpoint.seq /\ DOMAIN rows = (checkpoint.seq + 1)..n
  BY DEF Unbroken
<1>2. PICK through \in DOMAIN rows :
        /\ rows' = Survivors(through, cutoff)
        /\ checkpoint' = [seq |-> through, hash |-> rows[through].hash]
  BY DEF PruneBefore
<1>3. checkpoint.seq \in Nat /\ through \in Nat /\ through <= n
  BY <1>1 DEF Unbroken
<1>4. /\ checkpoint'.seq = through
      /\ checkpoint'.hash = rows[through].hash
  BY <1>2
<1>5. DOMAIN rows' = {s \in DOMAIN rows : s > through}
  BY <1>2 DEF Survivors, Restrict
<1>6. \A s \in DOMAIN rows' : rows'[s] = rows[s]
  BY <1>2 DEF Survivors, Restrict
<1>7. DOMAIN rows' = (through + 1)..n
  BY <1>1, <1>3, <1>5
<1>8. Unbroken'
  BY <1>3, <1>4, <1>7 DEF Unbroken
<1>9. ChainHolds'
  <2> SUFFICES ASSUME NEW s \in DOMAIN rows'
               PROVE  /\ s > through
                      /\ s # through + 1 => s - 1 \in DOMAIN rows'
                      /\ rows'[s].prev = IF s = through + 1 THEN rows[through].hash
                                                            ELSE rows'[s - 1].hash
                      /\ rows'[s].hash = HashRecord(s, rows'[s])
    BY <1>4 DEF ChainHolds, Verifies
  <2>1. s \in DOMAIN rows /\ s \in Int /\ s > through /\ s # checkpoint.seq + 1
    BY <1>1, <1>3, <1>7
  <2>2. rows[s].prev = rows[s - 1].hash /\ rows[s].hash = HashRecord(s, rows[s])
    BY <2>1 DEF ChainHolds, Verifies
  <2>3. s # through + 1 => s - 1 \in DOMAIN rows'
    BY <1>3, <1>7, <2>1
  <2>4. s = through + 1 => s - 1 = through
    BY <1>3
  <2> QED
    BY <1>6, <2>1, <2>2, <2>3, <2>4
<1> QED
  BY <1>8, <1>9

---------------------------------------------------------------------------
(***************************************************************************)
(* The invariant.                                                          *)
(***************************************************************************)

LEMMA ChainInvInit == AuditInit => ChainInv
<1> SUFFICES ASSUME AuditInit PROVE ChainInv
  OBVIOUS
<1>1. DOMAIN rows = {} /\ checkpoint.seq = 0 /\ verifier.step = "idle"
  BY DEF AuditInit, Genesis, Verification
<1>2. Unbroken
  <2>1. DOMAIN rows = (checkpoint.seq + 1)..0
    BY <1>1
  <2> QED
    BY <1>1, <2>1 DEF Unbroken
<1> QED
  BY <1>1, <1>2 DEF ChainInv, ChainHolds, Verifies, StartsRight, AlarmsAreOvertaken

\* A step that leaves the tables and the verifier alone keeps it.
LEMMA ChainInvFrame ==
  ASSUME ChainInv, UNCHANGED <<tableVars, verifier>>
  PROVE  ChainInv'
BY DEF ChainInv, Unbroken, ChainHolds, Verifies, StartsRight, AlarmsAreOvertaken, HashRecord, tableVars

LEMMA ChainInvStep == ChainInv /\ [AuditNext]_auditVars => ChainInv'
<1> SUFFICES ASSUME ChainInv, [AuditNext]_auditVars PROVE ChainInv'
  OBVIOUS
<1>1. CASE UNCHANGED auditVars
  BY <1>1, ChainInvFrame DEF auditVars
<1>2. ASSUME NEW r \in AuditReplicas, OpenPG(r) PROVE ChainInv'
  BY <1>2, ChainInvFrame DEF OpenPG
<1>3. ASSUME NEW r \in AuditReplicas, Record(r) PROVE ChainInv'
  BY <1>3, ChainInvFrame DEF Record
<1>4. ASSUME NEW r \in AuditReplicas, Take(r) PROVE ChainInv'
  BY <1>4, ChainInvFrame DEF Take
<1>5. ASSUME NEW r \in AuditReplicas, AppendRecord(r) PROVE ChainInv'
  <2>1. checkpoint' = checkpoint /\ verifier' = verifier
    BY <1>5 DEF AppendRecord
  <2>2. CASE UNCHANGED rows
    BY <2>1, <2>2, ChainInvFrame DEF tableVars
  <2>3. CASE Committed(writing[r][1])
    <3>1. Unbroken' /\ ChainHolds'
      BY <2>1, <2>3, AppendExtends DEF ChainInv
    <3> QED
      BY <2>1, <3>1 DEF ChainInv, StartsRight, AlarmsAreOvertaken
  <2> QED
    BY <1>5, <2>2, <2>3 DEF AppendRecord
<1>6. ASSUME NEW r \in AuditReplicas, Close(r) PROVE ChainInv'
  BY <1>6, ChainInvFrame DEF Close
<1>7. ASSUME NEW r \in AuditReplicas, EndWriter(r) PROVE ChainInv'
  BY <1>7, ChainInvFrame DEF EndWriter
<1>8. ASSUME NEW r \in AuditReplicas, Exit(r) PROVE ChainInv'
  BY <1>8, ChainInvFrame DEF Exit
<1>9. ASSUME NEW r \in AuditReplicas, CrashLog(r) PROVE ChainInv'
  BY <1>9, ChainInvFrame DEF CrashLog
<1>10. ASSUME NEW r \in AuditReplicas, NEW cutoff \in 1..auditClock, PruneBefore(r, cutoff)
       PROVE  ChainInv'
  <2>1. Unbroken' /\ ChainHolds'
    BY <1>10, PruneShortens DEF ChainInv
  <2>2. verifier' = IF verifier.step = "checkpoint"
                    THEN Verification("checkpoint", verifier.from, TRUE, TRUE)
                    ELSE verifier
    BY <1>10 DEF PruneBefore
  <2>3. StartsRight' /\ AlarmsAreOvertaken'
    BY <2>2 DEF ChainInv, StartsRight, AlarmsAreOvertaken, Verification
  <2> QED
    BY <2>1, <2>3 DEF ChainInv
<1>11. ASSUME ReadCheckpoint PROVE ChainInv'
  <2>1. /\ UNCHANGED <<rows, checkpoint>>
        /\ verifier' = Verification("checkpoint", checkpoint, TRUE, FALSE)
    BY <1>11 DEF ReadCheckpoint, tableVars
  <2> QED
    BY <2>1 DEF ChainInv, Unbroken, ChainHolds, Verifies, HashRecord, StartsRight,
                AlarmsAreOvertaken, Verification
<1>12. ASSUME WalkChain PROVE ChainInv'
  <2>1. /\ UNCHANGED <<rows, checkpoint>>
        /\ verifier.step = "checkpoint"
        /\ verifier' = Verification("done", Genesis, Verifies(verifier.from, rows), verifier.overtaken)
    BY <1>12 DEF WalkChain, tableVars
  <2>2. ~verifier.overtaken => Verifies(verifier.from, rows)
    BY <2>1 DEF ChainInv, StartsRight, ChainHolds
  <2>3. verifier'.step = "done" /\ verifier'.ok = Verifies(verifier.from, rows)
          /\ verifier'.overtaken = verifier.overtaken
    BY <2>1 DEF Verification
  <2>4. StartsRight' /\ AlarmsAreOvertaken'
    BY <2>2, <2>3 DEF StartsRight, AlarmsAreOvertaken
  <2>5. Unbroken' /\ ChainHolds'
    BY <2>1 DEF ChainInv, Unbroken, ChainHolds, Verifies, HashRecord
  <2> QED
    BY <2>4, <2>5 DEF ChainInv
<1>13. ASSUME AuditTick PROVE ChainInv'
  BY <1>13, ChainInvFrame DEF AuditTick
<1> QED
  BY <1>1, <1>2, <1>3, <1>4, <1>5, <1>6, <1>7, <1>8, <1>9, <1>10, <1>11, <1>12, <1>13 DEF AuditNext

LEMMA ChainInvAlways == AuditSpec => []ChainInv
BY ChainInvInit, ChainInvStep, PTL DEF AuditSpec

\* The audit chain never breaks, whoever appends and whatever fails or is
\* pruned (PGLog.append, PGLog.PruneBefore).
THEOREM ChainNeverBreaks == AuditSpec => []ChainHolds
<1>1. ChainInv => ChainHolds
  BY DEF ChainInv
<1> QED
  BY <1>1, ChainInvAlways, PTL

\* verify-audit raises an alarm over an untouched chain only when a prune
\* commits between its two reads (VerifyPG).
THEOREM AlarmsOnlyOverRetention == AuditSpec => []AlarmsAreOvertaken
<1>1. ChainInv => AlarmsAreOvertaken
  BY DEF ChainInv
<1> QED
  BY <1>1, ChainInvAlways, PTL

\* The chain holds and no alarm about it is false, in every state (PGLog.append, PruneBefore,
\* VerifyPG).
THEOREM TrailStaysTrustworthy == AuditSpec => []TrailIsTrustworthy
<1>1. ChainHolds /\ AlarmsAreOvertaken => TrailIsTrustworthy
  BY DEF TrailIsTrustworthy
<1> QED
  BY <1>1, ChainNeverBreaks, AlarmsOnlyOverRetention, PTL

---------------------------------------------------------------------------
(***************************************************************************)
(* Nothing vanishes.                                                       *)
(***************************************************************************)

Recs == [event : Nat, at : Nat]
Writes == {<< >>} \cup {<<w>> : w \in [of : Recs, tomb : BOOLEAN]}

\* What the replicas hold, and that a writer which has ended left nothing
\* behind but what came after Close.
HoldInv ==
  /\ auditClock \in Nat
  /\ recorded \in Nat
  /\ log \in [AuditReplicas -> {"down", "open", "closing", "ended"}]
  /\ queue \in [AuditReplicas -> Seq(Recs)]
  /\ writing \in [AuditReplicas -> Writes]
  /\ \A r \in AuditReplicas :
       log[r] = "ended" => /\ writing[r] = << >>
                           /\ \A i \in DOMAIN queue[r] : queue[r][i].event \in late

LEMMA HoldInvInit == AuditInit => HoldInv
BY DEF AuditInit, HoldInv, Writes

\* A call that queues keeps it (PGLog.Record).
LEMMA EnqueueKeeps ==
  ASSUME HoldInv, NEW r \in AuditReplicas, Enqueue(r), UNCHANGED <<auditClock, log, writing>>
  PROVE  HoldInv'
<1> DEFINE rec == [event |-> recorded + 1, at |-> auditClock]
<1>1. rec \in Recs /\ recorded' \in Nat
  BY DEF HoldInv, Enqueue, Recs
<1>2. CASE UNCHANGED <<queue, late>>
  BY <1>1, <1>2 DEF HoldInv
<1>3. CASE /\ queue' = [queue EXCEPT ![r] = Append(@, rec)]
           /\ late' = IF log[r] \in {"closing", "ended"} THEN late \cup {rec.event} ELSE late
  <2>1. queue' \in [AuditReplicas -> Seq(Recs)]
    BY <1>1, <1>3 DEF HoldInv
  <2>2. ASSUME NEW p \in AuditReplicas, log'[p] = "ended", NEW i \in DOMAIN queue'[p]
        PROVE  queue'[p][i].event \in late'
    <3>1. log[p] = "ended" /\ late \subseteq late'
      BY <1>3, <2>2
    <3>2. CASE p # r
      BY <1>3, <2>2, <3>1, <3>2 DEF HoldInv
    <3>3. CASE p = r
      <4>1. queue[r] \in Seq(Recs) /\ queue'[r] = Append(queue[r], rec)
        BY <1>3 DEF HoldInv
      <4>2. rec.event \in late'
        BY <1>3, <3>1, <3>3
      <4>3. CASE i = Len(queue[r]) + 1
        BY <1>1, <3>3, <4>1, <4>2, <4>3
      <4>4. CASE i # Len(queue[r]) + 1
        <5>1. i \in DOMAIN queue[r] /\ queue'[r][i] = queue[r][i]
          BY <1>1, <2>2, <3>3, <4>1, <4>4
        <5> QED
          BY <3>1, <3>3, <5>1 DEF HoldInv
      <4> QED
        BY <4>3, <4>4
    <3> QED
      BY <3>2, <3>3
  <2> QED
    BY <1>1, <2>1, <2>2 DEF HoldInv
<1> QED
  BY <1>2, <1>3 DEF Enqueue

\* A replica that goes down holds nothing.
LEMMA DownKeeps ==
  ASSUME HoldInv, NEW r \in AuditReplicas, Down(r), UNCHANGED <<auditClock, recorded, late>>
  PROVE  HoldInv'
<1>1. << >> \in Seq(Recs) /\ << >> \in Writes
  BY DEF Writes
<1> QED
  BY <1>1 DEF HoldInv, Down

LEMMA HoldInvStep == HoldInv /\ [AuditNext]_auditVars => HoldInv'
<1> SUFFICES ASSUME HoldInv, [AuditNext]_auditVars PROVE HoldInv'
  OBVIOUS
<1>1. CASE UNCHANGED auditVars
  BY <1>1 DEF HoldInv, auditVars, replicaVars, fateVars
<1>2. ASSUME NEW r \in AuditReplicas, OpenPG(r) PROVE HoldInv'
  BY <1>2 DEF HoldInv, OpenPG, fateVars
<1>3. ASSUME NEW r \in AuditReplicas, Record(r) PROVE HoldInv'
  BY <1>3, EnqueueKeeps DEF Record
<1>4. ASSUME NEW r \in AuditReplicas, Take(r) PROVE HoldInv'
  <2>1. queue[r] \in Seq(Recs) /\ queue[r] # << >>
    BY <1>4 DEF HoldInv, Take
  <2>2. Head(queue[r]) \in Recs /\ Tail(queue[r]) \in Seq(Recs)
    BY <2>1
  <2>3. <<[of |-> Head(queue[r]), tomb |-> FALSE]>> \in Writes
    BY <2>2 DEF Writes
  <2> QED
    BY <1>4, <2>2, <2>3 DEF HoldInv, Take, fateVars
<1>5. ASSUME NEW r \in AuditReplicas, AppendRecord(r) PROVE HoldInv'
  <2>1. PICK w \in [of : Recs, tomb : BOOLEAN] : writing[r] = <<w>>
    BY <1>5 DEF HoldInv, AppendRecord, Writes
  <2>2. <<[w EXCEPT !.tomb = TRUE]>> \in Writes /\ << >> \in Writes
    BY DEF Writes
  <2>3. writing[r][1] = w
    BY <2>1
  <2>4. \/ writing' = [writing EXCEPT ![r] = << >>]
        \/ writing' = [writing EXCEPT ![r] = <<[w EXCEPT !.tomb = TRUE]>>]
    BY <1>5, <2>3 DEF AppendRecord, AfterError
  <2>5. log[r] # "ended"
    BY <1>5 DEF HoldInv, AppendRecord
  <2>6. writing' \in [AuditReplicas -> Writes]
    BY <2>2, <2>4 DEF HoldInv
  <2>7. \A p \in AuditReplicas : log[p] = "ended" => writing'[p] = writing[p]
    BY <2>4, <2>5 DEF HoldInv
  <2>8. UNCHANGED <<auditClock, recorded, log, queue, late>>
    BY <1>5 DEF AppendRecord
  <2> QED
    BY <2>6, <2>7, <2>8 DEF HoldInv
<1>6. ASSUME NEW r \in AuditReplicas, Close(r) PROVE HoldInv'
  BY <1>6 DEF HoldInv, Close, fateVars
<1>7. ASSUME NEW r \in AuditReplicas, EndWriter(r) PROVE HoldInv'
  BY <1>7 DEF HoldInv, EndWriter, Drained, fateVars
<1>8. ASSUME NEW r \in AuditReplicas, Exit(r) PROVE HoldInv'
  BY <1>8, DownKeeps DEF Exit
<1>9. ASSUME NEW r \in AuditReplicas, CrashLog(r) PROVE HoldInv'
  BY <1>9, DownKeeps DEF CrashLog
<1>10. ASSUME NEW r \in AuditReplicas, NEW cutoff \in 1..auditClock, PruneBefore(r, cutoff)
       PROVE  HoldInv'
  <2>1. UNCHANGED <<auditClock, log, writing>>
    BY <1>10 DEF PruneBefore
  <2>2. CASE Enqueue(r)
    BY <2>1, <2>2, EnqueueKeeps
  <2>3. CASE UNCHANGED <<queue, fateVars>>
    BY <2>1, <2>3 DEF HoldInv, fateVars
  <2> QED
    BY <1>10, <2>2, <2>3 DEF PruneBefore
<1>11. ASSUME ReadCheckpoint \/ WalkChain PROVE HoldInv'
  BY <1>11 DEF HoldInv, ReadCheckpoint, WalkChain, replicaVars, fateVars
<1>12. ASSUME AuditTick PROVE HoldInv'
  BY <1>12 DEF HoldInv, AuditTick, replicaVars, fateVars
<1> QED
  BY <1>1, <1>2, <1>3, <1>4, <1>5, <1>6, <1>7, <1>8, <1>9, <1>10, <1>11, <1>12 DEF AuditNext

LEMMA HoldInvAlways == AuditSpec => []HoldInv
BY HoldInvInit, HoldInvStep, PTL DEF AuditSpec

\* After the step, a replica holds the record, the chain tells of it or its
\* loss is logged.
Traced(e) ==
  \/ \E p \in AuditReplicas : e \in HeldBy(p)'
  \/ \E s \in DOMAIN rows' : rows'[s].event = e
  \/ e \in said'

\* Queueing one record loses none of the others.
LEMMA EnqueueHolds ==
  ASSUME HoldInv, NEW r \in AuditReplicas, NEW p \in AuditReplicas, NEW e \in HeldBy(p),
         Enqueue(r), UNCHANGED writing
  PROVE  e \in HeldBy(p)'
<1> DEFINE rec == [event |-> recorded + 1, at |-> auditClock]
<1>1. CASE UNCHANGED queue
  BY <1>1 DEF HeldBy
<1>2. CASE queue' = [queue EXCEPT ![r] = Append(@, rec)]
  <2>1. queue[p] \in Seq(Recs) /\ rec \in Recs
    BY DEF HoldInv, Recs
  <2>2. queue'[p] = queue[p] \/ queue'[p] = Append(queue[p], rec)
    BY <1>2 DEF HoldInv
  <2>3. \A i \in DOMAIN queue[p] : i \in DOMAIN queue'[p] /\ queue'[p][i] = queue[p][i]
    BY <2>1, <2>2
  <2> QED
    BY <2>3 DEF HeldBy
<1> QED
  BY <1>1, <1>2 DEF Enqueue

\* The writer holds what it took, and its queue the rest.
LEMMA TakeHolds ==
  ASSUME HoldInv, NEW r \in AuditReplicas, NEW p \in AuditReplicas, NEW e \in HeldBy(p), Take(r)
  PROVE  e \in HeldBy(p)'
<1>1. CASE p # r
  BY <1>1 DEF HoldInv, Take, HeldBy
<1>2. CASE p = r
  <2>1. queue[r] \in Seq(Recs) /\ queue[r] # << >> /\ writing[r] = << >>
    BY DEF HoldInv, Take
  <2>2. /\ queue'[r] = Tail(queue[r])
        /\ writing'[r] = <<[of |-> Head(queue[r]), tomb |-> FALSE]>>
    BY DEF HoldInv, Take
  <2>3. PICK i \in DOMAIN queue[r] : e = queue[r][i].event
    BY <1>2, <2>1 DEF HeldBy
  <2>4. CASE i = 1
    <3>1. 1 \in DOMAIN writing'[r] /\ writing'[r][1].of.event = e
      BY <2>1, <2>2, <2>3, <2>4
    <3> QED
      BY <1>2, <3>1 DEF HeldBy
  <2>5. CASE i # 1
    <3>1. i - 1 \in DOMAIN queue'[r] /\ queue'[r][i - 1] = queue[r][i]
      BY <2>1, <2>2, <2>3, <2>5
    <3> QED
      BY <1>2, <2>3, <3>1 DEF HeldBy
  <2> QED
    BY <2>4, <2>5
<1> QED
  BY <1>1, <1>2

\* A committed append tells of its record.
LEMMA CommittedTells ==
  ASSUME NEW w, Committed(w)
  PROVE  \E s \in DOMAIN rows' : rows'[s].event = w.of.event
<1>1. PICK tail \in ChainTail :
        rows' = [s \in DOMAIN rows \cup {tail.seq + 1} |->
                   IF s = tail.seq + 1 THEN Chained(w, tail) ELSE rows[s]]
  BY DEF Committed
<1>2. tail.seq + 1 \in DOMAIN rows' /\ rows'[tail.seq + 1] = Chained(w, tail)
  BY <1>1
<1> QED
  BY <1>2 DEF Chained

\* The outcome of an append: told, tried again as a tombstone, or logged
\* (PGLog.drain).
LEMMA AppendTraces ==
  ASSUME HoldInv, NEW r \in AuditReplicas, NEW p \in AuditReplicas, NEW e \in HeldBy(p),
         AppendRecord(r)
  PROVE  Traced(e)
<1>1. UNCHANGED queue
  BY DEF AppendRecord
<1>2. PICK w \in [of : Recs, tomb : BOOLEAN] : writing[r] = <<w>>
  BY DEF HoldInv, AppendRecord, Writes
<1>3. writing[r][1] = w
  BY <1>2
<1>4. \/ Committed(w)
      \/ w.tomb /\ said' = said \cup {w.of.event}
      \/ writing' = [writing EXCEPT ![r] = <<[w EXCEPT !.tomb = TRUE]>>]
  BY <1>3 DEF AppendRecord, AfterError
<1>5. CASE \E i \in DOMAIN queue[p] : e = queue[p][i].event
  <2>1. e \in HeldBy(p)'
    BY <1>1, <1>5 DEF HeldBy
  <2> QED
    BY <2>1 DEF Traced
<1>6. CASE p # r
  <2>1. writing'[p] = writing[p]
    BY <1>3, <1>6 DEF HoldInv, AppendRecord, AfterError
  <2>2. e \in HeldBy(p)'
    BY <1>1, <2>1 DEF HeldBy
  <2> QED
    BY <2>2 DEF Traced
<1>7. CASE p = r /\ e = w.of.event
  <2>1. CASE Committed(w)
    BY <1>7, <2>1, CommittedTells DEF Traced
  <2>2. CASE said' = said \cup {w.of.event}
    BY <1>7, <2>2 DEF Traced
  <2>3. CASE writing' = [writing EXCEPT ![r] = <<[w EXCEPT !.tomb = TRUE]>>]
    <3>1. writing'[r] = <<[w EXCEPT !.tomb = TRUE]>>
      BY <2>3 DEF HoldInv
    <3>2. 1 \in DOMAIN writing'[r] /\ writing'[r][1].of.event = e
      BY <1>7, <3>1
    <3>3. e \in HeldBy(r)'
      BY <3>2 DEF HeldBy
    <3> QED
      BY <3>3 DEF Traced
  <2> QED
    BY <1>4, <2>1, <2>2, <2>3
<1> QED
  BY <1>2, <1>5, <1>6, <1>7 DEF HeldBy

\* A replica that exits has logged what it held, or held nothing that came
\* before Close (PGLog.Close).
LEMMA ExitTraces ==
  ASSUME HoldInv, NEW r \in AuditReplicas, NEW p \in AuditReplicas, NEW e \in HeldBy(p),
         e \notin late, Exit(r)
  PROVE  Traced(e)
<1>1. CASE p # r
  <2>1. e \in HeldBy(p)'
    BY <1>1 DEF HoldInv, Exit, Down, HeldBy
  <2> QED
    BY <2>1 DEF Traced
<1>2. CASE p = r /\ log[r] = "closing"
  BY <1>2 DEF Exit, Traced
<1>3. CASE p = r /\ log[r] = "ended"
  BY <1>3 DEF HoldInv, HeldBy
<1> QED
  BY <1>1, <1>2, <1>3 DEF Exit

LEMMA TracedStep ==
  ASSUME HoldInv, [AuditNext]_auditVars,
         NEW p \in AuditReplicas, NEW e \in HeldBy(p), e \notin late, e \notin perished'
  PROVE  Traced(e)
<1>1. CASE UNCHANGED <<queue, writing>>
  <2>1. e \in HeldBy(p)'
    BY <1>1 DEF HeldBy
  <2> QED
    BY <2>1 DEF Traced
<1>2. ASSUME NEW r \in AuditReplicas, Record(r) PROVE Traced(e)
  BY <1>2, EnqueueHolds DEF Record, Traced
<1>3. ASSUME NEW r \in AuditReplicas, Take(r) PROVE Traced(e)
  BY <1>3, TakeHolds DEF Traced
<1>4. ASSUME NEW r \in AuditReplicas, AppendRecord(r) PROVE Traced(e)
  BY <1>4, AppendTraces
<1>5. ASSUME NEW r \in AuditReplicas, Exit(r) PROVE Traced(e)
  BY <1>5, ExitTraces
<1>6. ASSUME NEW r \in AuditReplicas, CrashLog(r) PROVE Traced(e)
  <2>1. p # r
    BY <1>6 DEF CrashLog
  <2>2. e \in HeldBy(p)'
    BY <1>6, <2>1 DEF HoldInv, CrashLog, Down, HeldBy
  <2> QED
    BY <2>2 DEF Traced
<1>7. ASSUME NEW r \in AuditReplicas, NEW cutoff \in 1..auditClock, PruneBefore(r, cutoff)
      PROVE  Traced(e)
  <2>1. CASE Enqueue(r)
    BY <1>7, <2>1, EnqueueHolds DEF PruneBefore, Traced
  <2> QED
    BY <1>1, <1>7, <2>1 DEF PruneBefore
<1>8. ASSUME NEW r \in AuditReplicas, OpenPG(r) \/ Close(r) \/ EndWriter(r) PROVE Traced(e)
  BY <1>1, <1>8 DEF OpenPG, Close, EndWriter
<1>9. CASE ReadCheckpoint \/ WalkChain \/ AuditTick \/ UNCHANGED auditVars
  BY <1>1, <1>9 DEF ReadCheckpoint, WalkChain, AuditTick, auditVars, replicaVars
<1> QED
  BY <1>2, <1>3, <1>4, <1>5, <1>6, <1>7, <1>8, <1>9 DEF AuditNext

\* Nothing recorded before Close vanishes from the trail without a trace,
\* unless its process crashes (PGLog.Record, PGLog.drain, PGLog.Close).
THEOREM NothingVanishesUnsaid == AuditSpec => NothingVanishes
<1>1. HoldInv /\ [AuditNext]_auditVars =>
        [\A e \in 1..recorded \ (late \cup perished') :
           LET tells(rs) == \E s \in DOMAIN rs : rs[s].event = e
           IN (\E r \in AuditReplicas : e \in HeldBy(r))
                => \/ \E r \in AuditReplicas : e \in HeldBy(r)'
                   \/ tells(rows')
                   \/ e \in said']_auditVars
  BY TracedStep DEF Traced
<1> QED
  BY <1>1, HoldInvAlways, PTL DEF AuditSpec, NothingVanishes

---------------------------------------------------------------------------
(***************************************************************************)
(* A restart brings back what the board shows, and no path has two open    *)
(* tickets: for any number of requests, paths and dates, and however the   *)
(* requests on a store overlap, fail and crash.  The argument is about who *)
(* is alone: a request that nobody overlapped copies what memory holds     *)
(* until it writes it, and only such a one clears the mark that a file may *)
(* be behind.                                                              *)
(***************************************************************************)

Steps == {"begun", "free", "opened", "changed", "copied"}
StoreOf(op) == IF op \in {"put", "delete"} THEN "suppressions" ELSE "tickets"

RequestTyped(r) ==
  /\ r = [at |-> r.at, op |-> r.op, store |-> r.store, path |-> r.path, until |-> r.until,
          ticket |-> r.ticket, alone |-> r.alone, copy |-> r.copy]
  /\ r.at \in Steps
  /\ r.op \in {"put", "delete", "create", "close"} /\ r.store = StoreOf(r.op)
  /\ r.alone \in BOOLEAN

BoardTyped ==
  /\ backend \in {"file", "postgres"}
  /\ request = [h \in Handlers |-> request[h]]
  /\ \A h \in Handlers : request[h] = Idle \/ RequestTyped(request[h])
  /\ saved = [s \in Stores |-> saved[s]]
  /\ blurred \in [Stores -> BOOLEAN]

\* Requests that overlap know it, and blur the file.
OverlapIsSeen ==
  \A s \in Stores : \A h \in Busy(s) :
    /\ ~blurred[s] => request[h].alone
    /\ \A g \in Busy(s) : g # h => blurred[s] /\ ~request[h].alone

\* What a lone request is about to write is what memory holds.
CopyIsCurrent ==
  \A s \in Stores : \A h \in Busy(s) :
    request[h].alone /\ request[h].at = "copied" => request[h].copy = Memory(s)

\* A file that is not marked as behind differs from memory by a change on its way.
FileIsCurrent ==
  \A s \in Stores :
    ~blurred[s] /\ (\A h \in Busy(s) : request[h].at = "begun") => saved[s] = Memory(s)

\* No two open tickets of a path.
Single(all) ==
  \A t, u \in DOMAIN all : all[t].open /\ all[u].open /\ all[t].path = all[u].path => t = u

SingleEverywhere ==
  /\ Single(tickets) /\ Single(saved["tickets"])
  /\ \A h \in Busy("tickets") : request[h].at = "copied" => Single(request[h].copy)

FileInv ==
  /\ \A h \in Handlers : request[h].at # "free"
  /\ CopyIsCurrent /\ FileIsCurrent /\ SingleEverywhere

BoardInv ==
  /\ BoardTyped /\ OverlapIsSeen
  /\ backend = "file" => FileInv

\* A request at work on a store has every field, and is on that store.
LEMMA BusyTyped ==
  ASSUME BoardTyped, NEW s, NEW h \in Busy(s)
  PROVE  h \in Handlers /\ RequestTyped(request[h]) /\ request[h].store = s
BY DEF Busy, BoardTyped

\* A request that takes a step is the same request.
Renewed(r, step, t, b, c) ==
  [at |-> step, op |-> r.op, store |-> r.store, path |-> r.path, until |-> r.until,
   ticket |-> t, alone |-> b, copy |-> c]

\* A request moved to its next step has every field too.
LEMMA RenewedTyped ==
  ASSUME NEW r, RequestTyped(r), NEW step \in Steps, NEW t, NEW b, b \in BOOLEAN, NEW c,
         NEW q, q = Renewed(r, step, t, b, c)
  PROVE  /\ RequestTyped(q) /\ q # Idle
         /\ q.at = step /\ q.op = r.op /\ q.store = r.store /\ q.alone = b /\ q.copy = c
<1>1. /\ q.at = step /\ q.op = r.op /\ q.store = r.store /\ q.path = r.path /\ q.until = r.until
      /\ q.ticket = t /\ q.alone = b /\ q.copy = c
  BY DEF Renewed
<1>2. r.op \in {"put", "delete", "create", "close"} /\ r.store = StoreOf(r.op)
  BY DEF RequestTyped
<1>3. q = [at |-> q.at, op |-> q.op, store |-> q.store, path |-> q.path, until |-> q.until,
           ticket |-> q.ticket, alone |-> q.alone, copy |-> q.copy]
  BY <1>1 DEF Renewed
<1>4. q # Idle
  BY <1>1 DEF Steps, Idle
<1> QED BY <1>1, <1>2, <1>3, <1>4 DEF RequestTyped

\* Nobody is at work at first, and memory, files and tables agree.
LEMMA BoardInitially == BoardInit => BoardInv
<1> SUFFICES ASSUME BoardInit PROVE BoardInv
  OBVIOUS
<1>1. /\ suppressed = NoneOf /\ tickets = NoneOf /\ saved = [s \in Stores |-> NoneOf]
      /\ request = [h \in Handlers |-> Idle] /\ backend \in {"file", "postgres"}
      /\ blurred = [s \in Stores |-> FALSE]
  BY DEF BoardInit
<1>2. \A s : Busy(s) = {}
  BY <1>1 DEF Busy
<1>3. \A h \in Handlers : request[h] = Idle /\ request[h].at # "free"
  BY <1>1 DEF Idle
<1>4. BoardTyped
  BY <1>1, <1>3 DEF BoardTyped
<1>5. \A s \in Stores : saved[s] = NoneOf /\ Memory(s) = NoneOf
  BY <1>1 DEF Memory
<1>6. DOMAIN NoneOf = {} /\ Single(NoneOf)
  BY DEF NoneOf, Single
<1> QED
  BY <1>1, <1>2, <1>3, <1>4, <1>5, <1>6
  DEF BoardInv, OverlapIsSeen, FileInv, CopyIsCurrent, FileIsCurrent, SingleEverywhere, Stores

\* A request begins.
LEMMA BeginKeepsBoard ==
  ASSUME BoardInv, NEW h \in Handlers, NEW op \in {"put", "delete", "create", "close"},
         NEW p, NEW t, NEW until, Begin(h, op, StoreOf(op), p, t, until)
  PROVE  BoardInv'
<1> DEFINE st == StoreOf(op)
           new == [at |-> "begun", op |-> op, store |-> st, path |-> p, until |-> until,
                   ticket |-> t, alone |-> Busy(st) = {}, copy |-> NoneOf]
<1>1. st \in Stores
  BY DEF Stores, StoreOf
<1>2. /\ request[h] = Idle
      /\ request' = [g \in Handlers |-> IF g = h THEN new
                       ELSE IF g \in Busy(st) THEN [request[g] EXCEPT !.alone = FALSE] ELSE request[g]]
      /\ blurred' = [blurred EXCEPT ![st] = @ \/ Busy(st) # {}]
      /\ UNCHANGED <<backend, suppressed, tickets, saved>>
  BY DEF Begin
<1>3. (\A s : h \notin Busy(s)) /\ new # Idle
  BY <1>2 DEF Busy, Idle
<1>4. RequestTyped(new)
  BY DEF RequestTyped, Steps
<1> HIDE DEF st
<1>5. \A g \in Handlers :
        /\ g = h => request'[g] = new
        /\ g # h /\ g \in Busy(st) =>
             /\ RequestTyped(request'[g]) /\ request'[g].at = request[g].at /\ request'[g].op = request[g].op
             /\ request'[g].store = st /\ request'[g].alone = FALSE /\ request'[g].copy = request[g].copy
             /\ request'[g] # Idle
        /\ g # h /\ g \notin Busy(st) => request'[g] = request[g]
  <2> SUFFICES ASSUME NEW g \in Handlers, g # h, g \in Busy(st)
               PROVE  /\ RequestTyped(request'[g]) /\ request'[g].at = request[g].at /\ request'[g].op = request[g].op
                      /\ request'[g].store = st /\ request'[g].alone = FALSE /\ request'[g].copy = request[g].copy
                      /\ request'[g] # Idle
    BY <1>2
  <2>1. RequestTyped(request[g]) /\ request[g].store = st
    BY BusyTyped DEF BoardInv
  <2>2. request'[g] = [request[g] EXCEPT !.alone = FALSE]
    BY <1>2
  <2>0. PICK no : no = FALSE
    OBVIOUS
  <2>3. request'[g] = Renewed(request[g], request[g].at, request[g].ticket, no, request[g].copy)
    BY <2>0, <2>1, <2>2 DEF RequestTyped, Renewed
  <2>4. request[g].at \in Steps /\ no \in BOOLEAN
    BY <2>0, <2>1 DEF RequestTyped
  <2>5. /\ RequestTyped(request'[g]) /\ request'[g] # Idle
        /\ request'[g].at = request[g].at /\ request'[g].op = request[g].op
        /\ request'[g].store = request[g].store /\ request'[g].alone = no
        /\ request'[g].copy = request[g].copy
    BY <2>1, <2>3, <2>4, RenewedTyped
  <2> QED BY <2>0, <2>1, <2>5
<1> HIDE DEF new
<1>6. new.at = "begun" /\ new.store = st /\ (new.alone <=> Busy(st) = {})
  BY DEF new
<1>7. Busy(st)' = Busy(st) \cup {h} /\ \A s : s # st => Busy(s)' = Busy(s)
  BY <1>2, <1>3, <1>5, <1>6, BusyTyped DEF Busy, BoardInv
<1>8. BoardTyped'
  <2>1. request' = [g \in Handlers |-> request'[g]]
    BY <1>2
  <2>2. \A g \in Handlers : request'[g] = Idle \/ RequestTyped(request'[g])
    BY <1>4, <1>5 DEF BoardInv, BoardTyped
  <2>3. blurred' \in [Stores -> BOOLEAN]
    BY <1>1, <1>2 DEF BoardInv, BoardTyped
  <2> QED BY <1>2, <2>1, <2>2, <2>3 DEF BoardInv, BoardTyped, RequestTyped
<1>9. \A s \in Stores : blurred'[s] = (IF s = st THEN blurred[s] \/ Busy(st) # {} ELSE blurred[s])
  BY <1>1, <1>2 DEF BoardInv, BoardTyped
<1>10. OverlapIsSeen'
  <2> SUFFICES ASSUME NEW s \in Stores, NEW g \in Busy(s)'
               PROVE  /\ ~blurred'[s] => request'[g].alone
                      /\ \A f \in Busy(s)' : f # g => blurred'[s] /\ ~request'[g].alone
    BY DEF OverlapIsSeen
  <2>1. g \in Handlers
    BY DEF Busy
  <2>2. CASE s # st
    <3>1. g \in Busy(s) /\ g \notin Busy(st) /\ g # h /\ Busy(s)' = Busy(s)
      BY <1>3, <1>7, <2>2, BusyTyped DEF BoardInv
    <3>2. request'[g] = request[g] /\ blurred'[s] = blurred[s]
      BY <1>5, <1>9, <2>1, <2>2, <3>1
    <3> QED BY <3>1, <3>2 DEF BoardInv, OverlapIsSeen
  <2>3. CASE s = st
    BY <1>3, <1>5, <1>6, <1>7, <1>9, <2>1, <2>3 DEF BoardInv, OverlapIsSeen
  <2> QED BY <2>2, <2>3
<1>11. ASSUME backend' = "file" PROVE FileInv'
  <2>1. backend = "file" /\ FileInv
    BY <1>2, <1>11 DEF BoardInv
  <2>2. \A s : Memory(s)' = Memory(s)
    BY <1>2 DEF Memory
  <2>3. CopyIsCurrent'
    BY <1>2, <1>3, <1>5, <1>6, <1>7, <2>1, <2>2, BusyTyped DEF FileInv, CopyIsCurrent, BoardInv
  <2>4. FileIsCurrent'
    <3> SUFFICES ASSUME NEW s \in Stores, ~blurred'[s], \A g \in Busy(s)' : request'[g].at = "begun"
                 PROVE  saved[s] = Memory(s)
      BY <1>2, <2>2 DEF FileIsCurrent
    <3>1. ~blurred[s]
      BY <1>9
    <3>2. \A g \in Busy(s) : request[g].at = "begun"
      <4> SUFFICES ASSUME NEW g \in Busy(s) PROVE request[g].at = "begun"
        OBVIOUS
      <4>1. g \in Handlers /\ g # h /\ g \in Busy(s)' /\ request[g].store = s
        BY <1>3, <1>7, BusyTyped DEF BoardInv
      <4>2. request'[g].at = request[g].at
        BY <1>5, <4>1
      <4> QED BY <4>1, <4>2
    <3> QED BY <2>1, <3>1, <3>2 DEF FileInv, FileIsCurrent
  <2>5. SingleEverywhere'
    BY <1>2, <1>3, <1>5, <1>6, <1>7, <2>1, BusyTyped DEF FileInv, SingleEverywhere, BoardInv, Single
  <2>6. \A g \in Handlers : request'[g].at # "free"
    BY <1>5, <1>6, <2>1 DEF FileInv
  <2> QED BY <2>3, <2>4, <2>5, <2>6 DEF FileInv
<1> QED BY <1>8, <1>10, <1>11 DEF BoardInv

\* A request at work takes a step.
LEMMA MovesKeep ==
  ASSUME BoardInv, NEW h \in Handlers, RequestTyped(request[h]),
         NEW step \in Steps, NEW t, NEW c,
         request' = [request EXCEPT ![h] = Renewed(request[h], step, t, request[h].alone, c)],
         UNCHANGED <<backend, saved, blurred>>
  PROVE  /\ BoardTyped' /\ OverlapIsSeen'
         /\ \A s : Busy(s)' = Busy(s)
         /\ \A g \in Handlers : g # h => request'[g] = request[g]
         /\ RequestTyped(request'[h]) /\ request'[h].at = step /\ request'[h].copy = c
         /\ request'[h].store = request[h].store /\ request'[h].alone = request[h].alone
<1>1. PICK q : q = Renewed(request[h], step, t, request[h].alone, c)
  OBVIOUS
<1>2. request[h].alone \in BOOLEAN
  BY DEF RequestTyped
<1>3. /\ RequestTyped(q) /\ q # Idle /\ q.at = step /\ q.store = request[h].store
      /\ q.alone = request[h].alone /\ q.copy = c
  BY <1>1, <1>2, RenewedTyped
<1>4. request' = [request EXCEPT ![h] = q]
  BY <1>1
<1>5. DOMAIN request = Handlers
  BY DEF BoardInv, BoardTyped
<1>6. request'[h] = q /\ \A g \in Handlers : g # h => request'[g] = request[g]
  BY <1>4, <1>5
<1>7. request' = [g \in Handlers |-> request'[g]]
  BY <1>4, <1>5
<1>8. request[h] # Idle
  BY DEF RequestTyped, Steps, Idle
<1>9. \A s : Busy(s)' = Busy(s)
  BY <1>3, <1>6, <1>8 DEF Busy
<1>10. BoardTyped'
  BY <1>3, <1>6, <1>7 DEF BoardInv, BoardTyped, RequestTyped
<1>11. OverlapIsSeen'
  <2> SUFFICES ASSUME NEW s \in Stores, NEW g \in Busy(s)
               PROVE  /\ ~blurred[s] => request'[g].alone
                      /\ \A f \in Busy(s) : f # g => blurred[s] /\ ~request'[g].alone
    BY <1>9 DEF OverlapIsSeen
  <2>1. g \in Handlers
    BY DEF Busy
  <2>2. request'[g].alone = request[g].alone
    BY <1>3, <1>6, <2>1
  <2> QED BY <2>2 DEF BoardInv, OverlapIsSeen
<1> QED BY <1>3, <1>6, <1>9, <1>10, <1>11

\* A request ends.
LEMMA FinishKeeps ==
  ASSUME BoardInv, NEW h \in Handlers, RequestTyped(request[h]), Finish(h), UNCHANGED backend,
         saved' = [s \in Stores |-> saved'[s]],
         blurred' \in [Stores -> BOOLEAN],
         \A s \in Stores : blurred[s] => blurred'[s] \/ (s = request[h].store /\ request[h].alone)
  PROVE  /\ BoardTyped' /\ OverlapIsSeen'
         /\ \A s : Busy(s)' = Busy(s) \ {h}
         /\ \A g \in Handlers : g # h => request'[g] = request[g]
         /\ request'[h] = Idle
<1>1. DOMAIN request = Handlers
  BY DEF BoardInv, BoardTyped
<1>2. request'[h] = Idle /\ \A g \in Handlers : g # h => request'[g] = request[g]
  BY <1>1 DEF Finish
<1>3. request' = [g \in Handlers |-> request'[g]]
  BY <1>1 DEF Finish
<1>4. \A s : Busy(s)' = Busy(s) \ {h}
  BY <1>2 DEF Busy
<1>5. BoardTyped'
  BY <1>2, <1>3 DEF BoardInv, BoardTyped, RequestTyped
<1>6. OverlapIsSeen'
  <2> SUFFICES ASSUME NEW s \in Stores, NEW g \in Busy(s) \ {h}
               PROVE  /\ ~blurred'[s] => request'[g].alone
                      /\ \A f \in Busy(s) : f # g /\ f # h => blurred'[s] /\ ~request'[g].alone
    BY <1>4 DEF OverlapIsSeen
  <2>1. g \in Handlers /\ request'[g] = request[g] /\ request[h] # Idle
    BY <1>2 DEF Busy, RequestTyped, Steps, Idle
  <2>2. blurred[s] => blurred'[s]
    <3>1. s = request[h].store => h \in Busy(s)
      BY <2>1 DEF Busy
    <3> QED BY <2>1, <3>1 DEF BoardInv, OverlapIsSeen
  <2> QED BY <2>1, <2>2 DEF BoardInv, OverlapIsSeen
<1> QED BY <1>2, <1>4, <1>5, <1>6

\* A change of memory is on its way to the file until its request writes it.
LEMMA ChangeIsOnItsWay ==
  ASSUME BoardInv, backend = "file", NEW h \in Handlers, RequestTyped(request[h]),
         \A s : Busy(s)' = Busy(s), \A g \in Handlers : g # h => request'[g] = request[g],
         request'[h].at \in {"opened", "changed"},
         request'[h].store = request[h].store, request'[h].alone = request[h].alone,
         UNCHANGED <<saved, blurred>>,
         \A s \in Stores : s # request[h].store => Memory(s)' = Memory(s)
  PROVE  CopyIsCurrent' /\ FileIsCurrent'
<1>1. h \in Busy(request[h].store) /\ request[h].store \in Stores
  BY DEF Busy, RequestTyped, Steps, Idle, StoreOf, Stores
<1>2. FileInv
  BY DEF BoardInv
<1>3. CopyIsCurrent'
  <2> SUFFICES ASSUME NEW s \in Stores, NEW g \in Busy(s), request'[g].alone, request'[g].at = "copied"
               PROVE  request'[g].copy = Memory(s)'
    BY DEF CopyIsCurrent
  <2>1. g \in Handlers /\ g # h /\ request'[g] = request[g]
    BY DEF Busy
  <2>2. s # request[h].store
    BY <1>1, <2>1 DEF BoardInv, OverlapIsSeen
  <2> QED BY <1>2, <2>1, <2>2 DEF FileInv, CopyIsCurrent
<1>4. FileIsCurrent'
  <2> SUFFICES ASSUME NEW s \in Stores, ~blurred[s], \A g \in Busy(s) : request'[g].at = "begun"
               PROVE  saved[s] = Memory(s)'
    BY DEF FileIsCurrent
  <2>1. s # request[h].store
    BY <1>1
  <2>2. \A g \in Busy(s) : g \in Handlers /\ g # h
    BY <2>1 DEF Busy
  <2>3. saved[s] = Memory(s)
    BY <1>2, <2>2 DEF FileInv, FileIsCurrent
  <2> QED BY <2>1, <2>3
<1> QED BY <1>3, <1>4

\* Stepped, field by field.
LEMMA SteppedIsRenewed ==
  ASSUME NEW r, RequestTyped(r), NEW step
  PROVE  Stepped(r, step) = Renewed(r, step, r.ticket, r.alone, r.copy)
BY DEF Stepped, Renewed, RequestTyped

\* A request that moves on leaves the others where they are.
LEMMA BecomesKeeps ==
  ASSUME BoardInv, NEW h \in Handlers, RequestTyped(request[h]),
         NEW step \in Steps, Becomes(h, step), UNCHANGED <<backend, saved, blurred>>
  PROVE  /\ BoardTyped' /\ OverlapIsSeen'
         /\ \A s : Busy(s)' = Busy(s)
         /\ \A g \in Handlers : g # h => request'[g] = request[g]
         /\ RequestTyped(request'[h]) /\ request'[h].at = step /\ request'[h].copy = request[h].copy
         /\ request'[h].store = request[h].store /\ request'[h].alone = request[h].alone
<1>1. request' = [request EXCEPT ![h] = Renewed(request[h], step, request[h].ticket, request[h].alone, request[h].copy)]
  BY SteppedIsRenewed DEF Becomes
<1> QED BY <1>1, MovesKeep

\* A request at work has every field.
LEMMA AtWork ==
  ASSUME BoardInv, NEW h \in Handlers, request[h] # Idle
  PROVE  RequestTyped(request[h])
BY DEF BoardInv, BoardTyped

\* So has one that is at a step.
LEMMA AtStep ==
  ASSUME BoardInv, NEW h \in Handlers, NEW step \in Steps, At(h, step)
  PROVE  RequestTyped(request[h])
<1>1. request[h] # Idle
  BY DEF At, Idle, Steps
<1> QED BY <1>1, AtWork

\* A change of one store's memory, made before the file is written.
LEMMA ChangedKeeps ==
  ASSUME BoardInv, NEW h \in Handlers, RequestTyped(request[h]), Changed(h),
         UNCHANGED <<backend, saved, blurred>>,
         \A s \in Stores : s # request[h].store => Memory(s)' = Memory(s),
         backend = "file" => Single(tickets)'
  PROVE  BoardInv'
<1>1. CASE backend = "file"
  <2>1. "changed" \in Steps /\ Becomes(h, "changed")
    BY <1>1 DEF Steps, Changed
  <2>2. /\ BoardTyped' /\ OverlapIsSeen'
        /\ \A s : Busy(s)' = Busy(s)
        /\ \A g \in Handlers : g # h => request'[g] = request[g]
        /\ RequestTyped(request'[h]) /\ request'[h].at = "changed" /\ request'[h].copy = request[h].copy
        /\ request'[h].store = request[h].store /\ request'[h].alone = request[h].alone
    BY <2>1, BecomesKeeps
  <2>3. CopyIsCurrent' /\ FileIsCurrent'
    BY <1>1, <2>2, ChangeIsOnItsWay
  <2>4. FileInv
    BY <1>1 DEF BoardInv
  <2>5. SingleEverywhere'
    <3>1. Single(saved["tickets"])'
      BY <2>4 DEF FileInv, SingleEverywhere, Single
    <3>2. \A g \in Busy("tickets") : request'[g].at = "copied" => request'[g] = request[g]
      BY <2>2 DEF Busy
    <3> QED BY <1>1, <2>2, <2>4, <3>1, <3>2 DEF FileInv, SingleEverywhere, Single
  <2>6. \A g \in Handlers : request'[g].at # "free"
    BY <2>2, <2>4 DEF FileInv
  <2> QED BY <2>2, <2>3, <2>5, <2>6 DEF BoardInv, FileInv
<1>2. CASE backend # "file"
  <2>1. /\ Finish(h) /\ saved' = [s \in Stores |-> saved'[s]] /\ blurred' \in [Stores -> BOOLEAN]
        /\ \A s \in Stores : blurred[s] => blurred'[s]
    BY <1>2 DEF Changed, BoardInv, BoardTyped
  <2>2. BoardTyped' /\ OverlapIsSeen'
    BY <2>1, FinishKeeps
  <2> QED BY <1>2, <2>2 DEF BoardInv
<1> QED BY <1>1, <1>2

\* The suppressions change in memory.
LEMMA StoreSuppressionKeeps == ASSUME BoardInv, NEW h \in Handlers, StoreSuppression(h) PROVE BoardInv'
<1>1. RequestTyped(request[h])
  BY AtStep DEF StoreSuppression, Steps
<1>2. /\ Changed(h) /\ UNCHANGED <<backend, saved, blurred, tickets>>
      /\ request[h].store = "suppressions"
  BY <1>1 DEF StoreSuppression, RequestTyped, StoreOf
<1>3. \A s \in Stores : s # request[h].store => Memory(s)' = Memory(s)
  BY <1>2 DEF Memory, Stores
<1>4. backend = "file" => Single(tickets)'
  BY <1>2 DEF BoardInv, FileInv, SingleEverywhere, Single
<1> QED BY <1>1, <1>2, <1>3, <1>4, ChangedKeeps

\* Closing opens nothing.
LEMMA MarkClosedKeeps == ASSUME BoardInv, NEW h \in Handlers, MarkClosed(h) PROVE BoardInv'
<1>1. RequestTyped(request[h])
  BY AtStep DEF MarkClosed, Steps
<1>2. /\ Changed(h) /\ UNCHANGED <<backend, saved, blurred, suppressed>>
      /\ request[h].store = "tickets"
  BY <1>1 DEF MarkClosed, RequestTyped, StoreOf
<1>3. \A s \in Stores : s # request[h].store => Memory(s)' = Memory(s)
  BY <1>2 DEF Memory, Stores
<1>4. backend = "file" => Single(tickets)'
  <2> DEFINE k == request[h].ticket
  <2>1. /\ DOMAIN tickets' = DOMAIN tickets
        /\ \A t \in DOMAIN tickets : t # k => tickets'[t] = tickets[t]
        /\ k \in DOMAIN tickets => tickets'[k].open = FALSE
    BY DEF MarkClosed
  <2> QED BY <2>1 DEF BoardInv, FileInv, SingleEverywhere, Single
<1> QED BY <1>1, <1>2, <1>3, <1>4, ChangedKeeps

\* A ticket is dispatched to the tracker.
LEMMA DispatchTicketKeeps == ASSUME BoardInv, NEW h \in Handlers, DispatchTicket(h) PROVE BoardInv'
<1>1. RequestTyped(request[h])
  BY AtStep DEF DispatchTicket, Steps
<1>2. Changed(h) /\ UNCHANGED <<backend, saved, blurred, suppressed, tickets>>
  BY DEF DispatchTicket
<1>3. \A s \in Stores : Memory(s)' = Memory(s)
  BY <1>2 DEF Memory
<1>4. backend = "file" => Single(tickets)'
  BY <1>2 DEF BoardInv, FileInv, SingleEverywhere, Single
<1> QED BY <1>1, <1>2, <1>3, <1>4, ChangedKeeps

\* A ticket is opened for a path without an open one.
LEMMA OpenTicketKeeps == ASSUME BoardInv, NEW h \in Handlers, OpenTicket(h) PROVE BoardInv'
<1>1. RequestTyped(request[h])
  BY AtWork DEF OpenTicket
<1>2. /\ UNCHANGED <<backend, saved, blurred, suppressed>>
      /\ request[h].store = "tickets" /\ "opened" \in Steps
  BY <1>1 DEF OpenTicket, RequestTyped, StoreOf, Steps
<1>3. PICK k : k = NewTicket
  OBVIOUS
<1>4. request' = [request EXCEPT ![h] = Renewed(request[h], "opened", k, request[h].alone, request[h].copy)]
  <2>1. request' = [request EXCEPT ![h] = [Stepped(request[h], "opened") EXCEPT !.ticket = k]]
    BY <1>3 DEF OpenTicket
  <2>2. [Stepped(request[h], "opened") EXCEPT !.ticket = k]
          = Renewed(request[h], "opened", k, request[h].alone, request[h].copy)
    BY <1>1, SteppedIsRenewed DEF Renewed
  <2> QED BY <2>1, <2>2
<1>5. /\ BoardTyped' /\ OverlapIsSeen'
      /\ \A s : Busy(s)' = Busy(s)
      /\ \A g \in Handlers : g # h => request'[g] = request[g]
      /\ RequestTyped(request'[h]) /\ request'[h].at = "opened" /\ request'[h].copy = request[h].copy
      /\ request'[h].store = request[h].store /\ request'[h].alone = request[h].alone
  BY <1>1, <1>2, <1>4, MovesKeep
<1>6. ASSUME backend = "file" PROVE FileInv'
  <2>1. FileInv
    BY <1>6 DEF BoardInv
  <2>2. \A s \in Stores : s # request[h].store => Memory(s)' = Memory(s)
    BY <1>2 DEF Memory, Stores
  <2>3. CopyIsCurrent' /\ FileIsCurrent'
    BY <1>1, <1>2, <1>5, <1>6, <2>2, ChangeIsOnItsWay
  <2>4. OpenForPath(tickets, request[h].path) = {}
    BY <2>1 DEF OpenTicket, FreeToOpen, FileInv, At
  <2>5. Single(tickets')
    <3>1. PICK new : new = [path |-> request[h].path, open |-> TRUE, closed |-> 0]
      OBVIOUS
    <3>2. /\ DOMAIN tickets' = DOMAIN tickets \cup {k} /\ tickets'[k] = new
          /\ \A t \in DOMAIN tickets : t # k => tickets'[t] = tickets[t]
      BY <1>3, <3>1 DEF OpenTicket, With
    <3>3. new.path = request[h].path
      BY <3>1
    <3>4. \A t \in DOMAIN tickets : tickets[t].open => tickets[t].path # new.path
      BY <2>4, <3>3 DEF OpenForPath
    <3> QED BY <2>1, <3>2, <3>4 DEF FileInv, SingleEverywhere, Single
  <2>6. SingleEverywhere'
    <3>1. Single(saved["tickets"])'
      BY <1>2, <2>1 DEF FileInv, SingleEverywhere, Single
    <3>2. \A g \in Busy("tickets") : request'[g].at = "copied" => request'[g] = request[g]
      BY <1>5 DEF Busy
    <3> QED BY <1>5, <2>1, <2>5, <3>1, <3>2 DEF FileInv, SingleEverywhere, Single
  <2>7. \A g \in Handlers : request'[g].at # "free"
    BY <1>5, <2>1 DEF FileInv
  <2> QED BY <2>3, <2>6, <2>7 DEF FileInv
<1> QED BY <1>2, <1>5, <1>6 DEF BoardInv

\* The shared store looks before it opens.
LEMMA FindOpenKeeps == ASSUME BoardInv, NEW h \in Handlers, FindOpen(h) PROVE BoardInv'
<1>1. RequestTyped(request[h]) /\ "free" \in Steps
  BY AtStep DEF FindOpen, Steps
<1>2. /\ Finish(h) \/ Becomes(h, "free")
      /\ UNCHANGED <<backend, saved, blurred>> /\ backend # "file"
  BY DEF FindOpen
<1>3. CASE Finish(h)
  <2>1. /\ saved' = [s \in Stores |-> saved'[s]] /\ blurred' \in [Stores -> BOOLEAN]
        /\ \A s \in Stores : blurred[s] => blurred'[s]
    BY <1>2 DEF BoardInv, BoardTyped
  <2>2. BoardTyped' /\ OverlapIsSeen'
    BY <1>1, <1>2, <1>3, <2>1, FinishKeeps
  <2> QED BY <1>2, <2>2 DEF BoardInv
<1>4. CASE Becomes(h, "free")
  <2>1. BoardTyped' /\ OverlapIsSeen'
    BY <1>1, <1>2, <1>4, BecomesKeeps
  <2> QED BY <1>2, <2>1 DEF BoardInv
<1> QED BY <1>2, <1>3, <1>4

\* A request ends that changed nothing, or whose write is accounted for.
LEMMA EndedKeepsFile ==
  ASSUME BoardInv, backend = "file", NEW h \in Handlers, RequestTyped(request[h]),
         \A s : Busy(s)' = Busy(s) \ {h}, \A g \in Handlers : g # h => request'[g] = request[g],
         request'[h] = Idle, UNCHANGED <<suppressed, tickets>>,
         Single(saved'["tickets"]),
         \A s \in Stores :
           ~blurred'[s] /\ (\A g \in Busy(s) : g # h => request[g].at = "begun") => saved'[s] = Memory(s)
  PROVE  FileInv'
<1>1. FileInv
  BY DEF BoardInv
<1>2. \A s : Memory(s)' = Memory(s)
  BY DEF Memory
<1>3. \A s : \A g \in Busy(s) \ {h} : g \in Handlers /\ request'[g] = request[g]
  BY DEF Busy
<1>4. CopyIsCurrent'
  BY <1>1, <1>2, <1>3 DEF FileInv, CopyIsCurrent
<1>5. FileIsCurrent'
  BY <1>2, <1>3 DEF FileIsCurrent
<1>6. SingleEverywhere'
  BY <1>1, <1>3 DEF FileInv, SingleEverywhere, Single
<1>7. \A g \in Handlers : request'[g].at # "free"
  BY <1>1 DEF FileInv, Idle
<1> QED BY <1>4, <1>5, <1>6, <1>7 DEF FileInv

\* A path that already has an open ticket.
LEMMA ExistingReturnedKeeps == ASSUME BoardInv, NEW h \in Handlers, ExistingReturned(h) PROVE BoardInv'
<1>1. RequestTyped(request[h])
  BY AtStep DEF ExistingReturned, Steps
<1>2. /\ Finish(h) /\ backend = "file" /\ request[h].at = "begun"
      /\ UNCHANGED <<backend, saved, blurred, suppressed, tickets>>
  BY DEF ExistingReturned, At
<1>3. /\ saved' = [s \in Stores |-> saved'[s]] /\ blurred' \in [Stores -> BOOLEAN]
      /\ \A s \in Stores : blurred[s] => blurred'[s]
  BY <1>2 DEF BoardInv, BoardTyped
<1>4. /\ BoardTyped' /\ OverlapIsSeen'
      /\ \A s : Busy(s)' = Busy(s) \ {h}
      /\ \A g \in Handlers : g # h => request'[g] = request[g]
      /\ request'[h] = Idle
  BY <1>1, <1>2, <1>3, FinishKeeps
<1>5. \A s \in Stores :
        ~blurred'[s] /\ (\A g \in Busy(s) : g # h => request[g].at = "begun") => saved'[s] = Memory(s)
  BY <1>2 DEF BoardInv, FileInv, FileIsCurrent
<1>6. Single(saved'["tickets"])
  BY <1>2 DEF BoardInv, FileInv, SingleEverywhere
<1>7. FileInv'
  BY <1>1, <1>2, <1>4, <1>5, <1>6, EndedKeepsFile
<1> QED BY <1>4, <1>7 DEF BoardInv

\* The copy is taken under the read lock.
LEMMA SnapshotKeeps == ASSUME BoardInv, NEW h \in Handlers, Snapshot(h) PROVE BoardInv'
<1>1. RequestTyped(request[h]) /\ "copied" \in Steps
  BY AtStep DEF Snapshot, Steps
<1>2. UNCHANGED <<backend, saved, blurred, suppressed, tickets>> /\ request[h].at = "changed"
  BY DEF Snapshot, At
<1>3. PICK m : m = Memory(request[h].store)
  OBVIOUS
<1>4. request' = [request EXCEPT ![h] = Renewed(request[h], "copied", request[h].ticket, request[h].alone, m)]
  <2>1. request' = [request EXCEPT ![h] = [Stepped(request[h], "copied") EXCEPT !.copy = m]]
    BY <1>3 DEF Snapshot
  <2>2. [Stepped(request[h], "copied") EXCEPT !.copy = m]
          = Renewed(request[h], "copied", request[h].ticket, request[h].alone, m)
    BY <1>1, SteppedIsRenewed DEF Renewed
  <2> QED BY <2>1, <2>2
<1>5. /\ BoardTyped' /\ OverlapIsSeen'
      /\ \A s : Busy(s)' = Busy(s)
      /\ \A g \in Handlers : g # h => request'[g] = request[g]
      /\ RequestTyped(request'[h]) /\ request'[h].at = "copied" /\ request'[h].copy = m
      /\ request'[h].store = request[h].store /\ request'[h].alone = request[h].alone
  BY <1>1, <1>2, <1>4, MovesKeep
<1>6. ASSUME backend = "file" PROVE FileInv'
  <2>1. FileInv
    BY <1>6 DEF BoardInv
  <2>2. \A s : Memory(s)' = Memory(s)
    BY <1>2 DEF Memory
  <2>3. \A s : \A g \in Busy(s) : g \in Handlers /\ request[g].store = s
    BY DEF Busy
  <2>4. CopyIsCurrent'
    BY <1>3, <1>5, <2>1, <2>2, <2>3 DEF FileInv, CopyIsCurrent
  <2>5. FileIsCurrent'
    <3> SUFFICES ASSUME NEW s \in Stores, ~blurred[s], \A g \in Busy(s) : request'[g].at = "begun"
                 PROVE  saved[s] = Memory(s)
      BY <1>2, <1>5, <2>2 DEF FileIsCurrent
    <3>1. h \notin Busy(s)
      BY <1>5
    <3>2. \A g \in Busy(s) : request[g].at = "begun"
      BY <1>5, <2>3, <3>1
    <3> QED BY <2>1, <3>2 DEF FileInv, FileIsCurrent
  <2>6. SingleEverywhere'
    <3>1. Single(tickets)' /\ Single(saved["tickets"])' /\ Single(tickets)
      BY <1>2, <2>1 DEF FileInv, SingleEverywhere, Single
    <3> SUFFICES ASSUME NEW g \in Busy("tickets"), request'[g].at = "copied" PROVE Single(request'[g].copy)
      BY <1>5, <3>1 DEF SingleEverywhere, Single
    <3>2. CASE g = h
      BY <1>3, <1>5, <2>3, <3>1, <3>2 DEF Memory
    <3>3. CASE g # h
      BY <1>5, <2>1, <2>3, <3>3 DEF FileInv, SingleEverywhere
    <3> QED BY <3>2, <3>3
  <2>7. \A g \in Handlers : request'[g].at # "free"
    BY <1>5, <2>1 DEF FileInv
  <2> QED BY <2>4, <2>5, <2>6, <2>7 DEF FileInv
<1> QED BY <1>2, <1>5, <1>6 DEF BoardInv

\* The file is replaced by the copy, and only a request nobody overlapped clears
\* the mark.
LEMMA RenameKeeps == ASSUME BoardInv, NEW h \in Handlers, Rename(h) PROVE BoardInv'
<1> DEFINE st == request[h].store
<1>1. RequestTyped(request[h])
  BY AtStep DEF Rename, Steps
<1>2. /\ Finish(h) /\ request[h].at = "copied" /\ UNCHANGED <<backend, suppressed, tickets>>
      /\ saved' = [saved EXCEPT ![st] = request[h].copy]
      /\ blurred' = [blurred EXCEPT ![st] = @ /\ ~request[h].alone]
  BY DEF Rename, At
<1>3. st \in Stores /\ h \in Busy(st)
  BY <1>1 DEF RequestTyped, StoreOf, Stores, Busy, Steps, Idle
<1>4. /\ saved' = [s \in Stores |-> saved'[s]] /\ blurred' \in [Stores -> BOOLEAN]
      /\ saved'[st] = request[h].copy
      /\ \A s \in Stores : s # st => saved'[s] = saved[s] /\ (blurred'[s] <=> blurred[s])
      /\ blurred'[st] <=> (blurred[st] /\ ~request[h].alone)
  <2>1. DOMAIN saved = Stores /\ blurred \in [Stores -> BOOLEAN] /\ request[h].alone \in BOOLEAN
    BY <1>1 DEF BoardInv, BoardTyped, RequestTyped
  <2>2. blurred' = [blurred EXCEPT ![st] = blurred[st] /\ ~request[h].alone]
    BY <1>2
  <2> HIDE DEF st
  <2> QED BY <1>2, <1>3, <2>1, <2>2
<1>5. \A s \in Stores : blurred[s] => blurred'[s] \/ (s = st /\ request[h].alone)
  BY <1>4
<1>6. /\ BoardTyped' /\ OverlapIsSeen'
      /\ \A s : Busy(s)' = Busy(s) \ {h}
      /\ \A g \in Handlers : g # h => request'[g] = request[g]
      /\ request'[h] = Idle
  BY <1>1, <1>2, <1>4, <1>5, FinishKeeps
<1>7. ASSUME backend = "file" PROVE FileInv'
  <2>1. FileInv
    BY <1>7 DEF BoardInv
  <2>2. \A s \in Stores :
          ~blurred'[s] /\ (\A g \in Busy(s) : g # h => request[g].at = "begun") => saved'[s] = Memory(s)
    <3> SUFFICES ASSUME NEW s \in Stores, ~blurred'[s], \A g \in Busy(s) : g # h => request[g].at = "begun"
                 PROVE  saved'[s] = Memory(s)
      OBVIOUS
    <3>1. CASE s = st
      <4>1. request[h].alone
        <5>1. CASE blurred[st]
          BY <1>4, <3>1, <5>1
        <5>2. CASE ~blurred[st]
          BY <1>3, <5>2 DEF BoardInv, OverlapIsSeen
        <5> QED BY <5>1, <5>2
      <4> QED BY <1>2, <1>3, <1>4, <2>1, <3>1, <4>1 DEF FileInv, CopyIsCurrent
    <3>2. CASE s # st
      <4>1. h \notin Busy(s)
        BY <3>2 DEF Busy
      <4> QED BY <1>4, <2>1, <3>2, <4>1 DEF FileInv, FileIsCurrent
    <3> QED BY <3>1, <3>2
  <2>3. Single(saved'["tickets"])
    <3>1. CASE st = "tickets"
      BY <1>2, <1>3, <1>4, <2>1, <3>1 DEF FileInv, SingleEverywhere
    <3>2. CASE st # "tickets"
      <4>1. "tickets" \in Stores
        BY DEF Stores
      <4> QED BY <1>4, <2>1, <3>2, <4>1 DEF FileInv, SingleEverywhere
    <3> QED BY <3>1, <3>2
  <2> QED BY <1>1, <1>2, <1>6, <1>7, <2>2, <2>3, EndedKeepsFile
<1> QED BY <1>2, <1>6, <1>7 DEF BoardInv

\* A write that fails marks the file, and memory keeps the change.
LEMMA WriteFailsKeeps == ASSUME BoardInv, NEW h \in Handlers, WriteFails(h) PROVE BoardInv'
<1> DEFINE st == request[h].store
<1>1. RequestTyped(request[h])
  BY AtStep DEF WriteFails, Steps
<1>2. /\ Finish(h) /\ UNCHANGED <<backend, suppressed, tickets, saved>>
      /\ blurred' = [blurred EXCEPT ![st] = TRUE]
  BY DEF WriteFails
<1>3. st \in Stores
  BY <1>1 DEF RequestTyped, StoreOf, Stores
<1>4. /\ saved' = [s \in Stores |-> saved'[s]] /\ blurred' \in [Stores -> BOOLEAN]
      /\ blurred'[st] /\ \A s \in Stores : s # st => (blurred'[s] <=> blurred[s])
  BY <1>2, <1>3 DEF BoardInv, BoardTyped
<1>5. \A s \in Stores : blurred[s] => blurred'[s] \/ (s = st /\ request[h].alone)
  BY <1>4
<1>6. /\ BoardTyped' /\ OverlapIsSeen'
      /\ \A s : Busy(s)' = Busy(s) \ {h}
      /\ \A g \in Handlers : g # h => request'[g] = request[g]
      /\ request'[h] = Idle
  BY <1>1, <1>2, <1>4, <1>5, FinishKeeps
<1>7. ASSUME backend = "file" PROVE FileInv'
  <2>1. FileInv
    BY <1>7 DEF BoardInv
  <2>2. \A s \in Stores :
          ~blurred'[s] /\ (\A g \in Busy(s) : g # h => request[g].at = "begun") => saved'[s] = Memory(s)
    <3> SUFFICES ASSUME NEW s \in Stores, ~blurred'[s], \A g \in Busy(s) : g # h => request[g].at = "begun"
                 PROVE  saved[s] = Memory(s)
      BY <1>2
    <3>1. s # st
      BY <1>4
    <3>2. h \notin Busy(s)
      BY <3>1 DEF Busy
    <3> QED BY <1>4, <2>1, <3>1, <3>2 DEF FileInv, FileIsCurrent
  <2>3. Single(saved'["tickets"])
    BY <1>2, <2>1 DEF FileInv, SingleEverywhere
  <2> QED BY <1>1, <1>2, <1>6, <1>7, <2>2, <2>3, EndedKeepsFile
<1> QED BY <1>2, <1>6, <1>7 DEF BoardInv

\* A replica starts from its files, and nobody is at work.
LEMMA RestartKeepsBoard == ASSUME BoardInv, Restart PROVE BoardInv'
<1>1. /\ request' = [h \in Handlers |-> Idle] /\ blurred' = [s \in Stores |-> FALSE]
      /\ UNCHANGED <<backend, saved>>
  BY DEF Restart
<1>2. \A h \in Handlers : request'[h] = Idle
  BY <1>1
<1>3. \A s : Busy(s)' = {}
  BY <1>2 DEF Busy
<1>4. BoardTyped' /\ OverlapIsSeen'
  BY <1>1, <1>2, <1>3 DEF BoardInv, BoardTyped, OverlapIsSeen
<1>5. ASSUME backend = "file" PROVE FileInv'
  <2>1. FileInv /\ suppressed' = saved["suppressions"] /\ tickets' = saved["tickets"]
    BY <1>5 DEF BoardInv, Restart
  <2>2. \A s \in Stores : Memory(s)' = saved[s]
    BY <2>1 DEF Memory, Stores
  <2>3. CopyIsCurrent' /\ FileIsCurrent'
    BY <1>1, <1>3, <2>2 DEF CopyIsCurrent, FileIsCurrent
  <2>4. Single(tickets') /\ Single(saved'["tickets"])
    BY <1>1, <2>1 DEF FileInv, SingleEverywhere
  <2>5. SingleEverywhere'
    BY <1>3, <2>4 DEF SingleEverywhere, Single
  <2> QED BY <1>2, <2>3, <2>5 DEF FileInv, Idle
<1> QED BY <1>1, <1>4, <1>5 DEF BoardInv

\* A step that leaves the board alone.
LEMMA UntouchedBoard ==
  ASSUME BoardInv, UNCHANGED <<backend, suppressed, tickets, saved, request, blurred>>
  PROVE  BoardInv'
<1>1. \A s : Busy(s)' = Busy(s) /\ Memory(s)' = Memory(s)
  BY DEF Busy, Memory
<1>2. BoardTyped' /\ OverlapIsSeen'
  BY <1>1 DEF BoardInv, BoardTyped, OverlapIsSeen, RequestTyped
<1>3. backend = "file" => FileInv'
  BY <1>1 DEF BoardInv, FileInv, CopyIsCurrent, FileIsCurrent, SingleEverywhere, Single
<1> QED BY <1>2, <1>3 DEF BoardInv

\* Every step keeps the invariant of the board.
LEMMA StepKeepsBoard == BoardInv /\ [BoardNext]_boardVars => BoardInv'
<1> SUFFICES ASSUME BoardInv, [BoardNext]_boardVars PROVE BoardInv'
  OBVIOUS
<1>1. ASSUME NEW h \in Handlers, NEW scoped, NEW p, NEW until, PutSuppression(h, scoped, p, until)
      PROVE  BoardInv'
  <2>1. Begin(h, "put", StoreOf("put"), p, 0, until)
    BY <1>1 DEF PutSuppression, StoreOf
  <2> QED BY <2>1, BeginKeepsBoard
<1>2. ASSUME NEW h \in Handlers, NEW scoped, NEW p, DeleteSuppression(h, scoped, p) PROVE BoardInv'
  <2>1. Begin(h, "delete", StoreOf("delete"), p, 0, Never)
    BY <1>2 DEF DeleteSuppression, StoreOf
  <2> QED BY <2>1, BeginKeepsBoard
<1>3. ASSUME NEW h \in Handlers, NEW scoped, NEW p, CreateTicket(h, scoped, p) PROVE BoardInv'
  <2>1. Begin(h, "create", StoreOf("create"), p, 0, Never)
    BY <1>3 DEF CreateTicket, StoreOf
  <2> QED BY <2>1, BeginKeepsBoard
<1>4. ASSUME NEW h \in Handlers, NEW scoped, NEW t, CloseTicket(h, scoped, t) PROVE BoardInv'
  <2>1. Begin(h, "close", StoreOf("close"), tickets[t].path, t, Never)
    BY <1>4 DEF CloseTicket, StoreOf
  <2> QED BY <2>1, BeginKeepsBoard
<1>5. ASSUME NEW h \in Handlers,
             \/ StoreSuppression(h) \/ FindOpen(h) \/ OpenTicket(h) \/ ExistingReturned(h)
             \/ DispatchTicket(h) \/ MarkClosed(h)
             \/ Snapshot(h) \/ Rename(h) \/ WriteFails(h)
      PROVE  BoardInv'
  BY <1>5, StoreSuppressionKeeps, FindOpenKeeps, OpenTicketKeeps, ExistingReturnedKeeps,
     DispatchTicketKeeps, MarkClosedKeeps, SnapshotKeeps, RenameKeeps, WriteFailsKeeps
<1>6. CASE Restart
  BY <1>6, RestartKeepsBoard
<1>7. CASE NextDay
  BY <1>7, UntouchedBoard DEF NextDay
<1>8. CASE UNCHANGED boardVars
  BY <1>8, UntouchedBoard DEF boardVars
<1> QED BY <1>1, <1>2, <1>3, <1>4, <1>5, <1>6, <1>7, <1>8 DEF BoardNext

\* At most one open ticket, when no two of a path are open.
LEMMA SingleIsOne ==
  ASSUME NEW all, Single(all), NEW p
  PROVE  Cardinality(OpenForPath(all, p)) <= 1
<1>1. CASE OpenForPath(all, p) = {}
  BY <1>1, FS_EmptySet
<1>2. CASE OpenForPath(all, p) # {}
  <2>1. PICK t : t \in OpenForPath(all, p)
    BY <1>2
  <2>2. OpenForPath(all, p) = {t}
    BY <2>1 DEF OpenForPath, Single
  <2>3. Cardinality({t}) = 1
    BY FS_Singleton
  <2> QED BY <2>2, <2>3
<1> QED BY <1>1, <1>2

\* The invariant of the board, always.
LEMMA BoardIsKept == BoardInv => BoardHolds
<1> SUFFICES ASSUME BoardInv PROVE BoardHolds
  OBVIOUS
<1>1. ASSUME backend = "file", NEW s \in Stores, Busy(s) = {}, ~blurred[s] PROVE saved[s] = Memory(s)
  BY <1>1 DEF BoardInv, FileInv, FileIsCurrent
<1>2. RestartKeepsTheBoard
  BY <1>1 DEF RestartKeepsTheBoard, Memory, Stores
<1>3. OneTicketPerPath
  BY SingleIsOne DEF OneTicketPerPath, BoardInv, FileInv, SingleEverywhere
<1> QED BY <1>2, <1>3 DEF BoardHolds

\* What the team decided is kept, and once, however requests overlap, writes fail and
\* the replica restarts (suppress.Store, ticket.Store).
THEOREM DecisionsAreKept == BoardSpec => []BoardHolds
<1> QED BY BoardInitially, StepKeepsBoard, BoardIsKept, PTL DEF BoardSpec

---------------------------------------------------------------------------
(***************************************************************************)
(* What the history says of a path and of a date is what was observed, on  *)
(* every replica and in the table: a path keeps the date it was first seen *)
(* at and the count of its reopenings, and each series its newest points in *)
(* order.                                                                  *)
(***************************************************************************)

Values == {Cardinality(open) : open \in SUBSET PathIds} \cup 0..1
Points == Seq([at : Nat, value : Values])
\* An open path is not resolved.
RecordTyped(r) ==
  /\ r = [first |-> r.first, last |-> r.last, open |-> r.open, resolved |-> r.resolved, reopens |-> r.reopens]
  /\ r.open \in BOOLEAN /\ r.reopens \in Nat
  /\ r.open => r.resolved = NotResolved

PathsTyped(all) ==
  /\ all = [p \in DOMAIN all |-> all[p]]
  /\ \A p \in DOMAIN all : RecordTyped(all[p])

MemoryShape(m) == m = [paths |-> m.paths, posture |-> m.posture, calibration |-> m.calibration]

\* The points stand in the order of their dates, and none is of the future.
Ordered(s, now) ==
  /\ \A i \in 1..Len(s) : s[i].at <= now
  /\ \A i, j \in 1..Len(s) : i < j => s[i].at < s[j].at

Spaced(s) == \A i \in 2..Len(s) : s[i].at - s[i-1].at >= SampleEvery

SameDates(s, u) == Len(s) = Len(u) /\ \A i \in 1..Len(s) : s[i].at = u[i].at

Covers(s, times) == \A t \in times :
  \/ \E i \in 1..Len(s) : s[i].at <= t /\ t < s[i].at + SampleEvery
  \/ Len(s) = MaxPoints /\ t < s[1].at

SeriesTyped(m, now) ==
  /\ m.posture \in Points /\ Ordered(m.posture, now) /\ Spaced(m.posture)
  /\ m.calibration \in Points /\ Ordered(m.calibration, now)

Short(m) == Len(m.posture) <= MaxPoints /\ Len(m.calibration) <= MaxPoints

HistoryTyped ==
  /\ tick \in Nat \ {0} /\ lostWrites \in BOOLEAN /\ restarted \in BOOLEAN
  /\ \A t \in sampledAt : t \in Nat
  /\ MemoryShape(remembered) /\ MemoryShape(historyFile) /\ MemoryShape(historyRows)
  /\ PathsTyped(remembered.paths) /\ PathsTyped(historyFile.paths)
  /\ SeriesTyped(remembered, tick) /\ SeriesTyped(historyFile, tick) /\ SeriesTyped(historyRows, tick)
  /\ Short(remembered) /\ Short(historyFile)

\* Two stores that hold the same paths, and points of the same dates.
Alike(m, n) ==
  /\ m.paths = n.paths
  /\ SameDates(m.posture, n.posture)
  /\ SameDates(m.calibration, n.calibration)

HistoryInv ==
  /\ HistoryTyped
  /\ ~lostWrites =>
       /\ Alike(remembered, historyFile)
       /\ Alike(remembered, historyRows)
       /\ ~restarted => remembered = historyRows
       /\ Covers(remembered.posture, sampledAt)

---------------------------------------------------------------------------
\* A point of a series, by its place.
LEMMA PointOf ==
  ASSUME NEW s \in Points, NEW i \in 1..Len(s)
  PROVE  s[i] \in [at : Nat, value : Values] /\ s[i].at \in Nat
<1>1. s[i] \in [at : Nat, value : Values]
  BY ElementOfSeq DEF Points
<1> QED BY <1>1

\* Whether a series is in its window is a matter of its dates.
LEMMA WindowOfDates ==
  ASSUME NEW s \in Points, NEW u \in Points, SameDates(s, u)
  PROVE  InWindow(s) <=> InWindow(u)
BY DEF Points, SameDates, InWindow

\* Writing over the newest point keeps the dates.
LEMMA Refreshing ==
  ASSUME NEW s \in Points, NEW v \in Values, Len(s) > 0
  PROVE  /\ Refreshed(s, v) \in Points
         /\ SameDates(s, Refreshed(s, v))
<1>1. Len(s) \in 1..Len(s)
  BY DEF Points
<1>2. s[Len(s)] \in [at : Nat, value : Values]
  BY <1>1, PointOf
<1>3. [s[Len(s)] EXCEPT !.value = v] \in [at : Nat, value : Values] /\ [s[Len(s)] EXCEPT !.value = v].at = s[Len(s)].at
  BY <1>2
<1> DEFINE r == [s[Len(s)] EXCEPT !.value = v]
<1>4. Refreshed(s, v) = [s EXCEPT ![Len(s)] = r]
  BY <1>1 DEF Refreshed, Points
<1>5. [s EXCEPT ![Len(s)] = r] \in Points /\ Len([s EXCEPT ![Len(s)] = r]) = Len(s)
  BY <1>1, <1>3 DEF Points
<1> QED
  BY <1>1, <1>2, <1>3, <1>4, <1>5 DEF SameDates, Points

\* What holds of the dates of a series holds of one with the same dates.
LEMMA DatesKeep ==
  ASSUME NEW s \in Points, NEW u \in Points, NEW now \in Nat, SameDates(s, u)
  PROVE  /\ SameDates(u, s)
         /\ Ordered(s, now) => Ordered(u, now)
         /\ Spaced(s) => Spaced(u)
         /\ \A times : Covers(s, times) => Covers(u, times)
<1>1. SameDates(u, s)
  BY DEF SameDates
<1>2. Ordered(s, now) => Ordered(u, now)
  BY DEF SameDates, Ordered
<1>3. Spaced(s) => Spaced(u)
  BY DEF SameDates, Spaced, Points
<1>4. ASSUME NEW times, Covers(s, times) PROVE Covers(u, times)
  <2> SUFFICES ASSUME NEW t \in times
      PROVE  \/ \E i \in 1..Len(u) : u[i].at <= t /\ t < u[i].at + SampleEvery
             \/ Len(u) = MaxPoints /\ t < u[1].at
    BY DEF Covers
  <2>1. CASE \E i \in 1..Len(s) : s[i].at <= t /\ t < s[i].at + SampleEvery
    BY <2>1 DEF SameDates
  <2>2. CASE Len(s) = MaxPoints /\ t < s[1].at
    <3>1. 1 \in 1..Len(s)
      BY <2>2, HistoryAssumption DEF HistoryAssumption
    <3> QED BY <2>2, <3>1 DEF SameDates
  <2> QED BY <1>4, <2>1, <2>2 DEF Covers
<1> QED BY <1>1, <1>2, <1>3, <1>4

\* Having the same dates carries over.
LEMMA DatesChain ==
  ASSUME NEW s, NEW u, NEW w, SameDates(s, u), SameDates(u, w)
  PROVE  SameDates(s, w)
BY DEF SameDates

\* A series without its oldest points.
LEMMA DroppingOldest ==
  ASSUME NEW s \in Points, NEW k \in Nat, k <= Len(s)
  PROVE  LET n == SubSeq(s, k + 1, Len(s)) IN
         /\ n \in Points
         /\ Len(n) = Len(s) - k
         /\ \A i \in 1..Len(n) : n[i] = s[k + i]
<1>0. Len(s) \in Nat
  BY DEF Points
<1>1. \A i \in (k + 1)..Len(s) : s[i] \in [at : Nat, value : Values]
  BY <1>0, PointOf
<1>2. /\ SubSeq(s, k + 1, Len(s)) \in Seq([at : Nat, value : Values])
      /\ Len(SubSeq(s, k + 1, Len(s))) = IF k + 1 <= Len(s) THEN Len(s) - (k + 1) + 1 ELSE 0
      /\ \A i \in 1..(Len(s) - (k + 1) + 1) : SubSeq(s, k + 1, Len(s))[i] = s[(k + 1) + i - 1]
  <2> DEFINE m == k + 1
             T == [at : Nat, value : Values]
  <2>1. m \in Int /\ Len(s) \in Int /\ \A i \in m..Len(s) : s[i] \in T
    BY <1>0, <1>1
  <2> HIDE DEF m, T
  <2>2. /\ SubSeq(s, m, Len(s)) \in Seq(T)
        /\ Len(SubSeq(s, m, Len(s))) = IF m <= Len(s) THEN Len(s) - m + 1 ELSE 0
        /\ \A i \in 1..(Len(s) - m + 1) : SubSeq(s, m, Len(s))[i] = s[m + i - 1]
    BY <2>1, SubSeqProperties
  <2> QED BY <2>2 DEF m, T
<1>3. Len(SubSeq(s, k + 1, Len(s))) = Len(s) - k
  BY <1>0, <1>2
<1>4. \A i \in 1..(Len(s) - k) : s[(k + 1) + i - 1] = s[k + i]
  BY <1>0
<1> QED BY <1>0, <1>2, <1>3, <1>4 DEF Points

\* What trim leaves in a table are the newest points.
LEMMA TrimKeepsNewest ==
  ASSUME NEW s \in Points, NEW now \in Nat, Ordered(s, now)
  PROVE  Trimmed(s) = Newest(s)
<1> USE HistoryAssumption DEF HistoryAssumption
<1>1. CASE Len(s) < MaxPoints
  BY <1>1 DEF Trimmed, Newest, Points
<1>2. CASE Len(s) >= MaxPoints
  <2>0. Len(s) \in Nat /\ Len(s) - MaxPoints \in Nat
    BY <1>2 DEF Points
  <2>1. PICK n : n = Len(s) - MaxPoints
    OBVIOUS
  <2>2. n \in Nat /\ n + 1 \in 1..Len(s)
    BY <2>0, <2>1
  <2>3. Older(s) = 1..n
    <3>1. \A i \in 1..Len(s) : s[i].at < s[n+1].at <=> i \in 1..n
      <4> TAKE i \in 1..Len(s)
      <4>1. s[i].at \in Nat /\ s[n+1].at \in Nat
        BY <2>2, PointOf
      <4>2. CASE i < n + 1
        BY <4>2, <2>2 DEF Ordered
      <4>3. CASE i = n + 1
        BY <4>3, <4>1, <2>2
      <4>4. CASE i > n + 1
        <5>1. s[n+1].at < s[i].at
          BY <4>4, <2>2 DEF Ordered
        <5> QED BY <5>1, <4>1, <4>4, <2>2
      <4> QED BY <4>2, <4>3, <4>4, <2>2
    <3>2. 1..n \subseteq 1..Len(s)
      BY <2>0, <2>1
    <3> QED BY <3>1, <3>2, <2>1 DEF Older, Oldest
  <2>4. Cardinality(Older(s)) = n
    BY <2>2, <2>3, FS_Interval
  <2>5. Trimmed(s) = SubSeq(s, n + 1, Len(s))
    <3>1. ~(Len(s) < MaxPoints)
      BY <1>2, <2>0
    <3> QED BY <2>4, <3>1 DEF Trimmed
  <2>6. CASE n = 0
    <3>1. SubSeq(s, 1, Len(s)) = s
      BY DEF Points
    <3> QED BY <3>1, <2>5, <2>6, <2>0, <2>1 DEF Newest
  <2>7. CASE n > 0
    BY <2>5, <2>7, <2>0, <2>1 DEF Newest
  <2> QED BY <2>2, <2>6, <2>7
<1> QED BY <1>1, <1>2 DEF Points

\* A point in a series: in the window of the last one, or after it.
LEMMA Lengthens ==
  ASSUME NEW s \in Points, NEW v \in Values, tick \in Nat,
         Ordered(s, tick), ~InWindow(s)
  PROVE  LET a == Append(s, [at |-> tick, value |-> v]) IN
         /\ a \in Points /\ Len(a) = Len(s) + 1
         /\ \A i \in 1..Len(s) : a[i] = s[i]
         /\ a[Len(s) + 1].at = tick
         /\ Ordered(a, tick)
         /\ Spaced(s) => Spaced(a)
         /\ \A i \in 1..Len(s) : Spaced(s) => s[i].at + SampleEvery <= tick
<1> USE HistoryAssumption DEF HistoryAssumption
<1> DEFINE e == [at |-> tick, value |-> v]
           a == Append(s, e)
           T == [at : Nat, value : Values]
<1>0. Len(s) \in Nat /\ e \in T /\ s \in Seq(T) /\ e.at = tick
  BY DEF Points
<1>1. a \in Seq(T) /\ Len(a) = Len(s) + 1 /\ (\A i \in 1..Len(s) : a[i] = s[i]) /\ a[Len(s) + 1] = e
  <2> HIDE DEF e, T
  <2> QED BY <1>0, AppendProperties
<1>2. a[Len(s) + 1].at = tick
  BY <1>0, <1>1
<1>3. \A i \in 1..Len(s) : s[i].at \in Nat
  BY PointOf
<1>4. Len(s) > 0 => s[Len(s)].at + SampleEvery <= tick
  BY <1>0, <1>3 DEF InWindow
<1>6. ASSUME NEW i \in 1..Len(s) PROVE s[i].at + SampleEvery <= tick
  <2>1. Len(s) \in 1..Len(s) /\ s[i].at \in Nat /\ s[Len(s)].at \in Nat
    BY <1>0, <1>3
  <2>2. CASE i = Len(s)
    BY <2>1, <2>2, <1>4
  <2>3. CASE i < Len(s)
    <3>1. s[i].at < s[Len(s)].at
      BY <2>1, <2>3 DEF Ordered
    <3> QED BY <2>1, <3>1, <1>4
  <2> QED BY <2>1, <2>2, <2>3
<1>7. a \in Points
  BY <1>1 DEF Points
<1> HIDE DEF a
<1>8. Ordered(a, tick)
  <2>1. ASSUME NEW i \in 1..Len(a) PROVE a[i].at <= tick
    <3>1. CASE i \in 1..Len(s)
      BY <3>1, <1>1 DEF Ordered
    <3>2. CASE i = Len(s) + 1
      BY <3>2, <1>2
    <3> QED BY <3>1, <3>2, <1>0, <1>1
  <2>2. ASSUME NEW i \in 1..Len(a), NEW j \in 1..Len(a), i < j PROVE a[i].at < a[j].at
    <3>1. i \in 1..Len(s) /\ a[i] = s[i] /\ s[i].at + SampleEvery <= tick
      BY <2>2, <1>0, <1>1, <1>6
    <3>2. CASE j \in 1..Len(s)
      BY <2>2, <3>1, <3>2, <1>1 DEF Ordered
    <3>3. CASE j = Len(s) + 1
      BY <3>1, <3>3, <1>2, <1>3
    <3> QED BY <3>2, <3>3, <1>0, <1>1
  <2> QED BY <2>1, <2>2 DEF Ordered
<1>9. ASSUME Spaced(s) PROVE Spaced(a)
  <2> SUFFICES ASSUME NEW i \in 2..Len(a) PROVE a[i].at - a[i-1].at >= SampleEvery
    BY DEF Spaced
  <2>1. i - 1 \in 1..Len(s) /\ a[i-1] = s[i-1] /\ s[i-1].at \in Nat
    BY <1>0, <1>1, <1>3
  <2>2. CASE i \in 2..Len(s)
    BY <1>9, <2>1, <2>2, <1>1 DEF Spaced
  <2>3. CASE i = Len(s) + 1
    BY <2>1, <2>3, <1>2, <1>6
  <2> QED BY <2>2, <2>3, <1>0, <1>1
<1> QED BY <1>1, <1>2, <1>6, <1>7, <1>8, <1>9 DEF a

\* An insert of a later date keeps the order, in the window or out of it.
LEMMA LaterPoint ==
  ASSUME NEW s \in Points, NEW v \in Values, tick \in Nat,
         Ordered(s, tick), ~(Len(s) > 0 /\ s[Len(s)].at = tick)
  PROVE  /\ Append(s, [at |-> tick, value |-> v]) \in Points
         /\ Ordered(Append(s, [at |-> tick, value |-> v]), tick)
<1> DEFINE e == [at |-> tick, value |-> v]
           a == Append(s, e)
           T == [at : Nat, value : Values]
<1>0. Len(s) \in Nat /\ e \in T /\ s \in Seq(T) /\ e.at = tick
  BY DEF Points
<1>1. a \in Seq(T) /\ Len(a) = Len(s) + 1 /\ (\A i \in 1..Len(s) : a[i] = s[i]) /\ a[Len(s) + 1] = e
  <2> HIDE DEF e, T
  <2> QED BY <1>0, AppendProperties
<1>2. a[Len(s) + 1].at = tick
  BY <1>0, <1>1
<1>3. a \in Points
  BY <1>1 DEF Points
<1>4. ASSUME NEW i \in 1..Len(s) PROVE s[i].at < tick
  <2>1. Len(s) \in 1..Len(s) /\ s[i].at \in Nat /\ s[Len(s)].at \in Nat
    BY <1>0, PointOf
  <2>2. s[Len(s)].at < tick
    BY <2>1, <1>0 DEF Ordered
  <2>3. CASE i = Len(s)
    BY <2>2, <2>3
  <2>4. CASE i < Len(s)
    <3>1. s[i].at < s[Len(s)].at
      BY <2>1, <2>4 DEF Ordered
    <3> QED BY <2>1, <2>2, <3>1
  <2> QED BY <2>1, <2>3, <2>4
<1> HIDE DEF a
<1>5. ASSUME NEW i \in 1..Len(a) PROVE a[i].at <= tick
  <2>1. CASE i \in 1..Len(s)
    BY <2>1, <1>1 DEF Ordered
  <2>2. CASE i = Len(s) + 1
    BY <2>2, <1>2
  <2> QED BY <2>1, <2>2, <1>0, <1>1
<1>6. ASSUME NEW i \in 1..Len(a), NEW j \in 1..Len(a), i < j PROVE a[i].at < a[j].at
  <2>1. i \in 1..Len(s) /\ a[i] = s[i]
    BY <1>6, <1>0, <1>1
  <2>2. CASE j \in 1..Len(s)
    BY <1>6, <2>1, <2>2, <1>1 DEF Ordered
  <2>3. CASE j = Len(s) + 1
    BY <2>1, <2>3, <1>2, <1>4
  <2> QED BY <2>2, <2>3, <1>0, <1>1
<1>7. Ordered(a, tick)
  BY <1>5, <1>6 DEF Ordered
<1> QED BY <1>3, <1>7 DEF a

\* The newest points of a series in order.
LEMMA KeepingNewest ==
  ASSUME NEW s \in Points, NEW now \in Nat, Ordered(s, now)
  PROVE  /\ Newest(s) \in Points /\ Ordered(Newest(s), now)
         /\ Len(Newest(s)) <= MaxPoints
         /\ Spaced(s) => Spaced(Newest(s))
         /\ \A u \in Points : SameDates(s, u) => SameDates(Newest(s), Newest(u))
<1> USE HistoryAssumption DEF HistoryAssumption
<1>0. Len(s) \in Nat
  BY DEF Points
<1>1. CASE Len(s) <= MaxPoints
  <2>1. Newest(s) = s
    BY <1>0, <1>1 DEF Newest
  <2>2. ASSUME NEW u \in Points, SameDates(s, u) PROVE Newest(u) = u
    BY <1>0, <1>1, <2>2 DEF Newest, SameDates
  <2> QED BY <2>1, <2>2, <1>1
<1>2. CASE Len(s) > MaxPoints
  <2>0. Len(s) - MaxPoints \in Nat
    BY <1>0, <1>2
  <2>1. PICK k \in Nat : k = Len(s) - MaxPoints
    BY <2>0
  <2>2. k <= Len(s) /\ k + 1 = Len(s) - MaxPoints + 1 /\ Len(s) - k = MaxPoints
    BY <1>0, <2>1
  <2>3. PICK n : n = SubSeq(s, k + 1, Len(s))
    OBVIOUS
  <2>4. n \in Points /\ Len(n) = MaxPoints /\ \A i \in 1..Len(n) : n[i] = s[k + i]
    BY <2>2, <2>3, DroppingOldest
  <2>5. Newest(s) = n
    BY <2>2, <2>3, <1>2 DEF Newest
  <2>6. \A i \in 1..Len(n) : k + i \in 1..Len(s)
    BY <2>2, <2>4, <1>0
  <2>7. Ordered(n, now)
    <3>1. \A i \in 1..Len(n) : n[i].at <= now
      BY <2>4, <2>6 DEF Ordered
    <3>2. ASSUME NEW i \in 1..Len(n), NEW j \in 1..Len(n), i < j PROVE n[i].at < n[j].at
      <4>1. k + i \in 1..Len(s) /\ k + j \in 1..Len(s) /\ k + i < k + j
        BY <2>6, <3>2
      <4> QED BY <4>1, <2>4 DEF Ordered
    <3> QED BY <3>1, <3>2 DEF Ordered
  <2>8. ASSUME Spaced(s) PROVE Spaced(n)
    <3> SUFFICES ASSUME NEW i \in 2..Len(n) PROVE n[i].at - n[i-1].at >= SampleEvery
      BY DEF Spaced
    <3>1. i \in 1..Len(n) /\ i - 1 \in 1..Len(n) /\ k + (i - 1) = (k + i) - 1 /\ k + i \in 2..Len(s)
      BY <2>2, <2>4, <1>0
    <3>2. n[i] = s[k + i] /\ n[i-1] = s[(k + i) - 1]
      BY <3>1, <2>4
    <3> QED BY <2>8, <3>1, <3>2 DEF Spaced
  <2>9. ASSUME NEW u \in Points, SameDates(s, u) PROVE SameDates(n, Newest(u))
    <3>1. PICK w : w = SubSeq(u, k + 1, Len(u))
      OBVIOUS
    <3>2. Len(u) = Len(s)
      BY <2>9 DEF SameDates
    <3>3. w \in Points /\ Len(w) = MaxPoints /\ \A i \in 1..Len(w) : w[i] = u[k + i]
      BY <2>2, <3>1, <3>2, DroppingOldest
    <3>4. Newest(u) = w
      BY <2>2, <3>1, <3>2, <1>2 DEF Newest
    <3>5. \A i \in 1..Len(n) : n[i].at = w[i].at
      BY <2>4, <2>6, <3>3, <2>9 DEF SameDates
    <3> QED BY <2>4, <3>3, <3>4, <3>5 DEF SameDates
  <2> QED BY <2>4, <2>5, <2>7, <2>8, <2>9
<1> QED BY <1>0, <1>1, <1>2

\* What a sample does to a series in memory.
LEMMA Sampling ==
  ASSUME NEW s \in Points, NEW v \in Values, tick \in Nat, Ordered(s, tick)
  PROVE  /\ AppendPosture(s, v) \in Points /\ Ordered(AppendPosture(s, v), tick)
         /\ Len(s) <= MaxPoints => Len(AppendPosture(s, v)) <= MaxPoints
         /\ Spaced(s) => Spaced(AppendPosture(s, v))
<1>1. CASE InWindow(s)
  <2>1. Len(s) > 0 /\ AppendPosture(s, v) = Refreshed(s, v)
    BY <1>1 DEF InWindow, AppendPosture
  <2>2. Refreshed(s, v) \in Points /\ SameDates(s, Refreshed(s, v))
    BY <2>1, Refreshing
  <2> QED BY <2>1, <2>2, DatesKeep DEF SameDates
<1>2. CASE ~InWindow(s)
  <2>1. PICK a : a = Append(s, [at |-> tick, value |-> v])
    OBVIOUS
  <2>2. a \in Points /\ Ordered(a, tick) /\ (Spaced(s) => Spaced(a))
    BY <1>2, <2>1, Lengthens
  <2>3. AppendPosture(s, v) = Newest(a)
    BY <1>2, <2>1 DEF AppendPosture
  <2> QED BY <2>2, <2>3, KeepingNewest
<1> QED BY <1>1, <1>2

\* Two series of the same dates stay so, whatever the values.
LEMMA SamplingAlike ==
  ASSUME NEW s \in Points, NEW u \in Points, NEW v \in Values, NEW w \in Values,
         tick \in Nat, Ordered(s, tick), Ordered(u, tick), SameDates(s, u)
  PROVE  SameDates(AppendPosture(s, v), AppendPosture(u, w))
<1>1. InWindow(s) <=> InWindow(u)
  BY WindowOfDates
<1>2. CASE InWindow(s)
  <2>1. AppendPosture(s, v) = Refreshed(s, v) /\ AppendPosture(u, w) = Refreshed(u, w) /\ Len(s) > 0 /\ Len(u) > 0
    BY <1>1, <1>2 DEF AppendPosture, InWindow
  <2>2. SameDates(s, Refreshed(s, v)) /\ SameDates(u, Refreshed(u, w))
    BY <2>1, Refreshing
  <2> QED BY <2>1, <2>2 DEF SameDates
<1>3. CASE ~InWindow(s)
  <2>1. PICK a : a = Append(s, [at |-> tick, value |-> v])
    OBVIOUS
  <2>2. PICK b : b = Append(u, [at |-> tick, value |-> w])
    OBVIOUS
  <2>3. a \in Points /\ Len(a) = Len(s) + 1 /\ a[Len(s) + 1].at = tick /\ Ordered(a, tick) /\ \A i \in 1..Len(s) : a[i] = s[i]
    BY <1>3, <2>1, Lengthens
  <2>4. b \in Points /\ Len(b) = Len(u) + 1 /\ b[Len(u) + 1].at = tick /\ Ordered(b, tick) /\ \A i \in 1..Len(u) : b[i] = u[i]
    BY <1>1, <1>3, <2>2, Lengthens
  <2>5. SameDates(a, b)
    <3>1. Len(s) = Len(u) /\ Len(a) = Len(b) /\ Len(s) \in Nat
      BY <2>3, <2>4 DEF SameDates, Points
    <3>2. ASSUME NEW i \in 1..Len(a) PROVE a[i].at = b[i].at
      <4>1. CASE i \in 1..Len(s)
        BY <4>1, <2>3, <2>4, <3>1 DEF SameDates
      <4>2. CASE i = Len(s) + 1
        BY <4>2, <2>3, <2>4, <3>1
      <4> QED BY <4>1, <4>2, <3>1, <2>3
    <3> QED BY <3>1, <3>2 DEF SameDates
  <2>6. AppendPosture(s, v) = Newest(a) /\ AppendPosture(u, w) = Newest(b)
    BY <1>1, <1>3, <2>1, <2>2 DEF AppendPosture
  <2> QED BY <2>3, <2>4, <2>5, <2>6, KeepingNewest
<1> QED BY <1>2, <1>3

\* Nothing sampled falls out of a series but for its age.
LEMMA SamplingCovers ==
  ASSUME NEW s \in Points, NEW v \in Values, NEW times, tick \in Nat, \A t \in times : t \in Nat,
         Ordered(s, tick), Spaced(s), Len(s) <= MaxPoints, Covers(s, times)
  PROVE  Covers(AppendPosture(s, v), times \cup {tick})
<1> USE HistoryAssumption DEF HistoryAssumption
<1>0. Len(s) \in Nat /\ \A i \in 1..Len(s) : s[i].at \in Nat
  <2>1. Len(s) \in Nat
    BY DEF Points
  <2> QED BY <2>1, PointOf
<1>1. CASE InWindow(s)
  <2>1. Len(s) > 0 /\ AppendPosture(s, v) = Refreshed(s, v) /\ tick < s[Len(s)].at + SampleEvery
    BY <1>0, <1>1 DEF InWindow, AppendPosture
  <2>2. Len(s) \in 1..Len(s)
    BY <1>0, <2>1
  <2>3. s[Len(s)].at <= tick
    BY <2>2 DEF Ordered
  <2>4. Covers(s, times \cup {tick})
    BY <2>1, <2>2, <2>3 DEF Covers
  <2>5. Refreshed(s, v) \in Points /\ SameDates(s, Refreshed(s, v))
    BY <2>1, Refreshing
  <2> QED BY <2>1, <2>4, <2>5, DatesKeep
<1>2. CASE ~InWindow(s)
  <2>1. PICK a : a = Append(s, [at |-> tick, value |-> v])
    OBVIOUS
  <2>2. /\ a \in Points /\ Len(a) = Len(s) + 1 /\ a[Len(s) + 1].at = tick
        /\ \A i \in 1..Len(s) : a[i] = s[i] /\ s[i].at + SampleEvery <= tick
    BY <1>2, <2>1, Lengthens
  <2>3. AppendPosture(s, v) = Newest(a)
    BY <1>2, <2>1 DEF AppendPosture
  <2>4. CASE Len(s) < MaxPoints
    <3>1. Newest(a) = a
      BY <2>2, <2>4, <1>0 DEF Newest
    <3>2. ASSUME NEW t \in times \cup {tick} PROVE \E i \in 1..Len(a) : a[i].at <= t /\ t < a[i].at + SampleEvery
      <4>1. CASE t = tick
        <5>1. Len(s) + 1 \in 1..Len(a) /\ a[Len(s) + 1].at <= t /\ t < a[Len(s) + 1].at + SampleEvery
          BY <4>1, <2>2, <1>0
        <5> QED BY <5>1
      <4>2. CASE t \in times
        <5>1. PICK i \in 1..Len(s) : s[i].at <= t /\ t < s[i].at + SampleEvery
          BY <4>2, <2>4 DEF Covers
        <5>2. i \in 1..Len(a) /\ a[i] = s[i]
          BY <2>2, <1>0
        <5> QED BY <5>1, <5>2
      <4> QED BY <3>2, <4>1, <4>2
    <3> QED BY <2>3, <3>1, <3>2 DEF Covers
  <2>5. CASE Len(s) = MaxPoints
    <3>1. PICK n : n = SubSeq(a, 1 + 1, Len(a))
      OBVIOUS
    <3>2. n \in Points /\ Len(n) = MaxPoints /\ \A i \in 1..Len(n) : n[i] = a[1 + i]
      BY <3>1, <2>2, <2>5, <1>0, DroppingOldest
    <3>3. Newest(a) = n
      <4>1. Len(a) > MaxPoints /\ Len(a) - MaxPoints + 1 = 1 + 1
        BY <2>2, <2>5, <1>0
      <4> QED BY <3>1, <4>1 DEF Newest
    <3>4. n[MaxPoints].at = tick /\ n[1].at \in Nat /\ MaxPoints \in 1..Len(n) /\ 1 \in 1..Len(n) /\ 1 \in 1..Len(s)
      <4>1. MaxPoints \in 1..Len(n) /\ 1 \in 1..Len(n) /\ 1 \in 1..Len(s) /\ 1 + MaxPoints = Len(s) + 1
        BY <3>2, <2>5
      <4>2. n[MaxPoints] = a[Len(s) + 1]
        BY <4>1, <3>2
      <4> QED BY <4>1, <4>2, <2>2, <3>2, PointOf
    <3>5. s[1].at + SampleEvery <= n[1].at
      <4>1. n[1] = a[2]
        BY <3>2, <3>4
      <4>2. CASE MaxPoints = 1
        BY <4>2, <3>4, <2>2
      <4>3. CASE MaxPoints > 1
        <5>1. 2 \in 2..Len(s) /\ 2 \in 1..Len(s) /\ 2 - 1 = 1
          BY <4>3, <2>5
        <5>2. s[2].at - s[1].at >= SampleEvery
          BY <5>1 DEF Spaced
        <5>3. a[2] = s[2] /\ s[2].at \in Nat /\ s[1].at \in Nat
          BY <5>1, <3>4, <2>2, <1>0
        <5> QED BY <4>1, <5>2, <5>3
      <4> QED BY <4>2, <4>3
    <3>6. ASSUME NEW t \in times \cup {tick}
          PROVE  \/ \E i \in 1..Len(n) : n[i].at <= t /\ t < n[i].at + SampleEvery
                 \/ t < n[1].at
      <4>1. CASE t = tick
        <5>1. n[MaxPoints].at <= t /\ t < n[MaxPoints].at + SampleEvery
          BY <4>1, <3>4
        <5> QED BY <5>1, <3>4
      <4>2. CASE t \in times
        <5>0. t \in Nat /\ s[1].at \in Nat
          BY <4>2, <1>0, <3>4
        <5>1. CASE t < s[1].at
          BY <5>0, <5>1, <3>4, <3>5
        <5>2. CASE \E i \in 1..Len(s) : s[i].at <= t /\ t < s[i].at + SampleEvery
          <6>1. PICK i \in 1..Len(s) : s[i].at <= t /\ t < s[i].at + SampleEvery
            BY <5>2
          <6>2. CASE i = 1
            BY <6>1, <6>2, <5>0, <3>4, <3>5
          <6>3. CASE i > 1
            <7>1. i - 1 \in 1..Len(n) /\ 1 + (i - 1) = i
              BY <6>3, <3>2, <2>5
            <7>2. n[i - 1] = s[i]
              BY <7>1, <3>2, <2>2
            <7> QED BY <6>1, <7>1, <7>2
          <6> QED BY <6>2, <6>3, <1>0
        <5> QED BY <4>2, <5>1, <5>2 DEF Covers
      <4> QED BY <3>6, <4>1, <4>2
    <3> QED BY <2>3, <3>2, <3>3, <3>6 DEF Covers
  <2> QED BY <2>4, <2>5, <1>0
<1> QED BY <1>1, <1>2

\* The shared table, when nothing fails, does what memory does.
LEMMA TablesSample ==
  ASSUME NEW s \in Points, NEW v \in Values, NEW series \in Series, tick \in Nat, Ordered(s, tick)
  PROVE  Sampled(series, s, v, "none") = AppendPosture(s, v)
<1> USE HistoryAssumption DEF HistoryAssumption
<1>1. CASE InWindow(s)
  BY <1>1 DEF Sampled, AppendPosture
<1>2. CASE ~InWindow(s)
  <2>1. ~(Len(s) > 0 /\ s[Len(s)].at = tick)
    BY <1>2 DEF InWindow
  <2>2. PICK a : a = Append(s, [at |-> tick, value |-> v])
    OBVIOUS
  <2>3. Inserted(series, s, v) = a
    BY <2>1, <2>2 DEF Inserted
  <2>4. a \in Points /\ Ordered(a, tick)
    BY <1>2, <2>2, Lengthens
  <2>5. Trimmed(a) = Newest(a)
    BY <2>4, TrimKeepsNewest
  <2> QED BY <1>2, <2>2, <2>3, <2>5 DEF Sampled, AppendPosture
<1> QED BY <1>1, <1>2

\* Whatever fails, the table's points stay in order, and the posture's apart.
LEMMA TablesStayOrdered ==
  ASSUME NEW s \in Points, NEW v \in Values, NEW series \in Series, NEW fails \in Failures,
         tick \in Nat, Ordered(s, tick)
  PROVE  /\ Sampled(series, s, v, fails) \in Points /\ Ordered(Sampled(series, s, v, fails), tick)
         /\ (series = "posture" /\ Spaced(s)) => Spaced(Sampled(series, s, v, fails))
<1> USE HistoryAssumption DEF HistoryAssumption
<1>0. ASSUME Len(s) > 0
      PROVE  Refreshed(s, v) \in Points /\ Ordered(Refreshed(s, v), tick) /\ (Spaced(s) => Spaced(Refreshed(s, v)))
  <2>1. Refreshed(s, v) \in Points /\ SameDates(s, Refreshed(s, v))
    BY <1>0, Refreshing
  <2> QED BY <2>1, DatesKeep
<1>1. ASSUME NEW a \in Points, Ordered(a, tick)
      PROVE  Trimmed(a) \in Points /\ Ordered(Trimmed(a), tick) /\ (Spaced(a) => Spaced(Trimmed(a)))
  BY <1>1, TrimKeepsNewest, KeepingNewest
<1>2. CASE InWindow(s) /\ fails # "read"
  <2>1. Len(s) > 0
    BY <1>2 DEF InWindow
  <2>2. Sampled(series, s, v, fails) = s \/ Sampled(series, s, v, fails) = Refreshed(s, v)
    BY <1>2 DEF Sampled
  <2> QED BY <1>0, <2>1, <2>2
<1>3. CASE fails = "read" /\ series = "posture"
  BY <1>3 DEF Sampled
<1>4. CASE ~InWindow(s) \/ (fails = "read" /\ series # "posture")
  <2> DEFINE n == Inserted(series, s, v)
  <2>1. n \in Points /\ Ordered(n, tick) /\ ((series = "posture" /\ Spaced(s)) => Spaced(n))
    <3>1. CASE Len(s) > 0 /\ s[Len(s)].at = tick
      <4>1. n = s \/ n = Refreshed(s, v)
        BY <3>1 DEF Inserted
      <4> QED BY <1>0, <3>1, <4>1
    <3>2. CASE ~(Len(s) > 0 /\ s[Len(s)].at = tick) /\ ~InWindow(s)
      <4>1. n = Append(s, [at |-> tick, value |-> v])
        BY <3>2 DEF Inserted
      <4> QED BY <4>1, <3>2, Lengthens
    <3>3. CASE ~(Len(s) > 0 /\ s[Len(s)].at = tick) /\ series # "posture"
      <4>1. n = Append(s, [at |-> tick, value |-> v])
        BY <3>3 DEF Inserted
      <4>2. n \in Points /\ Ordered(n, tick)
        BY <4>1, <3>3, LaterPoint
      <4> QED BY <4>2, <3>3
    <3> QED BY <1>4, <3>1, <3>2, <3>3
  <2> HIDE DEF n
  <2>2. Trimmed(n) \in Points /\ Ordered(Trimmed(n), tick) /\ ((series = "posture" /\ Spaced(s)) => Spaced(Trimmed(n)))
    BY <1>1, <2>1
  <2>3. Sampled(series, s, v, fails) \in {s, n, Trimmed(n)}
    BY <1>4 DEF Sampled, n
  <2> QED BY <2>1, <2>2, <2>3
<1> QED BY <1>2, <1>3, <1>4

---------------------------------------------------------------------------
\* A path seen open has a record of its own.
LEMMA OpeningTyped ==
  ASSUME NEW first, NEW reopens \in Nat
  PROVE  RecordTyped(Opening(first, reopens))
BY DEF RecordTyped, Opening

\* A record whose date alone moves keeps the rest.
LEMMA Dated ==
  ASSUME NEW r, NEW u,
         r = [first |-> r.first, last |-> r.last, open |-> r.open, resolved |-> r.resolved, reopens |-> r.reopens]
  PROVE  [r EXCEPT !.last = u] = [first |-> r.first, last |-> u, open |-> r.open, resolved |-> r.resolved, reopens |-> r.reopens]
OBVIOUS

\* A path seen open again ages.
LEMMA Ages ==
  ASSUME NEW r, RecordTyped(r), r.open
  PROVE  [r EXCEPT !.last = tick] = Opening(r.first, r.reopens)
<1>1. r.open = TRUE /\ r.resolved = NotResolved
  BY DEF RecordTyped
<1>2. r = [first |-> r.first, last |-> r.last, open |-> r.open, resolved |-> r.resolved, reopens |-> r.reopens]
  BY DEF RecordTyped
<1>3. [r EXCEPT !.last = tick] = [first |-> r.first, last |-> tick, open |-> r.open, resolved |-> r.resolved, reopens |-> r.reopens]
  BY <1>2, Dated
<1> QED BY <1>1, <1>3 DEF Opening

\* The upserts and resolutions of a pass make the lifecycle.
LEMMA SameLifecycle ==
  ASSUME NEW all, NEW open \in SUBSET PathIds, PathsTyped(all)
  PROVE  /\ Observe(all, open) = Lifecycle(all, open)
         /\ PathsTyped(Lifecycle(all, open))
<1> DEFINE ups == [p \in DOMAIN all \cup open |->
        IF p \notin open THEN all[p] ELSE IF p \in DOMAIN all THEN Upsert(all[p]) ELSE New]
           stale == {p \in DOMAIN ups : ups[p].open /\ p \notin open}
           obs == [p \in DOMAIN ups |-> IF p \in stale THEN Resolved(ups[p]) ELSE ups[p]]
           life == Lifecycle(all, open)
<1>1. Observe(all, open) = obs
  BY DEF Observe
<1>2. life = [p \in DOMAIN all \cup open |-> IF p \in open THEN Seen(all, p) ELSE Unseen(all[p])]
  BY DEF Lifecycle
<1>3. DOMAIN ups = DOMAIN all \cup open
  OBVIOUS
<1>4. ASSUME NEW p \in open
      PROVE  /\ obs[p] = Seen(all, p)
             /\ RecordTyped(Seen(all, p))
  <2>1. obs[p] = ups[p]
    BY <1>3
  <2> DEFINE r == all[p]
  <2>2. CASE p \notin DOMAIN all
    BY <2>1, <2>2, OpeningTyped DEF Seen, New
  <2>3. CASE p \in DOMAIN all
    <3>1. RecordTyped(r)
      BY <2>3 DEF PathsTyped
    <3>2. r.reopens \in Nat /\ (r.open \/ ~r.open)
      BY <3>1 DEF RecordTyped
    <3>3. ups[p] = Upsert(r)
      BY <2>3
    <3> HIDE DEF r, ups, obs
    <3>4. CASE r.open
      <4>1. Upsert(r) = Opening(r.first, r.reopens)
        BY <3>2, <3>4 DEF Upsert
      <4>2. Seen(all, p) = [r EXCEPT !.last = tick]
        BY <2>3, <3>4 DEF Seen, r
      <4>3. Seen(all, p) = Opening(r.first, r.reopens)
        BY <4>2, <3>1, <3>4, Ages
      <4> QED BY <2>1, <3>2, <3>3, <4>1, <4>3, OpeningTyped
    <3>5. CASE ~r.open
      <4>1. Upsert(r) = Opening(tick, r.reopens + 1)
        BY <3>5 DEF Upsert
      <4>2. Seen(all, p) = Opening(tick, r.reopens + 1)
        BY <2>3, <3>5 DEF Seen, r
      <4> QED BY <2>1, <3>2, <3>3, <4>1, <4>2, OpeningTyped
    <3> QED BY <3>2, <3>4, <3>5
  <2> QED BY <2>2, <2>3
<1>5. ASSUME NEW p \in DOMAIN all, p \notin open
      PROVE  /\ obs[p] = Unseen(all[p])
             /\ RecordTyped(Unseen(all[p]))
  <2>0. PICK r : r = all[p]
    OBVIOUS
  <2>1. RecordTyped(r)
    BY <2>0 DEF PathsTyped
  <2>2. ups[p] = r
    BY <1>5, <2>0
  <2>3. obs[p] = IF r.open THEN Resolved(r) ELSE r
    BY <1>3, <1>5, <2>2
  <2> QED BY <2>0, <2>1, <2>3 DEF Unseen, Resolved, RecordTyped
<1>6. obs = life
  <2>1. \A p \in DOMAIN all \cup open : obs[p] = life[p]
    <3> SUFFICES ASSUME NEW p \in DOMAIN all \cup open PROVE obs[p] = life[p]
      OBVIOUS
    <3> HIDE DEF obs, life
    <3>1. CASE p \in open
      BY <3>1, <1>2, <1>4
    <3>2. CASE p \notin open
      BY <3>2, <1>2, <1>5
    <3> QED BY <3>1, <3>2
  <2>2. obs = [p \in DOMAIN all \cup open |-> obs[p]]
    BY <1>3
  <2> HIDE DEF obs, life
  <2>3. life = [p \in DOMAIN all \cup open |-> life[p]]
    BY <1>2
  <2> QED BY <2>1, <2>2, <2>3
<1>7. PathsTyped(life)
  <2> HIDE DEF life, obs, ups
  <2>1. DOMAIN life = DOMAIN all \cup open
    BY <1>2
  <2>2. ASSUME NEW p \in DOMAIN life PROVE RecordTyped(life[p])
    <3>1. CASE p \in open
      BY <3>1, <1>2, <1>4
    <3>2. CASE p \notin open
      BY <3>2, <2>1, <1>2, <1>5
    <3> QED BY <3>1, <3>2
  <2>3. life = [p \in DOMAIN life |-> life[p]]
    BY <1>2
  <2> QED BY <2>2, <2>3 DEF PathsTyped
<1> QED BY <1>1, <1>6, <1>7

---------------------------------------------------------------------------
\* A memory whose posture series alone changes.
LEMMA OnePosture ==
  ASSUME NEW m, NEW x, MemoryShape(m)
  PROVE  [m EXCEPT !["posture"] = x] = [paths |-> m.paths, posture |-> x, calibration |-> m.calibration]
<1>1. PICK a, b, c : m = [paths |-> a, posture |-> b, calibration |-> c]
  BY DEF MemoryShape
<1> QED BY <1>1

\* A memory whose calibration series alone changes.
LEMMA OneCalibration ==
  ASSUME NEW m, NEW x, MemoryShape(m)
  PROVE  [m EXCEPT !["calibration"] = x] = [paths |-> m.paths, posture |-> m.posture, calibration |-> x]
<1>1. PICK a, b, c : m = [paths |-> a, posture |-> b, calibration |-> c]
  BY DEF MemoryShape
<1> QED BY <1>1

\* A store with one of its series replaced.
WithSeries(m, series, x) == [m EXCEPT ![series] = x]

\* A memory with one of its two series replaced.
LEMMA PutSeries ==
  ASSUME NEW m, NEW series \in Series, NEW x, MemoryShape(m)
  PROVE  /\ MemoryShape(WithSeries(m, series, x)) /\ WithSeries(m, series, x).paths = m.paths
         /\ series = "posture" =>
              WithSeries(m, series, x).posture = x /\ WithSeries(m, series, x).calibration = m.calibration /\ m[series] = m.posture
         /\ series = "calibration" =>
              WithSeries(m, series, x).posture = m.posture /\ WithSeries(m, series, x).calibration = x /\ m[series] = m.calibration
<1>1. CASE series = "posture"
  <2>1. WithSeries(m, series, x) = [paths |-> m.paths, posture |-> x, calibration |-> m.calibration]
    BY <1>1, OnePosture DEF WithSeries
  <2> QED BY <1>1, <2>1 DEF MemoryShape
<1>2. CASE series = "calibration"
  <2>1. WithSeries(m, series, x) = [paths |-> m.paths, posture |-> m.posture, calibration |-> x]
    BY <1>2, OneCalibration DEF WithSeries
  <2> QED BY <1>2, <2>1 DEF MemoryShape
<1> QED BY <1>1, <1>2 DEF Series

\* The number of open paths is a value a point may carry.
LEMMA CountIsValue ==
  ASSUME NEW open \in SUBSET PathIds
  PROVE  Cardinality(open) \in Values
BY DEF Values

\* What memory holds after a pass, or after a sample, keeps the invariant of memory.
LEMMA MemoryPasses ==
  ASSUME NEW m, NEW open \in SUBSET PathIds, tick \in Nat,
         MemoryShape(m), PathsTyped(m.paths), SeriesTyped(m, tick), Short(m)
  PROVE  LET n == [paths |-> Lifecycle(m.paths, open),
                   posture |-> AppendPosture(m.posture, Cardinality(open)),
                   calibration |-> m.calibration]
         IN MemoryShape(n) /\ PathsTyped(n.paths) /\ SeriesTyped(n, tick) /\ Short(n)
<1> DEFINE c == Cardinality(open)
           q == AppendPosture(m.posture, c)
           n == [paths |-> Lifecycle(m.paths, open), posture |-> q, calibration |-> m.calibration]
<1>1. PathsTyped(Lifecycle(m.paths, open))
  BY SameLifecycle
<1>2. q \in Points /\ Ordered(q, tick) /\ Spaced(q) /\ Len(q) <= MaxPoints
  BY CountIsValue, Sampling DEF SeriesTyped, Short
<1>3. MemoryShape(n) /\ n.posture = q /\ n.calibration = m.calibration /\ n.paths = Lifecycle(m.paths, open)
  BY DEF MemoryShape
<1> HIDE DEF n, q, c
<1>4. SeriesTyped(n, tick) /\ Short(n)
  BY <1>2, <1>3 DEF SeriesTyped, Short
<1> QED BY <1>1, <1>3, <1>4 DEF n, q, c

\* What a table holds after a pass.
LEMMA TablesPass ==
  ASSUME NEW m, NEW open \in SUBSET PathIds, NEW fails \in Failures, tick \in Nat,
         MemoryShape(m), SeriesTyped(m, tick)
  PROVE  LET n == [paths |-> Observe(m.paths, open),
                   posture |-> Sampled("posture", m.posture, Cardinality(open), fails),
                   calibration |-> m.calibration]
         IN MemoryShape(n) /\ SeriesTyped(n, tick)
<1> DEFINE c == Cardinality(open)
           q == Sampled("posture", m.posture, c, fails)
           n == [paths |-> Observe(m.paths, open), posture |-> q, calibration |-> m.calibration]
<1>1. PICK p \in Series : p = "posture"
  BY DEF Series
<1>2. q \in Points /\ Ordered(q, tick) /\ Spaced(q)
  BY <1>1, CountIsValue, TablesStayOrdered DEF SeriesTyped
<1>3. MemoryShape(n) /\ n.posture = q /\ n.calibration = m.calibration
  BY DEF MemoryShape
<1> HIDE DEF n, q, c
<1>4. SeriesTyped(n, tick)
  BY <1>2, <1>3 DEF SeriesTyped
<1> QED BY <1>3, <1>4 DEF n, q, c

---------------------------------------------------------------------------
\* A memory is alike itself.
LEMMA SameMemory ==
  ASSUME NEW m, MemoryShape(m), SeriesTyped(m, tick)
  PROVE  Alike(m, m)
BY DEF Alike, SameDates

\* Nothing is known at first.
LEMMA HistoryStarts == HistoryInit => HistoryInv
<1> SUFFICES ASSUME HistoryInit PROVE HistoryInv
  OBVIOUS
<1> USE HistoryAssumption DEF HistoryAssumption
<1> DEFINE e == << >>
<1>1. e \in Points /\ Len(e) = 0
  BY EmptySeq DEF Points
<1> HIDE DEF e
<1>2. Ordered(e, 1) /\ Spaced(e) /\ SameDates(e, e) /\ Covers(e, {})
  BY <1>1 DEF Ordered, Spaced, SameDates, Covers
<1> DEFINE f == [p \in {} |-> 0]
<1>3. PathsTyped(f)
  BY DEF PathsTyped
<1> HIDE DEF f
<1>4. Empty0 = [paths |-> f, posture |-> e, calibration |-> e]
  BY DEF Empty0, e, f
<1>5. MemoryShape(Empty0) /\ PathsTyped(Empty0.paths) /\ SeriesTyped(Empty0, 1) /\ Short(Empty0) /\ Alike(Empty0, Empty0) /\ Covers(Empty0.posture, {})
  BY <1>1, <1>2, <1>3, <1>4 DEF MemoryShape, SeriesTyped, Short, Alike
<1>6. /\ remembered = Empty0 /\ historyFile = Empty0 /\ historyRows = Empty0
      /\ tick = 1 /\ lostWrites = FALSE /\ restarted = FALSE /\ sampledAt = {}
  BY DEF HistoryInit
<1>7. HistoryTyped
  <2>1. /\ MemoryShape(remembered) /\ MemoryShape(historyFile) /\ MemoryShape(historyRows)
        /\ PathsTyped(remembered.paths) /\ PathsTyped(historyFile.paths)
        /\ SeriesTyped(remembered, tick) /\ SeriesTyped(historyFile, tick) /\ SeriesTyped(historyRows, tick)
        /\ Short(remembered) /\ Short(historyFile)
    BY <1>5, <1>6
  <2>2. tick \in Nat \ {0} /\ \A t \in sampledAt : t \in Nat
    BY <1>6
  <2>3. lostWrites \in BOOLEAN /\ restarted \in BOOLEAN
    BY Zenon DEF HistoryInit
  <2> QED BY <2>1, <2>2, <2>3 DEF HistoryTyped
<1> QED BY <1>5, <1>6, <1>7 DEF HistoryInv

\* A pass, of which the shared table may fail a step and the file its write.
LEMMA ObservePassKeeps ==
  ASSUME NEW open \in SUBSET PathIds, NEW fails \in Failures, NEW written \in BOOLEAN,
         HistoryInv, ObservePass(open, fails, written)
  PROVE  HistoryInv'
<1>0. /\ tick \in Nat /\ tick' = tick /\ restarted' = restarted /\ sampledAt' = sampledAt \cup {tick}
      /\ MemoryShape(remembered) /\ MemoryShape(historyFile) /\ MemoryShape(historyRows)
      /\ PathsTyped(remembered.paths) /\ PathsTyped(historyFile.paths)
      /\ SeriesTyped(remembered, tick) /\ SeriesTyped(historyFile, tick) /\ SeriesTyped(historyRows, tick)
      /\ Short(remembered) /\ Short(historyFile)
  BY DEF HistoryInv, HistoryTyped, ObservePass
<1>1. PICK m : m = [paths |-> Lifecycle(remembered.paths, open),
                    posture |-> AppendPosture(remembered.posture, Cardinality(open)),
                    calibration |-> remembered.calibration]
  OBVIOUS
<1>2. MemoryShape(m) /\ PathsTyped(m.paths) /\ SeriesTyped(m, tick) /\ Short(m)
  BY <1>0, <1>1, MemoryPasses
<1>3. PICK w : w = [paths |-> Observe(historyRows.paths, open),
                    posture |-> Sampled("posture", historyRows.posture, Cardinality(open), fails),
                    calibration |-> historyRows.calibration]
  OBVIOUS
<1>4. MemoryShape(w) /\ SeriesTyped(w, tick)
  BY <1>0, <1>3, TablesPass
<1>5. remembered' = m /\ historyFile' = (IF written THEN m ELSE historyFile)
  BY <1>1 DEF ObservePass, Persist
<1>6. historyRows' = IF fails = "write" THEN historyRows ELSE w
  BY <1>3 DEF ObservePass
<1>7. (lostWrites' \in BOOLEAN) /\ (~lostWrites' => (~lostWrites /\ fails = "none" /\ written))
  BY DEF ObservePass, Attempt, HistoryInv, HistoryTyped
<1>8. HistoryTyped'
  <2>1. MemoryShape(historyFile') /\ PathsTyped((historyFile').paths) /\ SeriesTyped(historyFile', tick) /\ Short(historyFile')
    BY <1>0, <1>2, <1>5
  <2>2. MemoryShape(historyRows') /\ SeriesTyped(historyRows', tick)
    BY <1>0, <1>4, <1>6
  <2>3. \A t \in sampledAt' : t \in Nat
    BY <1>0 DEF HistoryInv, HistoryTyped
  <2>4. tick' \in Nat \ {0} /\ restarted' \in BOOLEAN
    BY <1>0 DEF HistoryInv, HistoryTyped
  <2> QED BY <1>0, <1>2, <1>5, <1>7, <2>1, <2>2, <2>3, <2>4 DEF HistoryTyped, MemoryShape, PathsTyped, SeriesTyped, Short
<1>9. ASSUME ~lostWrites'
      PROVE  /\ Alike(remembered', historyFile') /\ Alike(remembered', historyRows')
             /\ ~restarted' => remembered' = historyRows'
             /\ Covers((remembered').posture, sampledAt')
  <2>1. ~lostWrites /\ fails = "none" /\ written
    BY <1>7, <1>9
  <2>2. /\ Alike(remembered, historyRows) /\ (~restarted => remembered = historyRows)
        /\ Covers(remembered.posture, sampledAt)
    BY <2>1 DEF HistoryInv
  <2>3. historyFile' = m /\ historyRows' = w
    BY <2>1, <1>5, <1>6
  <2>4. /\ w.paths = Lifecycle(historyRows.paths, open) /\ w.calibration = historyRows.calibration
        /\ w.posture = AppendPosture(historyRows.posture, Cardinality(open))
    <3>1. historyRows.paths = remembered.paths
      BY <2>2 DEF Alike
    <3>2. Observe(historyRows.paths, open) = Lifecycle(historyRows.paths, open)
      BY <3>1, <1>0, SameLifecycle
    <3>3. PICK s \in Series : s = "posture"
      BY DEF Series
    <3>4. Sampled("posture", historyRows.posture, Cardinality(open), fails) = AppendPosture(historyRows.posture, Cardinality(open))
      BY <2>1, <3>3, <1>0, TablesSample, CountIsValue DEF SeriesTyped
    <3> QED BY <1>3, <3>2, <3>4
  <2>5. /\ m.paths = Lifecycle(remembered.paths, open) /\ m.calibration = remembered.calibration
        /\ m.posture = AppendPosture(remembered.posture, Cardinality(open))
    BY <1>1
  <2>6. Alike(m, w)
    <3>1. m.paths = w.paths /\ SameDates(m.calibration, w.calibration)
      BY <2>2, <2>4, <2>5 DEF Alike
    <3>2. SameDates(m.posture, w.posture)
      BY <2>2, <2>4, <2>5, <1>0, SamplingAlike, CountIsValue DEF Alike, SeriesTyped
    <3> QED BY <3>1, <3>2 DEF Alike
  <2>7. Alike(m, m)
    BY <1>2, SameMemory
  <2>8. ASSUME ~restarted PROVE m = w
    <3>1. remembered = historyRows
      BY <2>2, <2>8
    <3>2. m.paths = w.paths /\ m.posture = w.posture /\ m.calibration = w.calibration
      BY <2>4, <2>5, <3>1
    <3> QED BY <1>2, <1>4, <3>2 DEF MemoryShape
  <2>9. Covers(m.posture, sampledAt \cup {tick})
    <3>1. \A t \in sampledAt : t \in Nat
      BY DEF HistoryInv, HistoryTyped
    <3>2. remembered.posture \in Points /\ Ordered(remembered.posture, tick) /\ Spaced(remembered.posture) /\ Len(remembered.posture) <= MaxPoints
      BY <1>0 DEF SeriesTyped, Short
    <3> QED BY <1>0, <2>2, <2>5, <3>1, <3>2, SamplingCovers, CountIsValue
  <2> QED BY <1>0, <1>5, <2>3, <2>6, <2>7, <2>8, <2>9
<1> QED BY <1>8, <1>9 DEF HistoryInv, Alike, Covers

\* A sample: one series, and the file only when a point is new.
LEMMA SampleKeeps ==
  ASSUME NEW series \in Series, NEW v \in 0..1, NEW fails \in Failures, NEW written \in BOOLEAN,
         HistoryInv, Sample(series, v, fails, written)
  PROVE  HistoryInv'
<1>0. /\ tick \in Nat /\ tick' = tick /\ restarted' = restarted
      /\ sampledAt' = IF series = "posture" THEN sampledAt \cup {tick} ELSE sampledAt
      /\ MemoryShape(remembered) /\ MemoryShape(historyFile) /\ MemoryShape(historyRows)
      /\ PathsTyped(remembered.paths) /\ PathsTyped(historyFile.paths)
      /\ SeriesTyped(remembered, tick) /\ SeriesTyped(historyFile, tick) /\ SeriesTyped(historyRows, tick)
      /\ Short(remembered) /\ Short(historyFile)
  BY DEF HistoryInv, HistoryTyped, Sample
<1>a. v \in Values
  BY DEF Values
<1>1. PICK m : m = WithSeries(remembered, series, AppendPosture(remembered[series], v))
  OBVIOUS
<1>2. /\ MemoryShape(m) /\ PathsTyped(m.paths) /\ SeriesTyped(m, tick) /\ Short(m)
      /\ m.paths = remembered.paths
      /\ m.posture = IF series = "posture" THEN AppendPosture(remembered.posture, v) ELSE remembered.posture
      /\ m.calibration = IF series = "posture" THEN remembered.calibration ELSE AppendPosture(remembered.calibration, v)
  <2>1. /\ MemoryShape(m) /\ m.paths = remembered.paths
        /\ m.posture = IF series = "posture" THEN AppendPosture(remembered.posture, v) ELSE remembered.posture
        /\ m.calibration = IF series = "posture" THEN remembered.calibration ELSE AppendPosture(remembered.calibration, v)
    BY <1>0, <1>1, PutSeries DEF Series
  <2>2. /\ remembered.posture \in Points /\ remembered.calibration \in Points
        /\ Ordered(remembered.posture, tick) /\ Ordered(remembered.calibration, tick)
        /\ Spaced(remembered.posture) /\ Len(remembered.posture) <= MaxPoints /\ Len(remembered.calibration) <= MaxPoints
    BY <1>0 DEF SeriesTyped, Short
  <2>3. SeriesTyped(m, tick) /\ Short(m)
    BY <1>0, <1>a, <2>1, <2>2, Sampling DEF SeriesTyped, Short
  <2> QED BY <1>0, <2>1, <2>3
<1>3. PICK w : w = WithSeries(historyRows, series, Sampled(series, historyRows[series], v, fails))
  OBVIOUS
<1>4. /\ MemoryShape(w) /\ SeriesTyped(w, tick)
      /\ w.paths = historyRows.paths
      /\ w.posture = IF series = "posture" THEN Sampled(series, historyRows.posture, v, fails) ELSE historyRows.posture
      /\ w.calibration = IF series = "posture" THEN historyRows.calibration ELSE Sampled(series, historyRows.calibration, v, fails)
  <2>1. /\ MemoryShape(w) /\ w.paths = historyRows.paths
        /\ w.posture = IF series = "posture" THEN Sampled(series, historyRows.posture, v, fails) ELSE historyRows.posture
        /\ w.calibration = IF series = "posture" THEN historyRows.calibration ELSE Sampled(series, historyRows.calibration, v, fails)
    BY <1>0, <1>3, PutSeries DEF Series
  <2>2. /\ historyRows.posture \in Points /\ historyRows.calibration \in Points
        /\ Ordered(historyRows.posture, tick) /\ Ordered(historyRows.calibration, tick)
        /\ Spaced(historyRows.posture)
    BY <1>0 DEF SeriesTyped
  <2>3. SeriesTyped(w, tick)
    BY <1>0, <1>a, <2>1, <2>2, TablesStayOrdered DEF SeriesTyped
  <2> QED BY <2>1, <2>3
<1>5. remembered' = m /\ historyRows' = w /\ (historyFile' = m \/ historyFile' = historyFile)
  BY <1>1, <1>3 DEF Sample, Persist, WithSeries
<1>6. historyFile' = historyFile => (InWindow(remembered[series]) \/ ~written \/ historyFile' = m)
  BY <1>1 DEF Sample, Persist, WithSeries
<1>7. (lostWrites' \in BOOLEAN) /\ (~lostWrites' => (~lostWrites /\ fails = "none" /\ written))
  BY DEF Sample, Attempt, HistoryInv, HistoryTyped
<1>8. HistoryTyped'
  <2>1. MemoryShape(historyFile') /\ PathsTyped((historyFile').paths) /\ SeriesTyped(historyFile', tick) /\ Short(historyFile')
    BY <1>0, <1>2, <1>5
  <2>3. \A t \in sampledAt' : t \in Nat
    BY <1>0 DEF HistoryInv, HistoryTyped
  <2>4. tick' \in Nat \ {0} /\ restarted' \in BOOLEAN
    BY <1>0 DEF HistoryInv, HistoryTyped
  <2> QED BY <1>0, <1>2, <1>4, <1>5, <1>7, <2>1, <2>3, <2>4 DEF HistoryTyped, MemoryShape, PathsTyped, SeriesTyped, Short
<1>9. ASSUME ~lostWrites'
      PROVE  /\ Alike(remembered', historyFile') /\ Alike(remembered', historyRows')
             /\ ~restarted' => remembered' = historyRows'
             /\ Covers((remembered').posture, sampledAt')
  <2>1. ~lostWrites /\ fails = "none" /\ written
    BY <1>7, <1>9
  <2>2. /\ Alike(remembered, historyRows) /\ (~restarted => remembered = historyRows)
        /\ Alike(remembered, historyFile) /\ Covers(remembered.posture, sampledAt)
    BY <2>1 DEF HistoryInv
  <2>3. /\ w.posture = IF series = "posture" THEN AppendPosture(historyRows.posture, v) ELSE historyRows.posture
        /\ w.calibration = IF series = "posture" THEN historyRows.calibration ELSE AppendPosture(historyRows.calibration, v)
    BY <1>0, <1>a, <1>4, <2>1, TablesSample DEF SeriesTyped
  <2>4. Alike(m, w)
    <3>1. CASE series = "posture"
      <4>1. SameDates(m.posture, w.posture)
        BY <1>0, <1>a, <1>2, <2>2, <2>3, <3>1, SamplingAlike DEF Alike, SeriesTyped
      <4> QED BY <1>2, <1>4, <2>2, <2>3, <3>1, <4>1 DEF Alike
    <3>2. CASE series # "posture"
      <4>1. SameDates(m.calibration, w.calibration)
        BY <1>0, <1>a, <1>2, <2>2, <2>3, <3>2, SamplingAlike DEF Alike, SeriesTyped
      <4> QED BY <1>2, <1>4, <2>2, <2>3, <3>2, <4>1 DEF Alike
    <3> QED BY <3>1, <3>2
  <2>5. ASSUME ~restarted PROVE m = w
    <3>1. remembered = historyRows
      BY <2>2, <2>5
    <3>2. m.paths = w.paths /\ m.posture = w.posture /\ m.calibration = w.calibration
      BY <1>2, <1>4, <2>3, <3>1
    <3> QED BY <1>2, <1>4, <3>2 DEF MemoryShape
  <2>6. Covers(m.posture, sampledAt')
    <3>1. CASE series = "posture"
      <4>1. \A t \in sampledAt : t \in Nat
        BY DEF HistoryInv, HistoryTyped
      <4>2. remembered.posture \in Points /\ Ordered(remembered.posture, tick) /\ Spaced(remembered.posture) /\ Len(remembered.posture) <= MaxPoints
        BY <1>0 DEF SeriesTyped, Short
      <4>3. Covers(AppendPosture(remembered.posture, v), sampledAt \cup {tick})
        BY <1>0, <1>a, <2>2, <4>1, <4>2, SamplingCovers
      <4> QED BY <1>0, <1>2, <3>1, <4>3
    <3>2. CASE series # "posture"
      BY <1>0, <1>2, <2>2, <3>2
    <3> QED BY <3>1, <3>2
  <2>7. Alike(m, historyFile')
    <3>1. CASE historyFile' = m
      BY <3>1, <1>2, SameMemory
    <3>2. CASE historyFile' = historyFile /\ InWindow(remembered[series])
      <4>1. CASE series = "posture"
        <5>1. Len(remembered.posture) > 0 /\ m.posture = Refreshed(remembered.posture, v)
          BY <1>2, <3>2, <4>1 DEF AppendPosture, InWindow
        <5>2. SameDates(remembered.posture, m.posture)
          BY <1>0, <1>a, <5>1, Refreshing DEF SeriesTyped
        <5>3. SameDates(m.posture, historyFile.posture)
          BY <2>2, <5>2 DEF Alike, SameDates
        <5> QED BY <1>2, <2>2, <3>2, <4>1, <5>3 DEF Alike
      <4>2. CASE series # "posture"
        <5>0. series = "calibration"
          BY <4>2 DEF Series
        <5>1. Len(remembered.calibration) > 0 /\ m.calibration = Refreshed(remembered.calibration, v)
          BY <1>2, <3>2, <5>0 DEF AppendPosture, InWindow
        <5>2. SameDates(remembered.calibration, m.calibration)
          BY <1>0, <1>a, <5>1, Refreshing DEF SeriesTyped
        <5>3. SameDates(m.calibration, historyFile.calibration)
          BY <2>2, <5>2 DEF Alike, SameDates
        <5> QED BY <1>2, <2>2, <3>2, <4>2, <5>3 DEF Alike
      <4> QED BY <4>1, <4>2
    <3> QED BY <1>5, <1>6, <2>1, <3>1, <3>2
  <2> QED BY <1>0, <1>5, <2>4, <2>5, <2>6, <2>7
<1> QED BY <1>8, <1>9 DEF HistoryInv, Alike, Covers

\* A restart reads the file back, which dates every point as memory did.
LEMMA RestartHistoryKeeps ==
  ASSUME HistoryInv, RestartHistory
  PROVE  HistoryInv'
<1>1. /\ remembered' = historyFile /\ historyFile' = historyFile /\ historyRows' = historyRows
      /\ tick' = tick /\ lostWrites' = lostWrites /\ sampledAt' = sampledAt /\ restarted'
  BY DEF RestartHistory
<1>2. HistoryTyped /\ restarted' \in BOOLEAN
  BY Zenon DEF HistoryInv, RestartHistory
<1>3. HistoryTyped'
  BY <1>1, <1>2 DEF HistoryTyped, MemoryShape, PathsTyped, SeriesTyped, Short
<1>4. ASSUME ~lostWrites
      PROVE  /\ Alike(historyFile, historyFile) /\ Alike(historyFile, historyRows)
             /\ Covers(historyFile.posture, sampledAt)
  <2>1. /\ Alike(remembered, historyFile) /\ Alike(remembered, historyRows) /\ Covers(remembered.posture, sampledAt)
    BY <1>4 DEF HistoryInv
  <2>2. Alike(historyFile, historyFile) /\ Alike(historyFile, historyRows)
    BY <2>1 DEF Alike, SameDates
  <2>3. tick \in Nat /\ remembered.posture \in Points /\ historyFile.posture \in Points
    BY <1>2 DEF HistoryTyped, SeriesTyped
  <2>4. Covers(historyFile.posture, sampledAt)
    BY <2>1, <2>3, DatesKeep DEF Alike
  <2> QED BY <2>2, <2>4
<1> QED BY <1>1, <1>3, <1>4 DEF HistoryInv, Alike, Covers

\* Time passes.
LEMMA HistoryTickKeeps ==
  ASSUME HistoryInv, HistoryTick
  PROVE  HistoryInv'
<1>1. /\ remembered' = remembered /\ historyFile' = historyFile /\ historyRows' = historyRows
      /\ tick' = tick + 1 /\ lostWrites' = lostWrites /\ restarted' = restarted /\ sampledAt' = sampledAt
  BY DEF HistoryTick
<1>2. HistoryTyped
  BY DEF HistoryInv
<1>3. ASSUME NEW m, SeriesTyped(m, tick) PROVE SeriesTyped(m, tick + 1)
  <2>1. ASSUME NEW s \in Points, Ordered(s, tick) PROVE Ordered(s, tick + 1)
    BY <1>2, <2>1, PointOf DEF Ordered, HistoryTyped
  <2> QED BY <1>3, <2>1 DEF SeriesTyped
<1>4. HistoryTyped'
  <2>1. SeriesTyped(remembered, tick + 1) /\ SeriesTyped(historyFile, tick + 1) /\ SeriesTyped(historyRows, tick + 1)
    BY <1>2, <1>3 DEF HistoryTyped
  <2>2. tick + 1 \in Nat \ {0}
    BY <1>2 DEF HistoryTyped
  <2> QED BY <1>1, <1>2, <2>1, <2>2 DEF HistoryTyped, MemoryShape, PathsTyped, SeriesTyped, Short
<1> QED BY <1>1, <1>4 DEF HistoryInv, Alike, Covers

\* What the invariant says of the history.
LEMMA HistoryInvHolds ==
  ASSUME HistoryInv
  PROVE  HistoryHolds
<1>1. HistoryTyped
  BY DEF HistoryInv
<1>2. ASSUME NEW s \in Points, NEW u \in Points, SameDates(s, u) PROVE Dates(s) = Dates(u)
  BY <1>2 DEF SameDates, Dates
<1>3. BackendsAgree
  <2> SUFFICES ASSUME ~lostWrites
      PROVE  /\ remembered.paths = historyRows.paths
             /\ Stats(remembered.paths) = StatsOf(historyRows.paths)
             /\ \A s \in Series :
                  /\ Dates(remembered[s]) = Dates(historyRows[s])
                  /\ ~restarted => remembered[s] = historyRows[s]
    BY DEF BackendsAgree
  <2>1. Alike(remembered, historyRows) /\ (~restarted => remembered = historyRows)
    BY DEF HistoryInv
  <2>2. Stats(remembered.paths) = StatsOf(remembered.paths)
    <3>1. PathsTyped(remembered.paths)
      BY <1>1 DEF HistoryTyped
    <3>2. \A p \in DOMAIN remembered.paths :
            (~remembered.paths[p].open /\ remembered.paths[p].resolved # NotResolved)
              <=> remembered.paths[p].resolved # NotResolved
      BY <3>1 DEF PathsTyped, RecordTyped
    <3>3. {p \in DOMAIN remembered.paths : ~remembered.paths[p].open /\ remembered.paths[p].resolved # NotResolved}
            = {p \in DOMAIN remembered.paths : remembered.paths[p].resolved # NotResolved}
      BY <3>2
    <3> QED BY <3>3 DEF Stats, StatsOf
  <2>3. Dates(remembered.posture) = Dates(historyRows.posture) /\ Dates(remembered.calibration) = Dates(historyRows.calibration)
    BY <1>1, <1>2, <2>1 DEF Alike, HistoryTyped, SeriesTyped
  <2>4. ASSUME NEW s \in Series PROVE Dates(remembered[s]) = Dates(historyRows[s])
    BY <2>3 DEF Series
  <2> QED BY <2>1, <2>2, <2>4 DEF Alike
<1>4. SamplesHaveTheirPoint
  <2>1. Spaced(remembered.posture) /\ Spaced(historyFile.posture) /\ Spaced(historyRows.posture)
    BY <1>1 DEF HistoryTyped, SeriesTyped
  <2>2. ASSUME ~lostWrites PROVE Covers(remembered.posture, sampledAt) /\ Covers(historyRows.posture, sampledAt)
    <3>1. Covers(remembered.posture, sampledAt) /\ SameDates(remembered.posture, historyRows.posture)
      BY <2>2 DEF HistoryInv, Alike
    <3>2. tick \in Nat /\ remembered.posture \in Points /\ historyRows.posture \in Points
      BY <1>1 DEF HistoryTyped, SeriesTyped
    <3> QED BY <3>1, <3>2, DatesKeep
  <2> QED BY <2>1, <2>2 DEF SamplesHaveTheirPoint, Spaced, Covers
<1> QED BY <1>3, <1>4 DEF HistoryHolds

\* Every step keeps the invariant of the history.
LEMMA HistorySteps == HistoryInv /\ [HistoryNext]_historyVars => HistoryInv'
<1> SUFFICES ASSUME HistoryInv, [HistoryNext]_historyVars PROVE HistoryInv'
  OBVIOUS
<1>1. CASE HistoryNext
  BY <1>1, ObservePassKeeps, SampleKeeps, RestartHistoryKeeps, HistoryTickKeeps DEF HistoryNext
<1>2. CASE UNCHANGED historyVars
  BY <1>2 DEF historyVars, HistoryInv, HistoryTyped, MemoryShape, PathsTyped, SeriesTyped, Short, Alike, Covers
<1> QED BY <1>1, <1>2

\* The record of a path and the two series are the same in either backend and have
\* no hole, for any paths, window and length of a series (Store.ObservePass,
\* PGStore.observe).
THEOREM HistoryIsKept == HistorySpec => []HistoryHolds
<1>1. HistoryInv => HistoryHolds
  BY HistoryInvHolds
<1> QED BY HistoryStarts, HistorySteps, <1>1, PTL DEF HistorySpec

---------------------------------------------------------------------------
(***************************************************************************)
(* The log of the verdicts reads back to what the replica answers from,    *)
(* whenever nothing is owed to it: whatever reports, withdrawals, rewrites, *)
(* failed writes and crashes came before.  What a log says is a recursion  *)
(* over its lines, so the argument starts from an induction over the naturals. *)
(***************************************************************************)

\* How many numbers there are from none to k.
LEMMA UpTo ==
  ASSUME NEW k \in Int, k >= 0 - 1
  PROVE  IsFiniteSet(0..k) /\ Cardinality(0..k) = k + 1
<1>1. IsFiniteSet(0..k) /\ Cardinality(0..k) = IF 0 > k THEN 0 ELSE k - 0 + 1
  BY FS_Interval
<1> QED BY <1>1
\* Induction over the naturals, for a set: what the recursions need.
LEMMA NatSetInduction ==
  ASSUME NEW S, 0 \in S, \A n \in Nat : n \in S => n + 1 \in S
  PROVE  Nat \subseteq S
<1> SUFFICES ASSUME NEW N \in Nat, N \notin S PROVE FALSE
  OBVIOUS
<1> DEFINE Good == {n \in 0..N : \A m \in 0..n : m \in S}
           c == Cardinality(Good)
<1>1. IsFiniteSet(Good) /\ c \in Nat
  <2>1. IsFiniteSet(0..N)
    BY FS_Interval
  <2>2. Good \in SUBSET (0..N)
    OBVIOUS
  <2>3. IsFiniteSet(Good)
    BY <2>1, <2>2, FS_Subset
  <2> QED BY <2>3, FS_CardinalityType
<1>2. \A n \in Good : 0..n \subseteq Good
  OBVIOUS
<1>3. \A n \in Good : n + 1 <= c
  <2> TAKE n \in Good
  <2>1. n \in Nat /\ 0..n \in SUBSET Good
    BY <1>2
  <2>2. Cardinality(0..n) = n + 1
    BY <2>1, FS_Interval
  <2>3. Cardinality(0..n) <= c
    BY <2>1, <1>1, FS_Subset
  <2> QED BY <2>2, <2>3
<1>4. 0 \in Good
  OBVIOUS
<1>5. c - 1 \in Good
  <2> SUFFICES ASSUME c - 1 \notin Good PROVE FALSE
    OBVIOUS
  <2>0. c >= 1
    BY <1>1, <1>3, <1>4
  <2>1. Good \in SUBSET (0..(c - 2))
    <3> SUFFICES ASSUME NEW n \in Good PROVE n \in 0..(c-2)
      OBVIOUS
    <3>1. n \in Nat /\ n + 1 <= c /\ n # c - 1
      BY <1>3
    <3> HIDE DEF c
    <3> QED BY <3>1, <1>1
  <2>2. IsFiniteSet(0..(c-2)) /\ Cardinality(0..(c-2)) = c - 1
    <3> HIDE DEF c
    <3>1. c - 2 \in Int /\ c - 2 >= 0 - 1 /\ (c - 2) + 1 = c - 1
      BY <2>0, <1>1
    <3> QED BY <3>1, UpTo
  <2>3. c <= c - 1
    <3>1. Cardinality(Good) <= Cardinality(0..(c-2))
      BY <2>1, <2>2, FS_Subset
    <3> QED BY <3>1, <2>2
  <2> HIDE DEF c
  <2> QED BY <2>3, <1>1
<1>6. c \in Nat /\ c <= N /\ c \in S /\ \A m \in 0..(c - 1) : m \in S
  <2>1. c - 1 \in 0..N /\ \A m \in 0..(c - 1) : m \in S
    BY <1>5
  <2>2. c - 1 \in S /\ c - 1 \in Nat
    <3> HIDE DEF c
    <3> QED BY <2>1, <1>1
  <2>3. c \in S
    <3>1. (c - 1) + 1 \in S
      BY <2>2
    <3> HIDE DEF c
    <3> QED BY <3>1, <1>1
  <2>4. c - 1 # N
    BY <2>2
  <2> HIDE DEF c
  <2> QED BY <2>1, <2>3, <2>4, <1>1
<1>7. c \in Good
  <2>1. \A m \in 0..c : m \in S
    <3> HIDE DEF c
    <3> QED BY <1>6
  <2> QED BY <2>1, <1>6
<1> HIDE DEF c, Good
<1> QED BY <1>1, <1>3, <1>7

\* The records after the first n lines.
ReplayStep(f, lines, n) == IF n = 0 THEN {} ELSE ApplyEvent(f[n-1], lines[n])
IsReplay(f, lines, k) == f = [n \in 0..k |-> ReplayStep(f, lines, n)]

\* The recursion of a replay has a solution, for a log of any length.
LEMMA ReplayExists ==
  ASSUME NEW lines, NEW k \in Nat
  PROVE  \E f : IsReplay(f, lines, k)
<1> DEFINE S == {m \in Nat : \E f : IsReplay(f, lines, m)}
<1>1. 0 \in S
  <2> DEFINE f == [n \in 0..0 |-> {}]
  <2>1. IsReplay(f, lines, 0)
    BY DEF IsReplay, ReplayStep
  <2> QED BY <2>1
<1>2. ASSUME NEW m \in Nat, m \in S PROVE m + 1 \in S
  <2>1. PICK f : IsReplay(f, lines, m)
    BY <1>2
  <2>2. PICK g : g = [n \in 0..(m + 1) |-> IF n <= m THEN f[n] ELSE ApplyEvent(f[m], lines[m+1])]
    OBVIOUS
  <2>3. \A n \in 0..m : f[n] = ReplayStep(f, lines, n)
    BY <2>1 DEF IsReplay
  <2>4. \A n \in 0..(m + 1) : g[n] = ReplayStep(g, lines, n)
    <3> TAKE n \in 0..(m + 1)
    <3>1. CASE n = 0
      BY <3>1, <2>2, <2>3 DEF ReplayStep
    <3>2. CASE n \in 1..m
      <4>1. n - 1 \in 0..m /\ g[n-1] = f[n-1] /\ g[n] = f[n] /\ n \in 0..m
        BY <3>2, <2>2
      <4> QED BY <4>1, <3>2, <2>3 DEF ReplayStep
    <3>3. CASE n = m + 1
      <4>1. g[n-1] = f[m] /\ g[n] = ApplyEvent(f[m], lines[n])
        BY <3>3, <2>2
      <4> QED BY <4>1, <3>3 DEF ReplayStep
    <3> QED BY <3>1, <3>2, <3>3
  <2>5. g = [n \in 0..(m + 1) |-> ReplayStep(g, lines, n)]
    BY <2>2, <2>4
  <2> QED BY <2>5 DEF IsReplay
<1> HIDE DEF S
<1>3. Nat \subseteq S
  BY <1>1, <1>2, NatSetInduction
<1> QED BY <1>3 DEF S

\* A replay is what that solution gives at the last line.
LEMMA ReplayUnfolds ==
  ASSUME NEW lines, Len(lines) \in Nat
  PROVE  \E f : IsReplay(f, lines, Len(lines)) /\ Replayed(lines) = f[Len(lines)]
<1> DEFINE f == CHOOSE g : g = [n \in 0..Len(lines) |-> IF n = 0 THEN {} ELSE ApplyEvent(g[n-1], lines[n])]
<1>1. \E g : g = [n \in 0..Len(lines) |-> IF n = 0 THEN {} ELSE ApplyEvent(g[n-1], lines[n])]
  BY ReplayExists DEF IsReplay, ReplayStep
<1>2. f = [n \in 0..Len(lines) |-> IF n = 0 THEN {} ELSE ApplyEvent(f[n-1], lines[n])]
  BY <1>1
<1>3. Replayed(lines) = f[Len(lines)]
  BY Zenon DEF Replayed
<1> HIDE DEF f
<1> QED BY <1>2, <1>3 DEF IsReplay, ReplayStep

Agree(s, t, m) == \A i \in 1..m : s[i] = t[i]

\* Two sequences that agree so far have replayed to the same records.
LEMMA ReplaysAgree ==
  ASSUME NEW s, NEW t, NEW k \in Nat, NEW l \in Nat, NEW f, NEW g, NEW m \in Nat, m <= k, m <= l,
         IsReplay(f, s, k), IsReplay(g, t, l), Agree(s, t, m)
  PROVE  f[m] = g[m]
<1> DEFINE S == {n \in Nat : n <= m => f[n] = g[n]}
<1>0. /\ \A n \in 0..k : f[n] = ReplayStep(f, s, n)
      /\ \A n \in 0..l : g[n] = ReplayStep(g, t, n)
  BY DEF IsReplay
<1>1. 0 \in S
  BY <1>0 DEF ReplayStep
<1>2. ASSUME NEW n \in Nat, n \in S PROVE n + 1 \in S
  <2> SUFFICES ASSUME n + 1 <= m PROVE f[n+1] = g[n+1]
    OBVIOUS
  <2>1. n + 1 \in 0..k /\ n + 1 \in 0..l /\ n + 1 \in 1..m /\ (n + 1) - 1 = n /\ n + 1 # 0
    OBVIOUS
  <2>2. f[n+1] = ApplyEvent(f[n], s[n+1]) /\ g[n+1] = ApplyEvent(g[n], t[n+1])
    BY <1>0, <2>1 DEF ReplayStep
  <2>3. f[n] = g[n]
    BY <1>2
  <2>4. s[n+1] = t[n+1]
    BY <2>1 DEF Agree
  <2> QED BY <2>2, <2>3, <2>4
<1> HIDE DEF S
<1>3. Nat \subseteq S
  BY <1>1, <1>2, NatSetInduction
<1> QED BY <1>3 DEF S

\* An empty log reads back to nothing.
LEMMA ReplayOfNone == Replayed(<< >>) = {}
<1>1. Len(<< >>) = 0
  OBVIOUS
<1>2. PICK f : IsReplay(f, << >>, 0) /\ Replayed(<< >>) = f[0]
  BY <1>1, ReplayUnfolds
<1>3. f[0] = {}
  BY <1>2 DEF IsReplay, ReplayStep
<1> QED BY <1>2, <1>3

\* A sequence, of whatever.
IsSeq(s) == \E S : s \in Seq(S)

\* A sequence with one more element.
LEMMA Longer ==
  ASSUME NEW s, NEW e, IsSeq(s)
  PROVE  /\ IsSeq(Append(s, e)) /\ Len(s) \in Nat /\ Len(Append(s, e)) = Len(s) + 1
         /\ Append(s, e)[Len(s) + 1] = e
         /\ \A i \in 1..Len(s) : Append(s, e)[i] = s[i]
<1>1. PICK S : s \in Seq(S)
  BY DEF IsSeq
<1>2. PICK T : T = S \cup {e}
  OBVIOUS
<1>3. s \in Seq(T) /\ e \in T
  BY <1>1, <1>2, SeqMonotonic
<1> QED BY <1>3, AppendProperties, LenProperties DEF IsSeq

\* A line more is an event more.
LEMMA ReplayOfOneMore ==
  ASSUME NEW s, NEW e, IsSeq(s)
  PROVE  Replayed(Append(s, e)) = ApplyEvent(Replayed(s), e)
<1>1. PICK a : a = Append(s, e)
  OBVIOUS
<1>2. PICK n \in Nat : n = Len(s)
  BY Longer
<1>3. Len(a) = n + 1 /\ a[n + 1] = e /\ \A i \in 1..n : a[i] = s[i]
  BY <1>1, <1>2, Longer
<1>4. PICK f : IsReplay(f, s, n) /\ Replayed(s) = f[n]
  BY <1>2, ReplayUnfolds
<1>5. PICK g : IsReplay(g, a, n + 1) /\ Replayed(a) = g[n + 1]
  BY <1>3, ReplayUnfolds
<1>a. n + 1 \in Nat /\ n <= n /\ n <= n + 1 /\ (n + 1) - 1 = n /\ n + 1 # 0 /\ n + 1 \in 0..(n + 1)
  OBVIOUS
<1>6. f[n] = g[n]
  <2>1. Agree(s, a, n)
    BY <1>3 DEF Agree
  <2>2. IsReplay(f, s, n) /\ IsReplay(g, a, n + 1)
    BY <1>4, <1>5
  <2> QED BY <1>a, <2>1, <2>2, ReplaysAgree
<1>7. g[n + 1] = ApplyEvent(g[n], a[n + 1])
  <2>1. g[n + 1] = ReplayStep(g, a, n + 1)
    BY <1>5, <1>a DEF IsReplay
  <2> QED BY <2>1, <1>a DEF ReplayStep
<1> QED BY <1>1, <1>3, <1>4, <1>5, <1>6, <1>7

---------------------------------------------------------------------------
\* No two records stand for the same verdict.
Settling(all) ==
  \A x, y \in all :
    (x # y /\ ~Accumulates(x) /\ ~Accumulates(y)) => (x.path # y.path \/ x.scope # y.scope)

\* A record put stands for no verdict that another stands for.
LEMMA PutSettles ==
  ASSUME NEW all, NEW r, IsFiniteSet(all), Settling(all)
  PROVE  /\ IsFiniteSet(ApplyPut(all, r)) /\ Settling(ApplyPut(all, r))
         /\ ApplyPut(all, r) \subseteq all \cup {r}
<1>1. ApplyPut(all, r) \in SUBSET (all \cup {r})
  BY DEF ApplyPut
<1>2. IsFiniteSet(all \cup {r})
  BY FS_AddElement
<1>3. IsFiniteSet(ApplyPut(all, r))
  BY <1>1, <1>2, FS_Subset
<1>4. CASE Accumulates(r)
  BY <1>1, <1>3, <1>4 DEF ApplyPut, Settling
<1>5. CASE ~Accumulates(r)
  <2>1. ApplyPut(all, r) = {x \in all : x.outcome = "missed" \/ x.path # r.path \/ x.scope # r.scope} \cup {r}
    BY <1>5 DEF ApplyPut
  <2>2. \A x \in ApplyPut(all, r) : x = r \/ (x \in all /\ (x.outcome = "missed" \/ x.path # r.path \/ x.scope # r.scope))
    BY <2>1
  <2>3. Settling(ApplyPut(all, r))
    <3> SUFFICES ASSUME NEW x \in ApplyPut(all, r), NEW y \in ApplyPut(all, r), x # y, ~Accumulates(x), ~Accumulates(y)
        PROVE  x.path # y.path \/ x.scope # y.scope
      BY DEF Settling
    <3>1. x.outcome # "missed" /\ y.outcome # "missed"
      BY DEF Accumulates
    <3>2. CASE x \in all /\ y \in all
      BY <3>2 DEF Settling
    <3>3. CASE x = r /\ y \in all
      BY <3>1, <3>3, <2>2
    <3>4. CASE y = r /\ x \in all
      BY <3>1, <3>4, <2>2
    <3> QED BY <2>2, <3>2, <3>3, <3>4
  <2> QED BY <1>1, <1>3, <2>3
<1> QED BY <1>4, <1>5

\* A record withdrawn leaves the others settled.
LEMMA DeleteSettles ==
  ASSUME NEW all, NEW id, IsFiniteSet(all), Settling(all)
  PROVE  /\ IsFiniteSet(ApplyDelete(all, id)) /\ Settling(ApplyDelete(all, id))
         /\ ApplyDelete(all, id) \subseteq all
<1>1. ApplyDelete(all, id) \in SUBSET all
  BY DEF ApplyDelete
<1> QED BY <1>1, FS_Subset DEF Settling

\* A verdict that nothing stands for is added.
LEMMA PutAdds ==
  ASSUME NEW all, NEW r, Settling(all \cup {r})
  PROVE  ApplyPut(all, r) = all \cup {r}
<1>1. CASE Accumulates(r)
  BY <1>1 DEF ApplyPut
<1>2. CASE ~Accumulates(r)
  <2>1. ASSUME NEW x \in all, x # r PROVE x.outcome = "missed" \/ x.path # r.path \/ x.scope # r.scope
    BY <1>2, <2>1 DEF Settling, Accumulates
  <2> QED BY <1>2, <2>1 DEF ApplyPut
<1> QED BY <1>1, <1>2

---------------------------------------------------------------------------
\* The lines of a log: what was decoded, and what was not.
IsEvent(e) == (e = Del(e.id) /\ e.op = "del") \/ (e = Put(e.rec) /\ e.op = "put")
IsLine(e) == e = Torn \/ e = Garbled \/ IsEvent(e)
RecordsOf(s) == {s[i].rec : i \in {j \in 1..Len(s) : s[j].op = "put"}}

\* A log of events reads back to settled records, all of them its own.
LEMMA ReplayIsSettled ==
  ASSUME NEW s, IsSeq(s), \A i \in 1..Len(s) : IsEvent(s[i])
  PROVE  /\ IsFiniteSet(Replayed(s)) /\ Settling(Replayed(s))
         /\ Replayed(s) \subseteq RecordsOf(s)
<1>1. PICK k \in Nat : k = Len(s)
  BY Longer
<1>2. PICK f : IsReplay(f, s, k) /\ Replayed(s) = f[k]
  BY <1>1, ReplayUnfolds
<1>3. \A n \in 0..k : f[n] = ReplayStep(f, s, n)
  BY <1>2 DEF IsReplay
<1> DEFINE Good(all) == IsFiniteSet(all) /\ Settling(all) /\ all \subseteq RecordsOf(s)
           S == {n \in Nat : n <= k => Good(f[n])}
<1>4. 0 \in S
  <2>1. f[0] = {}
    BY <1>3 DEF ReplayStep
  <2>2. Good({})
    BY FS_EmptySet DEF Settling
  <2> QED BY <2>1, <2>2
<1>5. ASSUME NEW n \in Nat, n \in S PROVE n + 1 \in S
  <2> SUFFICES ASSUME n + 1 <= k PROVE Good(f[n+1])
    OBVIOUS
  <2>1. n + 1 \in 0..k /\ n + 1 \in 1..Len(s) /\ (n + 1) - 1 = n /\ n + 1 # 0
    BY <1>1
  <2>2. f[n+1] = ApplyEvent(f[n], s[n+1])
    BY <1>3, <2>1 DEF ReplayStep
  <2>3. Good(f[n])
    BY <1>5
  <2>4. IsEvent(s[n+1])
    BY <2>1
  <2>5. CASE s[n+1].op = "put"
    <3>1. f[n+1] = ApplyPut(f[n], s[n+1].rec)
      BY <2>2, <2>5 DEF ApplyEvent
    <3>2. s[n+1].rec \in RecordsOf(s)
      BY <2>1, <2>5 DEF RecordsOf
    <3> QED BY <2>3, <3>1, <3>2, PutSettles
  <2>6. CASE s[n+1].op # "put"
    <3>1. f[n+1] = ApplyDelete(f[n], s[n+1].id)
      BY <2>2, <2>6 DEF ApplyEvent
    <3> QED BY <2>3, <3>1, DeleteSettles
  <2> QED BY <2>5, <2>6
<1> HIDE DEF S
<1>6. Nat \subseteq S
  BY <1>4, <1>5, NatSetInduction
<1>7. Good(f[k])
  BY <1>6 DEF S
<1> QED BY <1>2, <1>7

---------------------------------------------------------------------------
(***************************************************************************)
(* A rewritten log reads back what it was written from: its records stand  *)
(* in the order of their ids, each once, and none replaces another.        *)
(***************************************************************************)

Told(c) == \A x, y \in c : x.id \in Nat /\ (x.id = y.id => x = y)
UpToId(c, r) == {x \in c : x.id <= r.id}
Rank(c, r) == Cardinality(UpToId(c, r))

\* No two records have the same place in the order of the ids.
LEMMA RanksDiffer ==
  ASSUME NEW c, IsFiniteSet(c), Told(c), NEW r \in c, NEW q \in c
  PROVE  /\ Rank(c, r) \in 1..Cardinality(c)
         /\ Rank(c, r) = Rank(c, q) => r = q
<1>1. \A x \in c : x.id \in Nat /\ UpToId(c, x) \in SUBSET c /\ x \in UpToId(c, x)
  BY DEF Told, UpToId
<1>2. \A x \in c : IsFiniteSet(UpToId(c, x)) /\ Rank(c, x) \in Nat /\ Rank(c, x) <= Cardinality(c)
  BY <1>1, FS_Subset, FS_CardinalityType DEF Rank
<1>3. Cardinality(c) \in Nat
  BY FS_CardinalityType
<1>4. Rank(c, r) # 0
  BY <1>1, <1>2, FS_EmptySet DEF Rank
<1>5. ASSUME NEW x \in c, NEW y \in c, Rank(c, x) = Rank(c, y), x.id <= y.id PROVE x = y
  <2>1. UpToId(c, x) \in SUBSET UpToId(c, y)
    <3> SUFFICES ASSUME NEW z \in UpToId(c, x) PROVE z \in UpToId(c, y)
      OBVIOUS
    <3>1. z \in c /\ z.id <= x.id /\ z.id \in Nat /\ x.id \in Nat /\ y.id \in Nat
      BY <1>1 DEF UpToId
    <3> QED BY <3>1, <1>5 DEF UpToId
  <2>2. UpToId(c, x) = UpToId(c, y)
    BY <2>1, <1>2, <1>5, FS_Subset DEF Rank
  <2>3. y.id <= x.id
    BY <2>2, <1>1 DEF UpToId
  <2>4. x.id = y.id
    BY <2>3, <1>1, <1>5
  <2> QED BY <2>4 DEF Told
<1>6. Rank(c, r) = Rank(c, q) => r = q
  BY <1>1, <1>5
<1> QED BY <1>2, <1>3, <1>4, <1>6

\* Every place is taken.
LEMMA RanksAreAll ==
  ASSUME NEW c, IsFiniteSet(c), Told(c), NEW i \in 1..Cardinality(c)
  PROVE  \E r \in c : Rank(c, r) = i
<1> DEFINE n == Cardinality(c)
           f == [r \in c |-> Rank(c, r)]
<1>1. n \in Nat
  BY FS_CardinalityType
<1>2. IsFiniteSet(1..n) /\ Cardinality(1..n) = n
  BY <1>1, FS_Interval
<1>3. f \in Injection(c, 1..n)
  <2>1. f \in [c -> 1..n]
    BY RanksDiffer
  <2>2. \A x, y \in c : f[x] = f[y] => x = y
    BY RanksDiffer
  <2> QED BY <2>1, <2>2 DEF Injection, IsInjective
<1>4. f \in Surjection(c, 1..n)
  BY <1>2, <1>3, FS_Injection
<1>5. \E r \in c : f[r] = i
  BY <1>4 DEF Surjection
<1> QED BY <1>5

\* A rewritten log holds each record at its place.
LEMMA LinesAreRecords ==
  ASSUME NEW c, IsFiniteSet(c), Told(c)
  PROVE  /\ IsSeq(Lines(c)) /\ Len(Lines(c)) = Cardinality(c)
         /\ \A i \in 1..Len(Lines(c)) : \E r \in c : Lines(c)[i] = Put(r) /\ Rank(c, r) = i
<1> DEFINE n == Cardinality(c)
           nth(i) == CHOOSE r \in c : Rank(c, r) = i
<1>1. n \in Nat
  BY FS_CardinalityType
<1>2. Lines(c) = [i \in 1..n |-> Put(nth(i))]
  BY DEF Lines, Rank, UpToId
<1>3. \A i \in 1..n : nth(i) \in c /\ Rank(c, nth(i)) = i
  BY RanksAreAll
<1> HIDE DEF nth, n
<1>4. \A i \in 1..n : Lines(c)[i] = Put(nth(i))
  BY <1>2
<1>5. Lines(c) \in Seq({Put(r) : r \in c}) /\ Len(Lines(c)) = n
  BY <1>1, <1>2, <1>3
<1> QED BY <1>3, <1>4, <1>5 DEF IsSeq, n

\* A rewritten log reads back to the records it was written from.
LEMMA SnapshotReadsBack ==
  ASSUME NEW c, IsFiniteSet(c), Told(c), Settling(c)
  PROVE  Replayed(Lines(c)) = c
<1>1. PICK s : s = Lines(c)
  OBVIOUS
<1>2. PICK k \in Nat : k = Cardinality(c)
  BY FS_CardinalityType
<1>3. Len(s) = k /\ \A i \in 1..k : \E r \in c : s[i] = Put(r) /\ Rank(c, r) = i
  BY <1>1, <1>2, LinesAreRecords
<1>4. PICK f : IsReplay(f, s, k) /\ Replayed(s) = f[k]
  BY <1>3, ReplayUnfolds
<1>5. \A n \in 0..k : f[n] = ReplayStep(f, s, n)
  BY <1>4 DEF IsReplay
<1> DEFINE First(n) == {r \in c : Rank(c, r) <= n}
           S == {n \in Nat : n <= k => f[n] = First(n)}
<1>6. \A r \in c : Rank(c, r) \in 1..k
  BY <1>2, RanksDiffer
<1>7. 0 \in S
  <2>1. f[0] = {}
    BY <1>5 DEF ReplayStep
  <2> QED BY <2>1, <1>6
<1>8. ASSUME NEW n \in Nat, n \in S PROVE n + 1 \in S
  <2> SUFFICES ASSUME n + 1 <= k PROVE f[n+1] = First(n+1)
    OBVIOUS
  <2>1. n + 1 \in 0..k /\ n + 1 \in 1..k /\ (n + 1) - 1 = n /\ n + 1 # 0
    OBVIOUS
  <2>2. f[n+1] = ApplyEvent(f[n], s[n+1])
    BY <1>5, <2>1 DEF ReplayStep
  <2>3. f[n] = First(n)
    BY <1>8
  <2>4. PICK r \in c : s[n+1] = Put(r) /\ Rank(c, r) = n + 1
    BY <1>3, <2>1
  <2>5. f[n+1] = ApplyPut(First(n), r)
    BY <2>2, <2>3, <2>4 DEF ApplyEvent, Put
  <2>6. First(n) \cup {r} = First(n+1)
    <3>1. \A x \in c : Rank(c, x) = n + 1 => x = r
      BY <2>4, RanksDiffer
    <3>2. \A x \in c : Rank(c, x) <= n + 1 <=> (Rank(c, x) <= n \/ x = r)
      BY <1>6, <2>4, <3>1
    <3> QED BY <3>2, <2>4
  <2>7. Settling(First(n) \cup {r})
    BY <2>4 DEF Settling
  <2> QED BY <2>5, <2>6, <2>7, PutAdds
<1> HIDE DEF S
<1>9. Nat \subseteq S
  BY <1>7, <1>8, NatSetInduction
<1>10. f[k] = First(k)
  BY <1>9 DEF S
<1>11. First(k) = c
  BY <1>6
<1> QED BY <1>1, <1>4, <1>10, <1>11

---------------------------------------------------------------------------
(***************************************************************************)
(* The invariant.  Whoever is writing has what memory held when it began,  *)
(* and the events since; a log that nothing is owed to reads back to what  *)
(* memory holds.                                                           *)
(***************************************************************************)

Requested(r) ==
  \/ r = Free
  \/ /\ r = [at |-> r.at, scoped |-> r.scoped, rest |-> r.rest, counts |-> r.counts]
     /\ r.at \in {"next", "rewrite", "done", "failed"}

Writing(r) ==
  /\ r = [at |-> "writing", copy |-> r.copy, then |-> r.then]
  /\ r.then = [at |-> "rewrite", scoped |-> r.then.scoped, rest |-> r.then.rest, counts |-> r.then.counts]

Writers == {h \in Reporters : reporter[h].at = "writing"}
Copies == UNION {reporter[h].copy : h \in Writers}

\* Every record the replica may come to hold.
Records == verdicts \cup RecordsOf(verdictLog) \cup RecordsOf(pending) \cup Copies

Known(all) == \A x, y \in all : x.id \in Nat /\ x.id < nextId /\ (x.id = y.id => x = y)

\* Lines read back to what they say but for the last, which may be torn.
Legible(s) == \A i \in 1..Len(s) : IsEvent(s[i]) \/ (i = Len(s) /\ s[i] = Torn)

VerdictTyped ==
  /\ nextId \in Nat /\ logEvents \in Nat
  /\ hole \subseteq {"before", "during"}
  /\ reporter = [h \in Reporters |-> reporter[h]]
  /\ \A h \in Reporters : Requested(reporter[h]) \/ Writing(reporter[h])
  /\ IsSeq(verdictLog) /\ \A i \in 1..Len(verdictLog) : IsLine(verdictLog[i])
  /\ IsSeq(pending) /\ \A i \in 1..Len(pending) : IsEvent(pending[i])

Sets ==
  /\ Known(Records)
  /\ IsFiniteSet(verdicts) /\ Settling(verdicts)
  /\ \A h \in Writers : IsFiniteSet(reporter[h].copy) /\ Settling(reporter[h].copy)

OneWriter ==
  /\ \A h \in Writers : compacting
  /\ \A g, h \in Writers : g = h

RewriteCovers ==
  "during" \notin hole => \A h \in Writers : Replayed(Lines(reporter[h].copy) \o pending) = verdicts

LogIsLegible == "before" \notin hole => Legible(verdictLog)

LogIsCurrent == ~NeedsRewrite /\ hole = {} => Replayed(Whole(verdictLog)) = verdicts

VerdictInv ==
  VerdictTyped /\ Sets /\ OneWriter /\ RewriteCovers /\ LogIsLegible /\ LogIsCurrent

---------------------------------------------------------------------------
\* An event reads as one, and a torn or garbled line does not.
LEMMA EventLine ==
  ASSUME NEW e
  PROVE  /\ IsEvent(e) => Readable(e) /\ IsLine(e) /\ e # Torn
         /\ ~Readable(Torn) /\ ~Readable(Garbled) /\ Torn # Garbled
BY DEF IsEvent, Readable, IsLine, Torn, Garbled, Put, Del

\* A log of events has no last line to drop.
LEMMA WholeOfEvents ==
  ASSUME NEW s, IsSeq(s), \A i \in 1..Len(s) : IsEvent(s[i])
  PROVE  Whole(s) = s
<1>1. Len(s) \in Nat
  BY Longer
<1>2. s # << >> => Len(s) \in 1..Len(s)
  BY <1>1 DEF IsSeq
<1> QED BY <1>2, EventLine DEF Whole

\* A sequence without its last element.
LEMMA Shorter ==
  ASSUME NEW s, IsSeq(s), s # << >>
  PROVE  LET w == SubSeq(s, 1, Len(s) - 1) IN
         /\ IsSeq(w) /\ Len(w) = Len(s) - 1 /\ Len(s) \in Nat \ {0}
         /\ \A i \in 1..Len(w) : w[i] = s[i]
<1>1. PICK S : s \in Seq(S)
  BY DEF IsSeq
<1>2. Len(s) \in Nat \ {0}
  BY <1>1
<1>3. PICK k \in Nat : k = Len(s) - 1
  BY <1>2
<1>4. SubSeq(s, 1, k) \in Seq(S) /\ Len(SubSeq(s, 1, k)) = k /\ \A i \in 1..k : SubSeq(s, 1, k)[i] = s[i]
  BY <1>1, <1>2, <1>3
<1> QED BY <1>2, <1>3, <1>4 DEF IsSeq

\* Only the last line may not decode.
Decodes(s) == \A i \in 1..Len(s) : IsEvent(s[i]) \/ (i = Len(s) /\ ~Readable(s[i]))

\* A legible log, and one that loads, decode but for their last line.
LEMMA LegibleDecodes ==
  ASSUME NEW s
  PROVE  /\ Legible(s) => Decodes(s)
         /\ (Loads(s) /\ \A i \in 1..Len(s) : IsLine(s[i])) => Decodes(s)
BY EventLine DEF Legible, Decodes, Loads, IsLine

\* What a load reads are events.
LEMMA WholeIsEvents ==
  ASSUME NEW s, IsSeq(s), Decodes(s)
  PROVE  /\ IsSeq(Whole(s)) /\ \A i \in 1..Len(Whole(s)) : IsEvent(Whole(s)[i])
         /\ RecordsOf(Whole(s)) \subseteq RecordsOf(s)
         /\ Loads(s)
<1>0. Len(s) \in Nat
  BY Longer
<1>1. Loads(s)
  BY EventLine DEF Loads, Decodes
<1>2. CASE s # << >> /\ ~Readable(s[Len(s)])
  <2>1. PICK w : w = SubSeq(s, 1, Len(s) - 1)
    OBVIOUS
  <2>2. IsSeq(w) /\ Len(w) = Len(s) - 1 /\ \A i \in 1..Len(w) : w[i] = s[i]
    BY <1>2, <2>1, Shorter
  <2>3. \A i \in 1..Len(w) : i \in 1..Len(s) /\ i # Len(s)
    BY <1>0, <2>2
  <2>4. Whole(s) = w
    BY <1>2, <2>1 DEF Whole
  <2>5. RecordsOf(w) \subseteq RecordsOf(s)
    BY <2>2, <2>3 DEF RecordsOf
  <2> QED BY <1>1, <2>2, <2>3, <2>4, <2>5 DEF Decodes
<1>3. CASE ~(s # << >> /\ ~Readable(s[Len(s)]))
  <2>1. Whole(s) = s
    BY <1>3 DEF Whole
  <2>2. ASSUME NEW i \in 1..Len(s) PROVE IsEvent(s[i])
    <3>1. CASE i = Len(s)
      <4>1. s # << >>
        BY <1>0, <2>2
      <4> QED BY <3>1, <4>1, <1>3, EventLine DEF Decodes
    <3>2. CASE i # Len(s)
      BY <3>2 DEF Decodes
    <3> QED BY <3>1, <3>2
  <2> QED BY <1>1, <2>1, <2>2
<1> QED BY <1>2, <1>3

\* The line that an append makes.
LEMMA LineAppended ==
  ASSUME NEW s, IsSeq(s), NEW e
  PROVE  /\ IsSeq(AppendLine(s, e))
         /\ \/ AppendLine(s, e) = Append(s, e) /\ ~(s # << >> /\ s[Len(s)] = Torn)
            \/ /\ s # << >> /\ s[Len(s)] = Torn /\ Len(AppendLine(s, e)) = Len(s)
               /\ AppendLine(s, e)[Len(s)] = Garbled
               /\ \A i \in 1..Len(s) : i # Len(s) => AppendLine(s, e)[i] = s[i]
               /\ AppendLine(s, e) # s /\ AppendLine(s, e) # Append(s, e)
<1>1. CASE s # << >> /\ s[Len(s)] = Torn
  <2>1. PICK S : s \in Seq(S)
    BY DEF IsSeq
  <2>2. PICK T : T = S \cup {Garbled}
    OBVIOUS
  <2>3. s \in Seq(T) /\ Garbled \in T
    BY <2>1, <2>2, SeqMonotonic
  <2>4. Len(s) \in 1..Len(s)
    BY <1>1, <2>1
  <2>5. PICK w : w = [s EXCEPT ![Len(s)] = Garbled]
    OBVIOUS
  <2>6. w \in Seq(T) /\ Len(w) = Len(s) /\ w[Len(s)] = Garbled /\ \A i \in 1..Len(s) : i # Len(s) => w[i] = s[i]
    BY <2>3, <2>4, <2>5
  <2>7. Len(Append(s, e)) = Len(s) + 1 /\ Len(s) \in Nat
    BY Longer DEF IsSeq
  <2>8. w # Append(s, e)
    BY <2>6, <2>7
  <2>9. w # s
    BY <2>6, <1>1, EventLine
  <2> QED BY <1>1, <2>5, <2>6, <2>8, <2>9 DEF AppendLine, IsSeq
<1>2. CASE ~(s # << >> /\ s[Len(s)] = Torn)
  BY <1>2, Longer DEF AppendLine
<1> QED BY <1>1, <1>2

---------------------------------------------------------------------------
\* Two sequences joined.
LEMMA Joined ==
  ASSUME NEW s, NEW t, IsSeq(s), IsSeq(t)
  PROVE  /\ IsSeq(s \o t) /\ Len(s \o t) = Len(s) + Len(t) /\ Len(s) \in Nat /\ Len(t) \in Nat
         /\ \A i \in 1..Len(s) : (s \o t)[i] = s[i]
         /\ \A i \in 1..Len(t) : (s \o t)[Len(s) + i] = t[i]
         /\ \A e : s \o Append(t, e) = Append(s \o t, e)
         /\ s \o << >> = s
<1>1. PICK S : s \in Seq(S)
  BY DEF IsSeq
<1>2. PICK T : t \in Seq(T)
  BY DEF IsSeq
<1>3. s \in Seq(S \cup T) /\ t \in Seq(S \cup T)
  BY <1>1, <1>2, SeqMonotonic
<1>4. s \o t \in Seq(S \cup T) /\ Len(s \o t) = Len(s) + Len(t) /\ Len(s) \in Nat /\ Len(t) \in Nat
  BY <1>3
<1>5. /\ \A i \in 1..Len(s) : (s \o t)[i] = s[i]
      /\ \A i \in 1..Len(t) : (s \o t)[Len(s) + i] = t[i]
  BY <1>3
<1>6. ASSUME NEW e PROVE s \o Append(t, e) = Append(s \o t, e)
  <2>1. PICK U : U = S \cup T \cup {e}
    OBVIOUS
  <2>2. s \in Seq(U) /\ t \in Seq(U) /\ e \in U
    BY <1>1, <1>2, <2>1, SeqMonotonic
  <2> QED BY <2>2
<1>7. s \o << >> = s
  BY <1>1
<1> QED BY <1>4, <1>5, <1>6, <1>7 DEF IsSeq

\* A line more holds a record more, and a line swallowed none.
LEMMA RecordsOfOneMore ==
  ASSUME NEW s, IsSeq(s), NEW e
  PROVE  /\ RecordsOf(Append(s, e)) \subseteq RecordsOf(s) \cup (IF e.op = "put" THEN {e.rec} ELSE {})
         /\ RecordsOf(AppendLine(s, e)) \subseteq RecordsOf(s) \cup (IF e.op = "put" THEN {e.rec} ELSE {})
<1>1. PICK a : a = Append(s, e)
  OBVIOUS
<1>2. /\ Len(s) \in Nat /\ Len(a) = Len(s) + 1 /\ a[Len(s) + 1] = e
      /\ \A i \in 1..Len(s) : a[i] = s[i]
  BY <1>1, Longer
<1>3. \A i \in 1..Len(a) : i \in 1..Len(s) \/ i = Len(s) + 1
  BY <1>2
<1>4. RecordsOf(a) \subseteq RecordsOf(s) \cup (IF e.op = "put" THEN {e.rec} ELSE {})
  <2> SUFFICES ASSUME NEW i \in 1..Len(a), a[i].op = "put"
      PROVE  a[i].rec \in RecordsOf(s) \cup (IF e.op = "put" THEN {e.rec} ELSE {})
    BY DEF RecordsOf
  <2>1. CASE i \in 1..Len(s)
    BY <2>1, <1>2 DEF RecordsOf
  <2>2. CASE i = Len(s) + 1
    BY <2>2, <1>2
  <2> QED BY <1>3, <2>1, <2>2
<1>5. PICK w : w = AppendLine(s, e)
  OBVIOUS
<1>6. CASE w = a
  BY <1>1, <1>4, <1>5, <1>6
<1>7. CASE w # a
  <2>1. Len(w) = Len(s) /\ w[Len(s)] = Garbled /\ \A i \in 1..Len(s) : i # Len(s) => w[i] = s[i]
    BY <1>1, <1>5, <1>7, LineAppended
  <2>2. RecordsOf(w) \subseteq RecordsOf(s)
    <3> SUFFICES ASSUME NEW i \in 1..Len(w), w[i].op = "put" PROVE w[i].rec \in RecordsOf(s)
      BY DEF RecordsOf
    <3>1. i # Len(s)
      BY <2>1 DEF Garbled
    <3>2. w[i] = s[i] /\ i \in 1..Len(s)
      BY <2>1, <3>1
    <3> QED BY <3>2 DEF RecordsOf
  <2> QED BY <1>1, <1>4, <1>5, <2>2
<1> QED BY <1>6, <1>7

\* Two logs joined hold the records of both.
LEMMA RecordsOfJoined ==
  ASSUME NEW s, NEW t, IsSeq(s), IsSeq(t)
  PROVE  RecordsOf(s \o t) \subseteq RecordsOf(s) \cup RecordsOf(t)
<1> SUFFICES ASSUME NEW i \in 1..Len(s \o t), (s \o t)[i].op = "put"
    PROVE  (s \o t)[i].rec \in RecordsOf(s) \cup RecordsOf(t)
  BY DEF RecordsOf
<1>1. Len(s \o t) = Len(s) + Len(t) /\ Len(s) \in Nat /\ Len(t) \in Nat
  BY Joined
<1>2. CASE i \in 1..Len(s)
  <2>1. (s \o t)[i] = s[i]
    BY <1>2, Joined
  <2> QED BY <1>2, <2>1 DEF RecordsOf
<1>3. CASE ~(i \in 1..Len(s))
  <2>1. PICK j \in 1..Len(t) : i = Len(s) + j
    <3>1. i - Len(s) \in 1..Len(t) /\ i = Len(s) + (i - Len(s))
      BY <1>1, <1>3
    <3> QED BY <3>1
  <2>2. (s \o t)[i] = t[j]
    BY <2>1, Joined
  <2> QED BY <2>2 DEF RecordsOf
<1> QED BY <1>2, <1>3

\* What the two kinds of events are made of.
LEMMA PutAndDel ==
  /\ \A r : Put(r).op = "put" /\ Put(r).rec = r /\ IsEvent(Put(r))
  /\ \A id : Del(id).op = "del" /\ Del(id).id = id /\ IsEvent(Del(id))
BY DEF Put, Del, IsEvent

\* A copy written out, and events after it, are a log of events.
LEMMA LinesAreEvents ==
  ASSUME NEW c, IsFiniteSet(c), Told(c), NEW t, IsSeq(t), \A i \in 1..Len(t) : IsEvent(t[i])
  PROVE  /\ IsSeq(Lines(c) \o t) /\ \A i \in 1..Len(Lines(c) \o t) : IsEvent((Lines(c) \o t)[i])
         /\ RecordsOf(Lines(c) \o t) \subseteq c \cup RecordsOf(t)
<1>1. PICK s : s = Lines(c)
  OBVIOUS
<1>2. IsSeq(s) /\ \A i \in 1..Len(s) : \E r \in c : s[i] = Put(r)
  BY <1>1, LinesAreRecords
<1>3. /\ IsSeq(s \o t) /\ Len(s \o t) = Len(s) + Len(t) /\ Len(s) \in Nat /\ Len(t) \in Nat
      /\ \A i \in 1..Len(s) : (s \o t)[i] = s[i]
      /\ \A i \in 1..Len(t) : (s \o t)[Len(s) + i] = t[i]
  BY <1>2, Joined
<1>4. ASSUME NEW i \in 1..Len(s \o t) PROVE IsEvent((s \o t)[i])
  <2>1. CASE i \in 1..Len(s)
    BY <2>1, <1>2, <1>3, PutAndDel
  <2>2. CASE ~(i \in 1..Len(s))
    <3>1. PICK j \in 1..Len(t) : i = Len(s) + j
      <4>1. i - Len(s) \in 1..Len(t) /\ i = Len(s) + (i - Len(s))
        BY <1>3, <2>2
      <4> QED BY <4>1
    <3> QED BY <3>1, <1>3
  <2> QED BY <2>1, <2>2
<1>5. RecordsOf(s) \subseteq c
  <2> SUFFICES ASSUME NEW i \in 1..Len(s) PROVE s[i].rec \in c
    BY DEF RecordsOf
  <2> QED BY <1>2, PutAndDel
<1> QED BY <1>1, <1>2, <1>3, <1>4, <1>5, RecordsOfJoined

---------------------------------------------------------------------------
\* A handler that is not writing does something else than write.
LEMMA Turns ==
  ASSUME VerdictTyped, NEW h \in Reporters, NEW q, Moves(h, q), Requested(q), reporter[h].at # "writing"
  PROVE  /\ reporter' = [g \in Reporters |-> reporter'[g]]
         /\ \A g \in Reporters : Requested(reporter'[g]) \/ Writing(reporter'[g])
         /\ Writers' = Writers /\ Copies' = Copies
         /\ \A g \in Writers : reporter'[g] = reporter[g]
<1>1. reporter' = [g \in Reporters |-> IF g = h THEN q ELSE reporter[g]]
  BY DEF Moves, VerdictTyped
<1>2. q.at # "writing"
  BY DEF Requested, Free
<1>3. \A g \in Reporters : reporter'[g] = IF g = h THEN q ELSE reporter[g]
  BY <1>1
<1>4. \A g \in Reporters : reporter'[g].at = "writing" <=> reporter[g].at = "writing"
  BY <1>2, <1>3
<1>5. Writers' = Writers
  BY <1>4 DEF Writers
<1>6. \A g \in Writers : reporter'[g] = reporter[g]
  BY <1>3 DEF Writers
<1>7. Copies' = Copies
  BY <1>5, <1>6 DEF Copies
<1> QED BY <1>1, <1>3, <1>5, <1>6, <1>7 DEF VerdictTyped

\* A request that turns to something else, field by field.
LEMMA Turned ==
  ASSUME NEW r, NEW v,
         r = [at |-> r.at, scoped |-> r.scoped, rest |-> r.rest, counts |-> r.counts]
  PROVE  [r EXCEPT !.at = v] = [at |-> v, scoped |-> r.scoped, rest |-> r.rest, counts |-> r.counts]
<1>1. PICK a, b, c, d : r = [at |-> a, scoped |-> b, rest |-> c, counts |-> d]
  OBVIOUS
<1> QED BY <1>1

\* It is a request still.
LEMMA TurnedRequested ==
  ASSUME NEW r, NEW v \in {"next", "rewrite", "done", "failed"},
         r = [at |-> r.at, scoped |-> r.scoped, rest |-> r.rest, counts |-> r.counts]
  PROVE  Requested([r EXCEPT !.at = v])
BY Turned DEF Requested

\* A handler that touches nothing but its own request.
LEMMA Quiet ==
  ASSUME VerdictInv, NEW h \in Reporters, NEW q, Moves(h, q), Requested(q), reporter[h].at # "writing",
         verdicts' = verdicts, verdictLog' = verdictLog, logEvents' = logEvents, legacy' = legacy,
         dirty' = dirty, compacting' = compacting, pending' = pending, nextId' = nextId, hole' = hole
  PROVE  VerdictInv'
<1>1. /\ reporter' = [g \in Reporters |-> reporter'[g]]
      /\ \A g \in Reporters : Requested(reporter'[g]) \/ Writing(reporter'[g])
      /\ Writers' = Writers /\ Copies' = Copies
      /\ \A g \in Writers : reporter'[g] = reporter[g]
  BY Turns DEF VerdictInv
<1>2. VerdictTyped'
  BY <1>1 DEF VerdictInv, VerdictTyped
<1>3. Records' = Records
  BY <1>1 DEF Records, RecordsOf
<1>4. Sets'
  BY <1>1, <1>3 DEF VerdictInv, Sets, Known, Settling, Accumulates
<1>5. OneWriter' /\ RewriteCovers'
  BY <1>1 DEF VerdictInv, OneWriter, RewriteCovers
<1>6. LogIsLegible' /\ LogIsCurrent'
  BY DEF VerdictInv, LogIsLegible, LogIsCurrent, NeedsRewrite, Legible
<1> QED BY <1>2, <1>4, <1>5, <1>6 DEF VerdictInv

\* A record of the next id is told from all before it.
LEMMA RecordsStayKnown ==
  ASSUME Known(Records), NEW ev, nextId \in Nat,
         ev.op = "put" => (ev.rec.id = nextId /\ nextId' = nextId + 1),
         ev.op # "put" => nextId' = nextId,
         Records' \subseteq Records \cup (IF ev.op = "put" THEN {ev.rec} ELSE {})
  PROVE  Known(Records)'
<1> SUFFICES ASSUME NEW x \in Records', NEW y \in Records'
    PROVE  x.id \in Nat /\ x.id < nextId' /\ (x.id = y.id => x = y)
  BY DEF Known
<1>1. CASE ev.op = "put"
  BY <1>1 DEF Known
<1>2. CASE ev.op # "put"
  BY <1>2 DEF Known
<1> QED BY <1>1, <1>2

\* A verdict put or withdrawn, and its event noted.
LEMMA NoteKeeps ==
  ASSUME VerdictInv, NEW h \in Reporters, NEW asked, NEW ev, NEW live,
         asked = [at |-> asked.at, scoped |-> asked.scoped, rest |-> asked.rest, counts |-> asked.counts],
         IsEvent(ev),
         ev.op = "put" => (ev.rec.id = nextId /\ nextId' = nextId + 1),
         ev.op # "put" => nextId' = nextId,
         verdicts' = ApplyEvent(verdicts, ev),
         reporter[h].at # "writing",
         Note(h, asked, ev, live), Hole(ev), compacting' = compacting, legacy' = legacy
  PROVE  VerdictInv'
<1> DEFINE fresh == IF ev.op = "put" THEN {ev.rec} ELSE {}
<1>a. VerdictTyped /\ Sets /\ OneWriter /\ RewriteCovers /\ LogIsLegible /\ LogIsCurrent
  BY DEF VerdictInv
<1>b. /\ nextId \in Nat /\ logEvents \in Nat /\ hole \subseteq {"before", "during"}
      /\ IsSeq(verdictLog) /\ IsSeq(pending)
      /\ \A i \in 1..Len(verdictLog) : IsLine(verdictLog[i])
      /\ \A i \in 1..Len(pending) : IsEvent(pending[i])
  BY <1>a DEF VerdictTyped
<1>1. \/ /\ NeedsRewrite /\ verdictLog' = verdictLog /\ logEvents' = logEvents /\ dirty' = dirty /\ pending' = pending
      \/ /\ ~NeedsRewrite /\ verdictLog' = AppendLine(verdictLog, ev) /\ logEvents' = logEvents + 1 /\ dirty' = dirty
         /\ pending' = IF compacting THEN Append(pending, ev) ELSE pending
      \/ /\ ~NeedsRewrite /\ verdictLog' \in {verdictLog, AppendLine(verdictLog, Torn)} /\ logEvents' = logEvents /\ dirty'
         /\ pending' = pending
  BY DEF Note
<1>2. \E q : Moves(h, q) /\ Requested(q)
  <2>1. Requested([asked EXCEPT !.at = "rewrite"]) /\ Requested([asked EXCEPT !.at = "done"])
    BY TurnedRequested
  <2>2. \/ Moves(h, [asked EXCEPT !.at = "rewrite"])
        \/ Moves(h, [asked EXCEPT !.at = IF logEvents' > CompactThreshold(live) THEN "rewrite" ELSE "done"])
    BY DEF Note
  <2>3. CASE logEvents' > CompactThreshold(live)
    BY <2>1, <2>2, <2>3
  <2>4. CASE ~(logEvents' > CompactThreshold(live))
    BY <2>1, <2>2, <2>4
  <2> QED BY <2>3, <2>4
<1>3. /\ reporter' = [g \in Reporters |-> reporter'[g]]
      /\ \A g \in Reporters : Requested(reporter'[g]) \/ Writing(reporter'[g])
      /\ Writers' = Writers /\ Copies' = Copies
      /\ \A g \in Writers : reporter'[g] = reporter[g]
  BY <1>2, <1>a, Turns
<1>4. /\ hole' \subseteq {"before", "during"} /\ hole \subseteq hole'
      /\ "before" \notin hole' =>
           ~(verdictLog' # verdictLog /\ verdictLog' = AppendLine(verdictLog, ev) /\ verdictLog' # Append(verdictLog, ev))
      /\ "during" \notin hole' => ~(compacting /\ (NeedsRewrite \/ dirty'))
  BY <1>b DEF Hole
<1>5. IsEvent(ev) /\ ev # Torn /\ IsLine(ev) /\ IsLine(Torn) /\ IsLine(Garbled) /\ Torn.op # "put"
  BY EventLine DEF IsLine, Torn
<1>6. IsSeq(verdictLog') /\ \A i \in 1..Len(verdictLog') : IsLine(verdictLog'[i])
  <2>1. ASSUME NEW e, IsLine(e), verdictLog' = AppendLine(verdictLog, e)
        PROVE  IsSeq(verdictLog') /\ \A i \in 1..Len(verdictLog') : IsLine(verdictLog'[i])
    <3>1. CASE AppendLine(verdictLog, e) = Append(verdictLog, e)
      <4>1. \A i \in 1..Len(verdictLog') : i \in 1..Len(verdictLog) \/ i = Len(verdictLog) + 1
        BY <1>b, <2>1, <3>1, Longer
      <4> QED BY <1>b, <2>1, <3>1, <4>1, Longer
    <3>2. CASE AppendLine(verdictLog, e) # Append(verdictLog, e)
      BY <1>b, <1>5, <2>1, <3>2, LineAppended
    <3> QED BY <3>1, <3>2
  <2> QED BY <1>1, <1>5, <1>b, <2>1
<1>7. IsSeq(pending') /\ \A i \in 1..Len(pending') : IsEvent(pending'[i])
  <2>1. CASE pending' = Append(pending, ev)
    <3>1. \A i \in 1..Len(pending') : i \in 1..Len(pending) \/ i = Len(pending) + 1
      BY <1>b, <2>1, Longer
    <3> QED BY <1>b, <1>5, <2>1, <3>1, Longer
  <2>2. CASE pending' = pending
    BY <1>b, <2>2
  <2> QED BY <1>1, <2>1, <2>2
<1>8. VerdictTyped'
  <2>1. nextId' \in Nat /\ logEvents' \in Nat
    BY <1>1, <1>b
  <2> QED BY <2>1, <1>3, <1>4, <1>6, <1>7 DEF VerdictTyped
<1>9. IsFiniteSet(verdicts') /\ Settling(verdicts') /\ verdicts' \subseteq verdicts \cup fresh
  <2>1. IsFiniteSet(verdicts) /\ Settling(verdicts)
    BY <1>a DEF Sets
  <2>2. CASE ev.op = "put"
    BY <2>1, <2>2, PutSettles DEF ApplyEvent
  <2>3. CASE ev.op # "put"
    BY <2>1, <2>3, DeleteSettles DEF ApplyEvent
  <2> QED BY <2>2, <2>3
<1>10. Records' \subseteq Records \cup fresh
  <2>1. RecordsOf(verdictLog') \subseteq RecordsOf(verdictLog) \cup fresh
    <3>1. RecordsOf(AppendLine(verdictLog, ev)) \subseteq RecordsOf(verdictLog) \cup fresh
      BY <1>b, RecordsOfOneMore
    <3>2. RecordsOf(AppendLine(verdictLog, Torn)) \subseteq RecordsOf(verdictLog)
      BY <1>b, <1>5, RecordsOfOneMore
    <3> QED BY <1>1, <3>1, <3>2
  <2>2. RecordsOf(pending') \subseteq RecordsOf(pending) \cup fresh
    <3>1. RecordsOf(Append(pending, ev)) \subseteq RecordsOf(pending) \cup fresh
      BY <1>b, RecordsOfOneMore
    <3> QED BY <1>1, <3>1
  <2>3. Records' = verdicts' \cup RecordsOf(verdictLog') \cup RecordsOf(pending') \cup Copies'
    BY DEF Records, RecordsOf
  <2> HIDE DEF fresh
  <2> QED BY <1>3, <1>9, <2>1, <2>2, <2>3 DEF Records
<1>11. Sets'
  <2>1. Known(Records)'
    BY <1>a, <1>b, <1>10, RecordsStayKnown DEF Sets
  <2>2. \A g \in Writers' : IsFiniteSet(reporter'[g].copy) /\ Settling(reporter'[g].copy)
    BY <1>3, <1>a DEF Sets
  <2> QED BY <1>9, <2>1, <2>2 DEF Sets, Settling, Accumulates
<1>12. OneWriter'
  BY <1>3, <1>a DEF OneWriter
<1>13. RewriteCovers'
  <2> SUFFICES ASSUME "during" \notin hole', NEW g \in Writers
      PROVE  Replayed(Lines(reporter'[g].copy) \o pending') = verdicts'
    BY <1>3 DEF RewriteCovers
  <2>1. compacting /\ ~NeedsRewrite /\ ~dirty'
    BY <1>4, <1>a DEF OneWriter
  <2>2. pending' = Append(pending, ev)
    BY <1>1, <2>1
  <2>3. PICK c : c = reporter[g].copy
    OBVIOUS
  <2>4. Replayed(Lines(c) \o pending) = verdicts
    BY <1>4, <1>a, <2>3 DEF RewriteCovers
  <2>5. IsFiniteSet(c) /\ Told(c)
    BY <1>a, <2>3 DEF Sets, Known, Records, Copies, Told
  <2>6. IsSeq(Lines(c) \o pending) /\ Lines(c) \o Append(pending, ev) = Append(Lines(c) \o pending, ev)
    BY <1>b, <2>5, LinesAreRecords, Joined
  <2>7. Replayed(Append(Lines(c) \o pending, ev)) = ApplyEvent(verdicts, ev)
    BY <2>4, <2>6, ReplayOfOneMore
  <2> QED BY <1>3, <2>2, <2>3, <2>6, <2>7
<1>14. ASSUME "before" \notin hole', NEW e, e = ev \/ e = Torn, verdictLog' = AppendLine(verdictLog, e)
       PROVE  verdictLog' = Append(verdictLog, e) /\ \A i \in 1..Len(verdictLog) : IsEvent(verdictLog[i])
  <2>1. Legible(verdictLog)
    BY <1>14, <1>4, <1>a DEF LogIsLegible
  <2>2. CASE verdictLog # << >> /\ verdictLog[Len(verdictLog)] = Torn
    <3>1. AppendLine(verdictLog, e) = AppendLine(verdictLog, ev)
      BY <2>2 DEF AppendLine
    <3>2. AppendLine(verdictLog, ev) # verdictLog /\ AppendLine(verdictLog, ev) # Append(verdictLog, ev)
      BY <2>2, <1>b, LineAppended
    <3> QED BY <1>14, <1>4, <3>1, <3>2
  <2>3. CASE ~(verdictLog # << >> /\ verdictLog[Len(verdictLog)] = Torn)
    <3>1. verdictLog' = Append(verdictLog, e)
      BY <1>14, <2>3 DEF AppendLine
    <3>2. ASSUME NEW i \in 1..Len(verdictLog) PROVE IsEvent(verdictLog[i])
      <4>1. verdictLog # << >>
        OBVIOUS
      <4> QED BY <2>1, <2>3, <4>1 DEF Legible
    <3> QED BY <3>1, <3>2
  <2> QED BY <2>2, <2>3
<1>15. LogIsLegible'
  <2> SUFFICES ASSUME "before" \notin hole' PROVE Legible(verdictLog')
    BY DEF LogIsLegible, Legible
  <2>1. CASE verdictLog' = verdictLog
    BY <2>1, <1>4, <1>a DEF LogIsLegible
  <2>2. CASE verdictLog' # verdictLog
    <3>1. PICK e : (e = ev \/ e = Torn) /\ verdictLog' = AppendLine(verdictLog, e)
      BY <1>1, <2>2
    <3>2. verdictLog' = Append(verdictLog, e) /\ \A i \in 1..Len(verdictLog) : IsEvent(verdictLog[i])
      BY <1>14, <3>1
    <3>3. /\ Len(verdictLog') = Len(verdictLog) + 1 /\ verdictLog'[Len(verdictLog) + 1] = e /\ Len(verdictLog) \in Nat
          /\ \A i \in 1..Len(verdictLog) : verdictLog'[i] = verdictLog[i]
      BY <1>b, <3>2, Longer
    <3>4. \A i \in 1..Len(verdictLog') : i \in 1..Len(verdictLog) \/ i = Len(verdictLog')
      BY <3>3
    <3> QED BY <1>5, <3>1, <3>2, <3>3, <3>4 DEF Legible
  <2> QED BY <2>1, <2>2
<1>16. LogIsCurrent'
  <2> SUFFICES ASSUME ~NeedsRewrite', hole' = {} PROVE Replayed(Whole(verdictLog')) = verdicts'
    BY DEF LogIsCurrent, Whole, Readable, Replayed, ApplyEvent, ApplyPut, ApplyDelete, Accumulates
  <2>1. ~NeedsRewrite /\ verdictLog' = AppendLine(verdictLog, ev)
    BY <1>1 DEF NeedsRewrite
  <2>2. hole = {} /\ "before" \notin hole'
    BY <1>4
  <2>3. verdictLog' = Append(verdictLog, ev) /\ \A i \in 1..Len(verdictLog) : IsEvent(verdictLog[i])
    BY <1>14, <2>1, <2>2
  <2>4. Replayed(verdictLog) = verdicts
    BY <2>1, <2>2, <2>3, <1>a, <1>b, WholeOfEvents DEF LogIsCurrent
  <2>5. \A i \in 1..Len(verdictLog') : IsEvent(verdictLog'[i])
    <3>1. \A i \in 1..Len(verdictLog') : i \in 1..Len(verdictLog) \/ i = Len(verdictLog) + 1
      BY <1>b, <2>3, Longer
    <3> QED BY <1>b, <1>5, <2>3, <3>1, Longer
  <2>6. Whole(verdictLog') = verdictLog'
    BY <1>6, <2>5, WholeOfEvents
  <2> QED BY <1>b, <2>3, <2>4, <2>6, ReplayOfOneMore
<1> QED BY <1>8, <1>11, <1>12, <1>13, <1>15, <1>16 DEF VerdictInv

---------------------------------------------------------------------------
\* A request written out is one.
LEMMA LiteralRequest ==
  ASSUME NEW at \in {"next", "rewrite", "done", "failed"}, NEW scoped, NEW rest, NEW counts
  PROVE  Requested([at |-> at, scoped |-> scoped, rest |-> rest, counts |-> counts])
BY DEF Requested

\* What a handler is at tells the fields it has.
LEMMA RequestOf ==
  ASSUME VerdictTyped, NEW h \in Reporters
  PROVE  /\ reporter[h].at \in {"next", "rewrite", "done", "failed"} =>
              reporter[h] = [at |-> reporter[h].at, scoped |-> reporter[h].scoped,
                             rest |-> reporter[h].rest, counts |-> reporter[h].counts]
         /\ reporter[h].at = "writing" => Writing(reporter[h])
<1>1. Requested(reporter[h]) \/ Writing(reporter[h])
  BY DEF VerdictTyped
<1>2. Writing(reporter[h]) => reporter[h].at = "writing"
  BY DEF Writing
<1>3. Requested(reporter[h]) => reporter[h].at # "writing"
  BY DEF Requested, Free
<1>4. (Requested(reporter[h]) /\ reporter[h].at # "free") =>
        reporter[h] = [at |-> reporter[h].at, scoped |-> reporter[h].scoped,
                       rest |-> reporter[h].rest, counts |-> reporter[h].counts]
  BY DEF Requested, Free
<1> QED BY <1>1, <1>2, <1>3, <1>4

\* A handler writes, or is at something else.
LEMMA Apart ==
  ASSUME NEW r
  PROVE  /\ Writing(r) => r.at = "writing"
         /\ Requested(r) => r.at # "writing"
BY DEF Writing, Requested, Free

\* A finding counted changes nothing but the handler.
LEMMA CountedQuietly ==
  ASSUME VerdictInv, NEW h \in Reporters, NEW count, Counted(h, count), reporter[h].at # "writing",
         verdicts' = verdicts, verdictLog' = verdictLog, logEvents' = logEvents, legacy' = legacy,
         dirty' = dirty, compacting' = compacting, pending' = pending, nextId' = nextId, hole' = hole
  PROVE  VerdictInv'
<1>1. PICK q : q = [at |-> "next", scoped |-> reporter[h].scoped, rest |-> Tail(reporter[h].rest),
                    counts |-> [reporter[h].counts EXCEPT ![count] = @ + 1]]
  OBVIOUS
<1>2. Moves(h, q)
  BY <1>1 DEF Counted
<1>3. Requested(q)
  BY <1>1, LiteralRequest
<1> QED BY <1>2, <1>3, Quiet

\* Reports begin, skip, count and end.
LEMMA ReportSteps ==
  ASSUME VerdictInv, NEW h \in Reporters,
         \/ \E scoped \in BOOLEAN, findings \in Report : PostReport(h, scoped, findings)
         \/ SkipFinding(h) \/ EndFinding(h) \/ EndReport(h)
  PROVE  VerdictInv'
<1>1. ASSUME NEW scoped \in BOOLEAN, NEW findings \in Report, PostReport(h, scoped, findings)
      PROVE  VerdictInv'
  <2>1. PICK q : q = Asked(scoped, findings)
    OBVIOUS
  <2>2. Requested(q) /\ Moves(h, q) /\ reporter[h].at # "writing"
    BY <1>1, <2>1, LiteralRequest DEF PostReport, Asked, Free
  <2>3. /\ verdicts' = verdicts /\ verdictLog' = verdictLog /\ logEvents' = logEvents /\ legacy' = legacy
        /\ dirty' = dirty /\ compacting' = compacting /\ pending' = pending /\ nextId' = nextId /\ hole' = hole
    BY <1>1 DEF PostReport, bookkeeping
  <2> QED BY <2>2, <2>3, Quiet
<1>2. ASSUME SkipFinding(h) PROVE VerdictInv'
  <2>1. /\ reporter[h].at # "writing" /\ \E count : Counted(h, count)
        /\ verdicts' = verdicts /\ verdictLog' = verdictLog /\ logEvents' = logEvents /\ legacy' = legacy
        /\ dirty' = dirty /\ compacting' = compacting /\ pending' = pending /\ nextId' = nextId /\ hole' = hole
    BY <1>2 DEF SkipFinding, bookkeeping
  <2> QED BY <2>1, CountedQuietly
<1>3. ASSUME EndFinding(h) PROVE VerdictInv'
  <2>1. /\ reporter[h].at # "writing" /\ \E count : Counted(h, count)
        /\ verdicts' = verdicts /\ verdictLog' = verdictLog /\ logEvents' = logEvents /\ legacy' = legacy
        /\ dirty' = dirty /\ compacting' = compacting /\ pending' = pending /\ nextId' = nextId /\ hole' = hole
    BY <1>3 DEF EndFinding, bookkeeping
  <2> QED BY <2>1, CountedQuietly
<1>4. ASSUME EndReport(h) PROVE VerdictInv'
  <2>1. /\ reporter[h].at # "writing" /\ Moves(h, Free) /\ Requested(Free)
        /\ verdicts' = verdicts /\ verdictLog' = verdictLog /\ logEvents' = logEvents /\ legacy' = legacy
        /\ dirty' = dirty /\ compacting' = compacting /\ pending' = pending /\ nextId' = nextId /\ hole' = hole
    BY <1>4 DEF EndReport, bookkeeping, Requested
  <2> QED BY <2>1, Quiet
<1> QED BY <1>1, <1>2, <1>3, <1>4

\* A verdict recorded.
LEMMA PutVerdictKeeps ==
  ASSUME VerdictInv, NEW h \in Reporters, PutVerdict(h)
  PROVE  VerdictInv'
<1>1. PICK r : r = BuildRecord(Head(reporter[h].rest), MatchPath(Head(reporter[h].rest)))
  OBVIOUS
<1>2. r.id = nextId
  BY <1>1 DEF BuildRecord
<1>3. PICK ev : ev = Put(r)
  OBVIOUS
<1>4. ev.op = "put" /\ ev.rec = r /\ IsEvent(ev)
  BY <1>3, PutAndDel
<1>5. /\ reporter[h].at = "next" /\ verdicts' = ApplyPut(verdicts, r)
      /\ Note(h, reporter[h], ev, Cardinality(verdicts')) /\ Hole(ev)
      /\ nextId' = nextId + 1 /\ legacy' = legacy /\ compacting' = compacting
  BY <1>1, <1>3 DEF PutVerdict
<1>6. verdicts' = ApplyEvent(verdicts, ev)
  BY <1>4, <1>5 DEF ApplyEvent
<1>7. PICK asked : asked = reporter[h]
  OBVIOUS
<1>8. asked = [at |-> asked.at, scoped |-> asked.scoped, rest |-> asked.rest, counts |-> asked.counts]
  BY <1>5, <1>7, RequestOf DEF VerdictInv
<1>9. PICK live : live = Cardinality(verdicts')
  OBVIOUS
<1>10. Note(h, asked, ev, live)
  BY <1>5, <1>7, <1>9
<1> QED BY <1>2, <1>4, <1>5, <1>6, <1>8, <1>10, NoteKeeps

\* A verdict withdrawn.
LEMMA DeleteVerdictKeeps ==
  ASSUME VerdictInv, NEW h \in Reporters, NEW scoped, NEW r, DeleteVerdict(h, scoped, r)
  PROVE  VerdictInv'
<1>1. PICK ev : ev = Del(r.id)
  OBVIOUS
<1>2. ev.op # "put" /\ ev.id = r.id /\ IsEvent(ev)
  BY <1>1, PutAndDel
<1>3. PICK asked : asked = Asked(scoped, <<r>>)
  OBVIOUS
<1>4. asked = [at |-> asked.at, scoped |-> asked.scoped, rest |-> asked.rest, counts |-> asked.counts]
  BY <1>3 DEF Asked
<1>5. PICK live : live = Cardinality(verdicts')
  OBVIOUS
<1>6. /\ reporter[h].at # "writing" /\ verdicts' = ApplyDelete(verdicts, r.id)
      /\ Note(h, asked, ev, live) /\ Hole(ev)
      /\ nextId' = nextId /\ legacy' = legacy /\ compacting' = compacting
  BY <1>1, <1>3, <1>5 DEF DeleteVerdict, Free
<1>7. verdicts' = ApplyEvent(verdicts, ev)
  BY <1>2, <1>6 DEF ApplyEvent
<1> QED BY <1>2, <1>4, <1>6, <1>7, NoteKeeps

---------------------------------------------------------------------------
\* A rewrite begins with what memory holds, unless one is under way.
LEMMA CompactBeginsKeeps ==
  ASSUME VerdictInv, NEW h \in Reporters, CompactBegins(h)
  PROVE  VerdictInv'
<1>a. VerdictTyped /\ Sets /\ OneWriter /\ RewriteCovers /\ LogIsLegible /\ LogIsCurrent
  BY DEF VerdictInv
<1>0. /\ reporter[h].at = "rewrite" /\ verdicts' = verdicts /\ verdictLog' = verdictLog /\ logEvents' = logEvents
      /\ legacy' = legacy /\ dirty' = dirty /\ nextId' = nextId
  BY DEF CompactBegins
<1>1. PICK r : r = reporter[h]
  OBVIOUS
<1>2. r = [at |-> r.at, scoped |-> r.scoped, rest |-> r.rest, counts |-> r.counts] /\ r.at = "rewrite"
  BY <1>0, <1>1, <1>a, RequestOf
<1>3. CASE compacting
  <2>1. PICK q : q = [r EXCEPT !.at = "done"]
    OBVIOUS
  <2>2. Requested(q)
    BY <1>2, <2>1, TurnedRequested
  <2>3. Moves(h, q) /\ compacting' = compacting /\ pending' = pending /\ hole' = hole
    BY <1>1, <1>3, <2>1 DEF CompactBegins
  <2> QED BY <1>0, <2>2, <2>3, Quiet
<1>4. CASE ~compacting
  <2>1. PICK q : q = [at |-> "writing", copy |-> verdicts, then |-> r]
    OBVIOUS
  <2>2. /\ compacting' /\ pending' = << >> /\ Moves(h, q)
        /\ hole' = IF hole = {} THEN {} ELSE {"before"}
    BY <1>1, <1>4, <2>1 DEF CompactBegins
  <2>3. Writing(q) /\ q.copy = verdicts /\ q.at = "writing"
    BY <1>2, <2>1 DEF Writing
  <2>4. reporter' = [g \in Reporters |-> IF g = h THEN q ELSE reporter[g]]
    BY <2>2, <1>a DEF Moves, VerdictTyped
  <2>5. \A g \in Reporters : reporter'[g] = IF g = h THEN q ELSE reporter[g]
    BY <2>4
  <2>6. Writers = {}
    BY <1>4, <1>a DEF OneWriter
  <2>7. Writers' = {h}
    <3>1. \A g \in Reporters : reporter'[g].at = "writing" <=> g = h
      BY <2>3, <2>5, <2>6 DEF Writers
    <3> QED BY <3>1 DEF Writers
  <2>8. reporter'[h] = q
    BY <2>5
  <2>9. IsSeq(pending') /\ Len(pending') = 0 /\ RecordsOf(pending') = {}
    <3>1. pending' \in Seq({}) /\ Len(pending') = 0
      BY <2>2, EmptySeq
    <3> QED BY <3>1 DEF IsSeq, RecordsOf
  <2>10. VerdictTyped'
    <3>1. \A g \in Reporters : Requested(reporter'[g]) \/ Writing(reporter'[g])
      BY <2>3, <2>5, <1>a DEF VerdictTyped
    <3>2. hole' \subseteq {"before", "during"}
      BY <2>2
    <3>3. reporter' = [g \in Reporters |-> reporter'[g]]
      BY <2>4
    <3> QED BY <1>0, <1>a, <2>9, <3>1, <3>2, <3>3 DEF VerdictTyped
  <2>11. Sets'
    <3>1. Copies' = verdicts
      BY <2>3, <2>7, <2>8 DEF Copies
    <3>2. Records' \subseteq Records
      BY <1>0, <2>9, <3>1 DEF Records, RecordsOf
    <3>3. Known(Records)'
      BY <1>0, <1>a, <3>2 DEF Sets, Known
    <3> QED BY <1>0, <1>a, <2>3, <2>7, <2>8, <3>3 DEF Sets, Settling, Accumulates
  <2>12. OneWriter'
    BY <2>2, <2>7 DEF OneWriter
  <2>13. RewriteCovers'
    <3>1. IsFiniteSet(verdicts) /\ Settling(verdicts) /\ Told(verdicts)
      BY <1>a DEF Sets, Known, Records, Told
    <3>2. Replayed(Lines(verdicts)) = verdicts /\ IsSeq(Lines(verdicts))
      BY <3>1, SnapshotReadsBack, LinesAreRecords
    <3>3. Lines(verdicts) \o << >> = Lines(verdicts)
      BY <3>2, <2>2, <2>9, Joined
    <3>4. \A g \in Writers' : Lines(reporter'[g].copy) \o pending' = Lines(verdicts)
      BY <2>2, <2>3, <2>7, <2>8, <3>3
    <3>5. Replayed(Lines(verdicts)) = verdicts'
      BY <3>2, <1>0
    <3> QED BY <3>4, <3>5 DEF RewriteCovers
  <2>14. LogIsLegible'
    <3>1. "before" \notin hole' => "before" \notin hole
      BY <2>2
    <3> QED BY <1>0, <1>a, <3>1 DEF LogIsLegible, Legible
  <2>15. LogIsCurrent'
    <3>1. hole' = {} => hole = {}
      BY <2>2
    <3> QED BY <1>0, <1>a, <3>1 DEF LogIsCurrent, NeedsRewrite
  <2> QED BY <2>10, <2>11, <2>12, <2>13, <2>14, <2>15 DEF VerdictInv
<1> QED BY <1>3, <1>4

\* The rewritten log: the copy a writer began with, and the events since.
LEMMA Rewritten ==
  ASSUME VerdictInv, NEW h \in Reporters, reporter[h].at = "writing",
         NEW s, s = Lines(reporter[h].copy) \o pending
  PROVE  /\ IsSeq(s) /\ \A i \in 1..Len(s) : IsEvent(s[i]) /\ IsLine(s[i])
         /\ Legible(s) /\ Whole(s) = s
         /\ RecordsOf(s) \subseteq Copies \cup RecordsOf(pending)
         /\ "during" \notin hole => Replayed(s) = verdicts
<1>a. VerdictTyped /\ Sets /\ OneWriter /\ RewriteCovers
  BY DEF VerdictInv
<1>0. h \in Writers
  BY DEF Writers
<1>1. PICK c : c = reporter[h].copy
  OBVIOUS
<1>2. c \subseteq Copies
  BY <1>0, <1>1 DEF Copies
<1>3. IsFiniteSet(c) /\ Told(c)
  BY <1>a, <1>0, <1>1, <1>2 DEF Sets, Known, Records, Told
<1>4. IsSeq(pending) /\ \A i \in 1..Len(pending) : IsEvent(pending[i])
  BY <1>a DEF VerdictTyped
<1>5. IsSeq(s) /\ (\A i \in 1..Len(s) : IsEvent(s[i])) /\ RecordsOf(s) \subseteq c \cup RecordsOf(pending)
  BY <1>1, <1>3, <1>4, LinesAreEvents
<1>6. Whole(s) = s
  BY <1>5, WholeOfEvents
<1>7. "during" \notin hole => Replayed(s) = verdicts
  BY <1>0, <1>a DEF RewriteCovers
<1> QED BY <1>2, <1>5, <1>6, <1>7, EventLine DEF Legible

\* The writer leaves: nobody is writing any more.
LEMMA WriterLeaves ==
  ASSUME VerdictInv, NEW h \in Reporters, reporter[h].at = "writing", NEW v \in {"done", "failed"},
         Moves(h, [reporter[h].then EXCEPT !.at = v])
  PROVE  /\ reporter' = [g \in Reporters |-> reporter'[g]]
         /\ \A g \in Reporters : Requested(reporter'[g])
         /\ Writers' = {} /\ Copies' = {}
<1>a. VerdictTyped /\ OneWriter
  BY DEF VerdictInv
<1>1. PICK r : r = reporter[h].then
  OBVIOUS
<1>2. r = [at |-> "rewrite", scoped |-> r.scoped, rest |-> r.rest, counts |-> r.counts]
  BY <1>1, <1>a, RequestOf DEF Writing
<1>3. PICK q : q = [r EXCEPT !.at = v]
  OBVIOUS
<1>4. Requested(q)
  <2>1. r.at = "rewrite"
    BY <1>2
  <2>2. r = [at |-> r.at, scoped |-> r.scoped, rest |-> r.rest, counts |-> r.counts]
    BY <1>2, <2>1
  <2> QED BY <1>3, <2>2, TurnedRequested
<1>5. reporter' = [g \in Reporters |-> IF g = h THEN q ELSE reporter[g]]
  BY <1>1, <1>3, <1>a DEF Moves, VerdictTyped
<1>6. \A g \in Reporters : reporter'[g] = IF g = h THEN q ELSE reporter[g]
  BY <1>5
<1>7. \A g \in Reporters : g # h => reporter[g].at # "writing"
  BY <1>a DEF OneWriter, Writers
<1>8. \A g \in Reporters : Requested(reporter'[g])
  <2>1. ASSUME NEW g \in Reporters, g # h PROVE Requested(reporter'[g])
    <3>1. Requested(reporter[g]) \/ Writing(reporter[g])
      BY <1>a DEF VerdictTyped
    <3>2. ~Writing(reporter[g])
      BY <1>7, <2>1, Apart
    <3>3. reporter'[g] = reporter[g]
      BY <1>6, <2>1
    <3> QED BY <3>1, <3>2, <3>3
  <2>2. Requested(reporter'[h])
    BY <1>4, <1>6
  <2> QED BY <2>1, <2>2
<1>9. \A g \in Reporters : reporter'[g].at # "writing"
  BY <1>8, Apart
<1>10. Writers' = {}
  BY <1>9 DEF Writers
<1>11. Copies' = {}
  BY <1>10 DEF Copies
<1> QED BY <1>5, <1>8, <1>10, <1>11

\* The rewritten file replaces the log.
LEMMA CompactEndsKeeps ==
  ASSUME VerdictInv, NEW h \in Reporters, CompactEnds(h)
  PROVE  VerdictInv'
<1>a. VerdictTyped /\ Sets /\ LogIsLegible /\ LogIsCurrent
  BY DEF VerdictInv
<1>1. PICK s : s = Lines(reporter[h].copy) \o pending
  OBVIOUS
<1>2. /\ reporter[h].at = "writing" /\ verdictLog' = s /\ logEvents' = Len(s) /\ pending' = << >>
      /\ hole' = hole \ {"before"} /\ verdicts' = verdicts /\ nextId' = nextId
      /\ Moves(h, [reporter[h].then EXCEPT !.at = "done"])
  BY <1>1 DEF CompactEnds
<1>3. /\ IsSeq(s) /\ \A i \in 1..Len(s) : IsEvent(s[i]) /\ IsLine(s[i])
      /\ Legible(s) /\ Whole(s) = s
      /\ RecordsOf(s) \subseteq Copies \cup RecordsOf(pending)
      /\ "during" \notin hole => Replayed(s) = verdicts
  BY <1>1, <1>2, Rewritten
<1>4. /\ reporter' = [g \in Reporters |-> reporter'[g]]
      /\ \A g \in Reporters : Requested(reporter'[g])
      /\ Writers' = {} /\ Copies' = {}
  BY <1>2, WriterLeaves
<1>5. IsSeq(pending') /\ Len(pending') = 0 /\ RecordsOf(pending') = {}
  <2>1. pending' \in Seq({}) /\ Len(pending') = 0
    BY <1>2, EmptySeq
  <2> QED BY <2>1 DEF IsSeq, RecordsOf
<1>6. VerdictTyped'
  <2>1. logEvents' \in Nat
    BY <1>2, <1>3, Longer
  <2>2. \A i \in 1..Len(pending') : IsEvent(pending'[i])
    BY <1>5
  <2>3. hole' \subseteq {"before", "during"}
    BY <1>2, <1>a DEF VerdictTyped
  <2> QED BY <1>2, <1>3, <1>4, <1>5, <1>a, <2>1, <2>2, <2>3 DEF VerdictTyped
<1>7. Sets'
  <2>1. RecordsOf(verdictLog') \subseteq Records
    BY <1>2, <1>3 DEF Records
  <2>2. Records' = verdicts' \cup RecordsOf(verdictLog') \cup RecordsOf(pending') \cup Copies'
    BY DEF Records, RecordsOf
  <2>3. Records' \subseteq Records
    BY <1>2, <1>4, <1>5, <2>1, <2>2 DEF Records
  <2>4. Known(Records)'
    BY <1>2, <1>a, <2>3 DEF Sets, Known
  <2> QED BY <1>2, <1>4, <1>a, <2>4 DEF Sets, Settling, Accumulates
<1>8. OneWriter' /\ RewriteCovers'
  BY <1>4 DEF OneWriter, RewriteCovers
<1>9. LogIsLegible'
  BY <1>2, <1>3 DEF LogIsLegible
<1>10. LogIsCurrent'
  <2> SUFFICES ASSUME hole' = {} PROVE Replayed(Whole(verdictLog')) = verdicts'
    BY DEF LogIsCurrent
  <2>1. "during" \notin hole
    BY <1>2
  <2> QED BY <1>2, <1>3, <2>1
<1> QED BY <1>6, <1>7, <1>8, <1>9, <1>10 DEF VerdictInv

\* The rewrite fails, before or after the rename.
LEMMA CompactFailsKeeps ==
  ASSUME VerdictInv, NEW h \in Reporters, CompactFails(h)
  PROVE  VerdictInv'
<1>a. VerdictTyped /\ Sets /\ LogIsLegible /\ LogIsCurrent
  BY DEF VerdictInv
<1>1. PICK s : s = Lines(reporter[h].copy) \o pending
  OBVIOUS
<1>2. /\ reporter[h].at = "writing" /\ (verdictLog' = verdictLog \/ verdictLog' = s)
      /\ logEvents' = logEvents /\ legacy' = legacy /\ dirty' = dirty /\ pending' = << >>
      /\ hole' = hole /\ verdicts' = verdicts /\ nextId' = nextId
      /\ Moves(h, [reporter[h].then EXCEPT !.at = "failed"])
  BY <1>1 DEF CompactFails
<1>3. /\ IsSeq(s) /\ \A i \in 1..Len(s) : IsEvent(s[i]) /\ IsLine(s[i])
      /\ Legible(s) /\ Whole(s) = s
      /\ RecordsOf(s) \subseteq Copies \cup RecordsOf(pending)
      /\ "during" \notin hole => Replayed(s) = verdicts
  BY <1>1, <1>2, Rewritten
<1>4. /\ reporter' = [g \in Reporters |-> reporter'[g]]
      /\ \A g \in Reporters : Requested(reporter'[g])
      /\ Writers' = {} /\ Copies' = {}
  BY <1>2, WriterLeaves
<1>5. IsSeq(pending') /\ Len(pending') = 0 /\ RecordsOf(pending') = {}
  <2>1. pending' \in Seq({}) /\ Len(pending') = 0
    BY <1>2, EmptySeq
  <2> QED BY <2>1 DEF IsSeq, RecordsOf
<1>6. VerdictTyped'
  <2>1. IsSeq(verdictLog') /\ \A i \in 1..Len(verdictLog') : IsLine(verdictLog'[i])
    BY <1>2, <1>3, <1>a DEF VerdictTyped
  <2>2. \A i \in 1..Len(pending') : IsEvent(pending'[i])
    BY <1>5
  <2> QED BY <1>2, <1>4, <1>5, <1>a, <2>1, <2>2 DEF VerdictTyped
<1>7. Sets'
  <2>1. RecordsOf(verdictLog') \subseteq Records
    BY <1>2, <1>3 DEF Records
  <2>2. Records' = verdicts' \cup RecordsOf(verdictLog') \cup RecordsOf(pending') \cup Copies'
    BY DEF Records, RecordsOf
  <2>3. Records' \subseteq Records
    BY <1>2, <1>4, <1>5, <2>1, <2>2 DEF Records
  <2>4. Known(Records)'
    BY <1>2, <1>a, <2>3 DEF Sets, Known
  <2> QED BY <1>2, <1>4, <1>a, <2>4 DEF Sets, Settling, Accumulates
<1>8. OneWriter' /\ RewriteCovers'
  BY <1>4 DEF OneWriter, RewriteCovers
<1>9. LogIsLegible'
  BY <1>2, <1>3, <1>a DEF LogIsLegible
<1>10. LogIsCurrent'
  <2> SUFFICES ASSUME ~NeedsRewrite, hole = {} PROVE Replayed(Whole(verdictLog')) = verdicts
    BY <1>2 DEF LogIsCurrent, NeedsRewrite
  <2> QED BY <1>2, <1>3, <1>a DEF LogIsCurrent
<1> QED BY <1>6, <1>7, <1>8, <1>9, <1>10 DEF VerdictInv

\* A load answers from what it read.
LEMMA CrashAndLoadKeeps ==
  ASSUME VerdictInv, CrashAndLoad
  PROVE  VerdictInv'
<1>a. VerdictTyped /\ Sets
  BY DEF VerdictInv
<1>1. PICK s : s = verdictLog'
  OBVIOUS
<1>2. /\ s = verdictLog \/ s = AppendLine(verdictLog, Torn)
      /\ Loads(s) /\ verdicts' = Replayed(Whole(s))
      /\ logEvents' = IF format = "v1" THEN 0 ELSE Len(Whole(s))
      /\ pending' = << >> /\ nextId' = nextId
      /\ reporter' = [h \in Reporters |-> Free]
      /\ hole' = {x \in {"before"} : \E i \in 1..Len(s) : s[i] = Garbled}
  BY <1>1 DEF CrashAndLoad
<1>3. IsSeq(verdictLog) /\ \A i \in 1..Len(verdictLog) : IsLine(verdictLog[i])
  BY <1>a DEF VerdictTyped
<1>4. IsSeq(s) /\ (\A i \in 1..Len(s) : IsLine(s[i])) /\ RecordsOf(s) \subseteq RecordsOf(verdictLog)
  <2>1. CASE s = verdictLog
    BY <1>3, <2>1
  <2>2. CASE s = AppendLine(verdictLog, Torn)
    <3>1. RecordsOf(s) \subseteq RecordsOf(verdictLog)
      BY <1>3, <2>2, RecordsOfOneMore DEF Torn
    <3>2. IsSeq(s)
      BY <1>3, <2>2, LineAppended
    <3>3. IsLine(Torn) /\ IsLine(Garbled)
      BY DEF IsLine
    <3>4. CASE s = Append(verdictLog, Torn)
      <4>1. \A i \in 1..Len(s) : i \in 1..Len(verdictLog) \/ i = Len(verdictLog) + 1
        BY <1>3, <3>4, Longer
      <4> QED BY <1>3, <3>1, <3>2, <3>3, <3>4, <4>1, Longer
    <3>5. CASE s # Append(verdictLog, Torn)
      <4>1. Len(s) = Len(verdictLog) /\ s[Len(verdictLog)] = Garbled
            /\ \A i \in 1..Len(verdictLog) : i # Len(verdictLog) => s[i] = verdictLog[i]
        BY <1>3, <2>2, <3>5, LineAppended
      <4> QED BY <1>3, <3>1, <3>2, <3>3, <4>1
    <3> QED BY <3>4, <3>5
  <2> QED BY <1>2, <2>1, <2>2
<1>5. Decodes(s)
  BY <1>2, <1>4, LegibleDecodes
<1>6. PICK w : w = Whole(s)
  OBVIOUS
<1>7. IsSeq(w) /\ (\A i \in 1..Len(w) : IsEvent(w[i])) /\ RecordsOf(w) \subseteq RecordsOf(s)
  BY <1>4, <1>5, <1>6, WholeIsEvents
<1>8. IsFiniteSet(verdicts') /\ Settling(verdicts') /\ verdicts' \subseteq RecordsOf(w)
  BY <1>2, <1>6, <1>7, ReplayIsSettled
<1>9. \A h \in Reporters : reporter'[h] = Free
  BY <1>2
<1>10. Writers' = {}
  BY <1>9 DEF Writers, Free
<1>11. Copies' = {}
  BY <1>10 DEF Copies
<1>12. IsSeq(pending') /\ Len(pending') = 0 /\ RecordsOf(pending') = {}
  <2>1. pending' \in Seq({}) /\ Len(pending') = 0
    BY <1>2, EmptySeq
  <2> QED BY <2>1 DEF IsSeq, RecordsOf
<1>13. VerdictTyped'
  <2>1. logEvents' \in Nat
    <3>1. Len(w) \in Nat
      BY <1>7, Longer
    <3> QED BY <1>2, <1>6, <3>1
  <2>2. \A i \in 1..Len(pending') : IsEvent(pending'[i])
    BY <1>12
  <2>3. \A h \in Reporters : Requested(reporter'[h])
    BY <1>9 DEF Requested
  <2>4. reporter' = [h \in Reporters |-> reporter'[h]]
    BY <1>2
  <2>5. hole' \subseteq {"before", "during"}
    BY <1>2
  <2>6. nextId' \in Nat
    BY <1>2, <1>a DEF VerdictTyped
  <2> QED BY <1>1, <1>4, <1>12, <2>1, <2>2, <2>3, <2>4, <2>5, <2>6 DEF VerdictTyped
<1>14. Sets'
  <2>1. Records' = verdicts' \cup RecordsOf(verdictLog') \cup RecordsOf(pending') \cup Copies'
    BY DEF Records, RecordsOf
  <2>2. Records' \subseteq Records
    BY <1>1, <1>4, <1>7, <1>8, <1>11, <1>12, <2>1 DEF Records
  <2>3. Known(Records)'
    BY <1>2, <1>a, <2>2 DEF Sets, Known
  <2>4. \A h \in Writers' : FALSE
    BY <1>10
  <2> QED BY <1>8, <2>3, <2>4 DEF Sets, Settling, Accumulates
<1>15. OneWriter' /\ RewriteCovers'
  BY <1>10 DEF OneWriter, RewriteCovers
<1>16. LogIsLegible'
  <2> SUFFICES ASSUME "before" \notin hole' PROVE Legible(s)
    BY <1>1 DEF LogIsLegible, Legible
  <2>1. \A i \in 1..Len(s) : s[i] # Garbled
    BY <1>2
  <2> QED BY <1>4, <1>5, <2>1, EventLine DEF Decodes, Legible, IsLine
<1>17. LogIsCurrent'
  <2>1. Replayed(Whole(verdictLog')) = verdicts'
    BY <1>1, <1>2
  <2> QED BY <2>1 DEF LogIsCurrent
<1> QED BY <1>13, <1>14, <1>15, <1>16, <1>17 DEF VerdictInv

---------------------------------------------------------------------------
\* A store that begins, or one that finds an older file.
LEMMA VerdictStarts == VerdictInit => VerdictInv
<1> SUFFICES ASSUME VerdictInit PROVE VerdictInv
  OBVIOUS
<1>1. /\ logEvents = 0 /\ compacting = FALSE /\ pending = << >>
      /\ reporter = [h \in Reporters |-> Free] /\ nextId = 1 /\ hole = {}
  BY DEF VerdictInit
<1>2. \A h \in Reporters : reporter[h] = Free
  BY <1>1
<1>3. Writers = {}
  BY <1>2 DEF Writers, Free
<1>4. Copies = {}
  BY <1>3 DEF Copies
<1>5. IsSeq(pending) /\ Len(pending) = 0 /\ RecordsOf(pending) = {}
  <2>1. pending \in Seq({}) /\ Len(pending) = 0
    BY <1>1, EmptySeq
  <2> QED BY <2>1 DEF IsSeq, RecordsOf
<1>6. \/ verdicts = {} /\ verdictLog = << >>
      \/ \E r : r.id = 0 /\ verdicts = {r} /\ verdictLog = <<Put(r)>>
  <2>1. PICK old \in {{}} \cup {{Old(p)} : p \in LivePaths} :
          /\ verdicts = old
          /\ verdictLog = IF old = {} THEN << >> ELSE <<Put(CHOOSE r \in old : TRUE)>>
    BY DEF VerdictInit
  <2>2. CASE old = {}
    BY <2>1, <2>2
  <2>3. CASE old # {}
    <3>1. PICK p \in LivePaths : old = {Old(p)}
      BY <2>3
    <3>2. (CHOOSE r \in old : TRUE) = Old(p)
      BY <3>1
    <3>3. Old(p).id = 0
      BY DEF Old
    <3> QED BY <2>1, <2>3, <3>1, <3>2, <3>3
  <2> QED BY <2>2, <2>3
<1>7. /\ IsSeq(verdictLog) /\ \A i \in 1..Len(verdictLog) : IsEvent(verdictLog[i])
      /\ RecordsOf(verdictLog) \subseteq verdicts
      /\ IsFiniteSet(verdicts) /\ \A x, y \in verdicts : x.id = 0 /\ x = y
  <2>1. CASE verdicts = {} /\ verdictLog = << >>
    <3>1. verdictLog \in Seq({}) /\ Len(verdictLog) = 0
      BY <2>1, EmptySeq
    <3> QED BY <2>1, <3>1, FS_EmptySet DEF IsSeq, RecordsOf
  <2>2. ASSUME NEW r, r.id = 0, verdicts = {r}, verdictLog = <<Put(r)>>
        PROVE  /\ IsSeq(verdictLog) /\ \A i \in 1..Len(verdictLog) : IsEvent(verdictLog[i])
               /\ RecordsOf(verdictLog) \subseteq verdicts
               /\ IsFiniteSet(verdicts) /\ \A x, y \in verdicts : x.id = 0 /\ x = y
    <3>1. verdictLog \in Seq({Put(r)}) /\ Len(verdictLog) = 1 /\ verdictLog[1] = Put(r)
      BY <2>2
    <3>2. Put(r).rec = r /\ IsEvent(Put(r))
      BY PutAndDel
    <3>3. \A i \in 1..Len(verdictLog) : i = 1
      BY <3>1
    <3> QED BY <2>2, <3>1, <3>2, <3>3, FS_Singleton DEF IsSeq, RecordsOf
  <2> QED BY <1>6, <2>1, <2>2
<1>8. VerdictTyped
  <2>1. \A i \in 1..Len(verdictLog) : IsLine(verdictLog[i])
    BY <1>7, EventLine
  <2>2. \A i \in 1..Len(pending) : IsEvent(pending[i])
    BY <1>5
  <2>3. \A h \in Reporters : Requested(reporter[h])
    BY <1>2 DEF Requested
  <2>4. reporter = [h \in Reporters |-> reporter[h]]
    BY <1>1
  <2> QED BY <1>1, <1>5, <1>7, <2>1, <2>2, <2>3, <2>4 DEF VerdictTyped
<1>9. Sets
  <2>1. Records \subseteq verdicts
    BY <1>4, <1>5, <1>7 DEF Records
  <2>2. Known(Records)
    BY <1>1, <1>7, <2>1 DEF Known
  <2> QED BY <1>3, <1>7, <2>2 DEF Sets, Settling
<1>10. OneWriter /\ RewriteCovers
  BY <1>3 DEF OneWriter, RewriteCovers
<1>11. LogIsLegible
  BY <1>7 DEF LogIsLegible, Legible
<1>12. LogIsCurrent
  BY <1>1 DEF LogIsCurrent, NeedsRewrite
<1> QED BY <1>8, <1>9, <1>10, <1>11, <1>12 DEF VerdictInv

\* Every step keeps the invariant of the log.
LEMMA VerdictSteps == VerdictInv /\ [VerdictNext]_verdictVars => VerdictInv'
<1> SUFFICES ASSUME VerdictInv, [VerdictNext]_verdictVars PROVE VerdictInv'
  OBVIOUS
<1>1. CASE UNCHANGED verdictVars
  <2>1. /\ verdicts' = verdicts /\ verdictLog' = verdictLog /\ logEvents' = logEvents /\ legacy' = legacy
        /\ dirty' = dirty /\ compacting' = compacting /\ pending' = pending /\ nextId' = nextId
        /\ hole' = hole /\ reporter' = reporter
    BY <1>1 DEF verdictVars
  <2>2. Writers' = Writers /\ Copies' = Copies
    BY <2>1 DEF Writers, Copies
  <2>3. VerdictTyped'
    BY <2>1 DEF VerdictInv, VerdictTyped
  <2>4. Sets'
    <3>1. Records' = Records
      BY <2>1, <2>2 DEF Records, RecordsOf
    <3> QED BY <2>1, <2>2, <3>1 DEF VerdictInv, Sets, Known, Settling, Accumulates
  <2>5. OneWriter' /\ RewriteCovers'
    BY <2>1, <2>2 DEF VerdictInv, OneWriter, RewriteCovers
  <2>6. LogIsLegible' /\ LogIsCurrent'
    BY <2>1 DEF VerdictInv, LogIsLegible, LogIsCurrent, NeedsRewrite, Legible
  <2> QED BY <2>3, <2>4, <2>5, <2>6 DEF VerdictInv
<1>2. ASSUME NEW h \in Reporters,
             \/ \E scoped \in BOOLEAN, findings \in Report : PostReport(h, scoped, findings)
             \/ SkipFinding(h) \/ EndFinding(h) \/ EndReport(h)
      PROVE  VerdictInv'
  BY <1>2, ReportSteps
<1>3. ASSUME NEW h \in Reporters, NEW scoped \in BOOLEAN, NEW r \in verdicts, DeleteVerdict(h, scoped, r)
      PROVE  VerdictInv'
  BY <1>3, DeleteVerdictKeeps
<1>4. ASSUME NEW h \in Reporters, PutVerdict(h) PROVE VerdictInv'
  BY <1>4, PutVerdictKeeps
<1>5. ASSUME NEW h \in Reporters, CompactBegins(h) PROVE VerdictInv'
  BY <1>5, CompactBeginsKeeps
<1>6. ASSUME NEW h \in Reporters, CompactEnds(h) PROVE VerdictInv'
  BY <1>6, CompactEndsKeeps
<1>7. ASSUME NEW h \in Reporters, CompactFails(h) PROVE VerdictInv'
  BY <1>7, CompactFailsKeeps
<1>8. CASE CrashAndLoad
  BY <1>8, CrashAndLoadKeeps
<1> QED BY <1>1, <1>2, <1>3, <1>4, <1>5, <1>6, <1>7, <1>8 DEF VerdictNext

\* What the invariant says of the log.
LEMMA VerdictsAreHeld == VerdictInv => LogHoldsTheVerdicts
<1> SUFFICES ASSUME VerdictInv, ~NeedsRewrite, hole = {}
    PROVE  Loads(verdictLog) /\ Replayed(Whole(verdictLog)) = verdicts
  BY DEF LogHoldsTheVerdicts
<1>1. IsSeq(verdictLog) /\ Legible(verdictLog)
  BY DEF VerdictInv, VerdictTyped, LogIsLegible
<1>2. Loads(verdictLog)
  BY <1>1, LegibleDecodes, WholeIsEvents
<1> QED BY <1>2 DEF VerdictInv, LogIsCurrent

\* What a restart would load is what the store answers from, whenever nothing is
\* owed to the log, for any number of handlers, reports and faults (store.go
\* noteLocked, compact, replayLog).
THEOREM TheLogIsTheStore == VerdictSpec => []LogHoldsTheVerdicts
<1>1. VerdictSpec => []VerdictInv
  BY VerdictStarts, VerdictSteps, PTL DEF VerdictSpec
<1> QED BY <1>1, VerdictsAreHeld, PTL

---------------------------------------------------------------------------
(***************************************************************************)
(* What was said is not said again: for any replicas, paths and commits,   *)
(* and however reads and calls fail, while the lead stays and no answer of *)
(* the forge is lost.                                                      *)
(***************************************************************************)

\* What a replica has yet to announce if it leads: what the graph has and it
\* has not found, and what the pass under way found first.
DueOf(g, st, ps) ==
  (g \ st.latest)
    \cup {p \in st.latest \ ps.prev : ps.step = "lead" /\ ~ps.first}

Waiting(box, p) == Cardinality({a \in box : p \in a.appeared})
Uttered(box, spoken, due, p) == spoken[p] + Waiting(box, p) + (IF p \in due THEN 1 ELSE 0)

\* What a leader has announced of a path, is announcing, and has yet to, the
\* path came in for.
Accounted(h, g, states, turns, box, spoken, came) ==
  IF h = Nobody
  THEN box = {} /\ \A p \in Paths : spoken[p] = 0
  ELSE \A p \in Paths : Uttered(box, spoken, DueOf(g, states[h], turns[h]), p) <= came[p]

\* What a replica found came into the graph.
CameIn(g, states, came) ==
  \A p \in Paths :
    (p \in g \/ \E r \in Replicas : p \in states[r].latest) => came[p] >= 1

FleetTyped ==
  /\ failovers \in Nat /\ faults \in Nat
  /\ holder \in Replicas \cup {Nobody}
  /\ entered \in [Paths -> Nat] /\ alerted \in [Paths -> Nat]
  /\ IsFiniteSet(outbox)
  /\ state = [r \in Replicas |-> state[r]]
  /\ pass = [r \in Replicas |-> pass[r]]

\* The sink is told by the one leader there has been.
LeaderSinks == \A r \in Replicas : pass[r].step = "sink" => r = holder

FleetInv ==
  /\ FleetTyped
  /\ CameIn(graph, state, entered)
  /\ failovers = 0 => LeaderSinks /\ Accounted(holder, graph, state, pass, outbox, alerted, entered)

LEMMA WaitsForNone == \A p : Waiting({}, p) = 0
BY FS_EmptySet DEF Waiting

LEMMA WaitingCounts ==
  ASSUME NEW box, IsFiniteSet(box), NEW p
  PROVE  /\ Waiting(box, p) \in Nat
         /\ IsFiniteSet({a \in box : p \in a.appeared})
<1>1. IsFiniteSet({a \in box : p \in a.appeared})
  BY FS_Subset
<1> QED BY <1>1, FS_CardinalityType DEF Waiting

\* An alert more is at most one more for a path, and that if it announces it.
LEMMA OneMoreWaits ==
  ASSUME NEW box, IsFiniteSet(box), NEW a, NEW p
  PROVE  /\ IsFiniteSet(box \cup {a})
         /\ Waiting(box \cup {a}, p) <= Waiting(box, p) + (IF p \in a.appeared THEN 1 ELSE 0)
<1>1. IsFiniteSet(box \cup {a})
  BY FS_AddElement
<1> DEFINE some == {b \in box : p \in b.appeared}
<1>2. IsFiniteSet(some) /\ Waiting(box, p) \in Nat
  BY WaitingCounts
<1>3. CASE p \in a.appeared
  <2>1. {b \in box \cup {a} : p \in b.appeared} = some \cup {a}
    BY <1>3
  <2>2. Cardinality(some \cup {a}) = Cardinality(some) \/ Cardinality(some \cup {a}) = Cardinality(some) + 1
    BY <1>2, FS_AddElement
  <2>3. Waiting(box, p) = Cardinality(some) /\ Waiting(box \cup {a}, p) = Cardinality(some \cup {a})
    BY <2>1 DEF Waiting
  <2> HIDE DEF some
  <2> QED BY <1>1, <1>2, <1>3, <2>2, <2>3
<1>4. CASE p \notin a.appeared
  <2>1. {b \in box \cup {a} : p \in b.appeared} = some
    BY <1>4
  <2>2. Waiting(box, p) = Waiting(box \cup {a}, p)
    BY <2>1 DEF Waiting
  <2> QED BY <1>1, <1>2, <1>4, <2>2
<1> QED BY <1>3, <1>4

\* An alert that is taken waits no longer.
LEMMA OneWaitsLess ==
  ASSUME NEW box, IsFiniteSet(box), NEW a \in box, NEW p
  PROVE  /\ IsFiniteSet(box \ {a})
         /\ Waiting(box \ {a}, p) = Waiting(box, p) - (IF p \in a.appeared THEN 1 ELSE 0)
<1>1. IsFiniteSet(box \ {a})
  BY FS_RemoveElement
<1> DEFINE some == {b \in box : p \in b.appeared}
<1>2. IsFiniteSet(some) /\ Waiting(box, p) \in Nat
  BY WaitingCounts
<1>3. CASE p \in a.appeared
  <2>1. {b \in box \ {a} : p \in b.appeared} = some \ {a} /\ a \in some
    BY <1>3
  <2>2. Cardinality(some \ {a}) = Cardinality(some) - 1
    BY <1>2, <2>1, FS_RemoveElement
  <2>3. Waiting(box, p) = Cardinality(some) /\ Waiting(box \ {a}, p) = Cardinality(some \ {a})
    BY <2>1 DEF Waiting
  <2> HIDE DEF some
  <2> QED BY <1>1, <1>2, <1>3, <2>2, <2>3
<1>4. CASE p \notin a.appeared
  <2>1. {b \in box \ {a} : p \in b.appeared} = some
    BY <1>4
  <2>2. Waiting(box, p) = Waiting(box \ {a}, p)
    BY <2>1 DEF Waiting
  <2> QED BY <1>1, <1>2, <1>4, <2>2
<1> QED BY <1>3, <1>4

\* Whoever takes the lead first has announced nothing yet.
LEMMA FirstLeads ==
  ASSUME NEW g, NEW states, NEW turns, NEW box, NEW spoken, NEW came \in [Paths -> Nat],
         CameIn(g, states, came),
         Accounted(Nobody, g, states, turns, box, spoken, came),
         NEW r \in Replicas
  PROVE  Accounted(r, g, states, turns, box, spoken, came)
<1>1. r # Nobody
  BY FleetAssumption
<1>2. box = {} /\ \A p \in Paths : spoken[p] = 0
  BY DEF Accounted
<1>3. ASSUME NEW p \in Paths
      PROVE  Uttered(box, spoken, DueOf(g, states[r], turns[r]), p) <= came[p]
  <2>1. p \in DueOf(g, states[r], turns[r]) => came[p] >= 1
    BY DEF DueOf, CameIn
  <2>2. Waiting(box, p) = 0 /\ spoken[p] = 0 /\ came[p] \in Nat
    BY <1>2, WaitsForNone
  <2> QED BY <2>1, <2>2 DEF Uttered
<1> QED BY <1>1, <1>3 DEF Accounted

\* A leader that has less to announce stays accounted for.
LEMMA LessDue ==
  ASSUME NEW h, NEW g, NEW states, NEW turns, NEW box, IsFiniteSet(box),
         NEW spoken \in [Paths -> Nat], NEW came \in [Paths -> Nat],
         Accounted(h, g, states, turns, box, spoken, came),
         NEW g2, NEW states2, NEW turns2,
         h # Nobody => DueOf(g2, states2[h], turns2[h]) \subseteq DueOf(g, states[h], turns[h])
  PROVE  Accounted(h, g2, states2, turns2, box, spoken, came)
<1>1. CASE h = Nobody
  BY <1>1 DEF Accounted
<1>2. CASE h # Nobody
  <2> SUFFICES ASSUME NEW p \in Paths
               PROVE  Uttered(box, spoken, DueOf(g2, states2[h], turns2[h]), p) <= came[p]
    BY <1>2 DEF Accounted
  <2>1. Uttered(box, spoken, DueOf(g, states[h], turns[h]), p) <= came[p]
    BY <1>2 DEF Accounted
  <2>2. Waiting(box, p) \in Nat /\ spoken[p] \in Nat /\ came[p] \in Nat
    BY WaitingCounts
  <2> QED BY <1>2, <2>1, <2>2 DEF Uttered
<1> QED BY <1>1, <1>2

LEMMA FleetStarts == Init => FleetInv
<1> SUFFICES ASSUME Init PROVE FleetInv
  OBVIOUS
<1>1. FleetTyped
  BY FS_EmptySet DEF Init, FleetTyped
<1>2. CameIn(graph, state, entered)
  BY DEF Init, CameIn, Fresh, Kept
<1>3. LeaderSinks
  BY DEF Init, LeaderSinks, AtRest, InPass
<1>4. Accounted(holder, graph, state, pass, outbox, alerted, entered)
  BY DEF Init, Accounted
<1> QED BY <1>1, <1>2, <1>3, <1>4 DEF FleetInv

\* While nothing failed over, the lead is taken once and kept.
LEMMA LeadIsKept ==
  ASSUME NEW r \in Replicas, NEW leads \in BOOLEAN, IsLeader(r, leads), FleetTyped
  PROVE  /\ holder' \in Replicas \cup {Nobody} /\ failovers' \in Nat
         /\ failovers' = 0 => failovers = 0
         /\ failovers' = 0 => holder' = holder \/ (holder = Nobody /\ holder' = r)
         /\ failovers' = 0 /\ leads => holder' = r
<1>1. CASE UNCHANGED failovers /\ leads = Acquires(r) /\ holder' = IF leads THEN r ELSE holder
  BY <1>1 DEF Acquires, FleetTyped
<1>2. CASE FailsOver /\ holder' = IF holder = r THEN Nobody ELSE holder
  <2>1. failovers' = failovers + 1
    BY <1>2 DEF FailsOver
  <2> QED BY <1>2, <2>1 DEF FleetTyped
<1> QED BY <1>1, <1>2 DEF IsLeader

\* With the lead, what it has announced is accounted for.
LEMMA LeadIsAccounted ==
  ASSUME FleetInv, NEW r \in Replicas, NEW h \in Replicas \cup {Nobody}, failovers = 0,
         h = holder \/ (holder = Nobody /\ h = r)
  PROVE  Accounted(h, graph, state, pass, outbox, alerted, entered)
BY FirstLeads DEF FleetInv, FleetTyped

LEMMA BeginKeeps ==
  ASSUME FleetInv, NEW r \in Replicas, BeginPass(r)
  PROVE  FleetInv'
<1> DEFINE st == state'
<1>1. PICK gone \in SUBSET graph :
        /\ \/ gone = {} /\ ~Prunes /\ UNCHANGED <<holder, failovers>>
           \/ Prunes /\ \E leads \in BOOLEAN : IsLeader(r, leads) /\ (gone # {} => leads)
        /\ Pruned(r, gone)
        /\ \/ state' = [state EXCEPT ![r] = Skipped(@)] /\ UNCHANGED pass
           \/ /\ state' = [state EXCEPT ![r] = Noted(@, version'[r])]
              /\ pass' = [pass EXCEPT ![r] = InPass("read", {}, FALSE)]
  BY DEF BeginPass
<1>2. /\ UNCHANGED <<outbox, alerted, faults, entered>> /\ graph' = graph \ gone
      /\ pass[r].step = "idle"
  BY <1>1 DEF BeginPass, alertVars, Pruned
<1>3. /\ holder' \in Replicas \cup {Nobody} /\ failovers' \in Nat
      /\ failovers' = 0 => failovers = 0
      /\ failovers' = 0 => holder' = holder \/ (holder = Nobody /\ holder' = r)
  BY <1>1, LeadIsKept DEF FleetInv, FleetTyped
<1>4. /\ state' = [q \in Replicas |-> state'[q]] /\ pass' = [q \in Replicas |-> pass'[q]]
      /\ \A q \in Replicas : state'[q].latest = state[q].latest
      /\ \A q \in Replicas : pass'[q] = pass[q] \/ (pass'[q].step = "read" /\ pass[q].step = "idle")
  <2>1. \A x : Skipped(x).latest = x.latest /\ Noted(x, version'[r]).latest = x.latest
    BY DEF Skipped, Noted, Kept
  <2>2. InPass("read", {}, FALSE).step = "read"
    BY DEF InPass
  <2>3. state = [q \in Replicas |-> state[q]] /\ pass = [q \in Replicas |-> pass[q]]
    BY DEF FleetInv, FleetTyped
  <2>4. CASE state' = [state EXCEPT ![r] = Skipped(@)] /\ UNCHANGED pass
    BY <2>1, <2>3, <2>4
  <2>5. CASE /\ state' = [state EXCEPT ![r] = Noted(@, version'[r])]
             /\ pass' = [pass EXCEPT ![r] = InPass("read", {}, FALSE)]
    BY <1>2, <2>1, <2>2, <2>3, <2>5
  <2> QED BY <1>1, <2>4, <2>5
<1>5. FleetTyped'
  BY <1>2, <1>3, <1>4 DEF FleetInv, FleetTyped
<1>6. CameIn(graph', state', entered')
  BY <1>2, <1>4 DEF FleetInv, CameIn
<1>7. failovers' = 0 => LeaderSinks'
  BY <1>3, <1>4, FleetAssumption DEF FleetInv, LeaderSinks
<1>8. ASSUME failovers' = 0
      PROVE  Accounted(holder', graph', state', pass', outbox', alerted', entered')
  <2>1. PICK h \in Replicas \cup {Nobody} : h = holder'
    BY <1>3
  <2>2. Accounted(h, graph, state, pass, outbox, alerted, entered)
    BY <1>3, <1>8, <2>1, LeadIsAccounted
  <2>3. h # Nobody => DueOf(graph', state'[h], pass'[h]) \subseteq DueOf(graph, state[h], pass[h])
    BY <1>2, <1>4 DEF DueOf
  <2> QED BY <1>2, <2>1, <2>2, <2>3, LessDue DEF FleetInv, FleetTyped
<1> QED BY <1>5, <1>6, <1>7, <1>8 DEF FleetInv

LEMMA AnalyzeKeeps ==
  ASSUME FleetInv, NEW r \in Replicas, Analyze(r)
  PROVE  FleetInv'
<1>1. /\ UNCHANGED <<graph, entered, holder, outbox, alerted, failovers>>
      /\ pass[r].step = "read"
      /\ faults' \in Nat
  BY DEF Analyze, storeVars, alertVars, Succeeds, Fails, FleetInv, FleetTyped
<1>2. \/ /\ state' = [state EXCEPT ![r] = Published(@, graph)]
         /\ pass' = [pass EXCEPT ![r] = InPass("lead", state[r].latest, ~state[r].hasRun)]
      \/ UNCHANGED state /\ pass' = [pass EXCEPT ![r] = AtRest]
  BY DEF Analyze
<1>3. /\ \A x : Published(x, graph).latest = graph
      /\ AtRest.step = "idle"
      /\ InPass("lead", state[r].latest, ~state[r].hasRun).step = "lead"
      /\ InPass("lead", state[r].latest, ~state[r].hasRun).prev = state[r].latest
  BY DEF Published, Kept, AtRest, InPass
<1>4. /\ state' = [q \in Replicas |-> state'[q]] /\ pass' = [q \in Replicas |-> pass'[q]]
      /\ \A q \in Replicas \ {r} : state'[q] = state[q] /\ pass'[q] = pass[q]
      /\ \/ /\ state'[r].latest = graph
            /\ pass'[r].step = "lead" /\ pass'[r].prev = state[r].latest
         \/ state'[r] = state[r] /\ pass'[r].step = "idle"
  BY <1>2, <1>3 DEF FleetInv, FleetTyped
<1>5. FleetTyped'
  BY <1>1, <1>4 DEF FleetInv, FleetTyped
<1>6. CameIn(graph', state', entered')
  BY <1>1, <1>4 DEF FleetInv, CameIn
<1>7. failovers' = 0 => LeaderSinks'
  BY <1>1, <1>4 DEF FleetInv, LeaderSinks
<1>8. failovers' = 0 => Accounted(holder', graph', state', pass', outbox', alerted', entered')
  <2>1. \A q \in Replicas : DueOf(graph, state'[q], pass'[q]) \subseteq DueOf(graph, state[q], pass[q])
    BY <1>1, <1>4 DEF DueOf
  <2> QED BY <1>1, <2>1, LessDue DEF FleetInv, FleetTyped
<1> QED BY <1>5, <1>6, <1>7, <1>8 DEF FleetInv

\* What a pass announces is what it found first.
LEMMA DriftIsDue ==
  ASSUME NEW r, NEW ps, NEW cur
  PROVE  \/ Drift(r, ps, cur) = {}
         \/ \E a : Drift(r, ps, cur) = {a} /\ a.appeared = cur \ ps.prev /\ ~ps.first
<1> DEFINE nr == CHOOSE n \in 0..Cardinality(outbox) : \A a \in outbox : a.nr # n
           alert == [by |-> r, appeared |-> cur \ ps.prev, resolved |-> ps.prev \ cur, nr |-> nr]
<1>1. Drift(r, ps, cur) = IF ps.first \/ (cur \ ps.prev = {} /\ ps.prev \ cur = {}) THEN {} ELSE {alert}
  BY DEF Drift, DiffPaths
<1>2. alert.appeared = cur \ ps.prev
  OBVIOUS
<1> HIDE DEF alert
<1>3. ~ps.first \/ Drift(r, ps, cur) = {}
  BY <1>1
<1> QED BY <1>1, <1>2, <1>3

\* An announcement is one of what was due.
LEMMA AnnouncesWhatWasDue ==
  ASSUME NEW h \in Replicas, NEW g, NEW states, NEW turns, NEW box, IsFiniteSet(box),
         NEW spoken \in [Paths -> Nat], NEW came \in [Paths -> Nat],
         Accounted(h, g, states, turns, box, spoken, came),
         NEW a, ~turns[h].first, turns[h].step = "lead",
         a.appeared = states[h].latest \ turns[h].prev,
         NEW turns2, turns2[h].step # "lead"
  PROVE  Accounted(h, g, states, turns2, box \cup {a}, spoken, came)
<1>1. h # Nobody
  BY FleetAssumption
<1> SUFFICES ASSUME NEW p \in Paths
             PROVE  Uttered(box \cup {a}, spoken, DueOf(g, states[h], turns2[h]), p) <= came[p]
  BY <1>1 DEF Accounted
<1>2. Uttered(box, spoken, DueOf(g, states[h], turns[h]), p) <= came[p]
  BY <1>1 DEF Accounted
<1>3. /\ Waiting(box \cup {a}, p) <= Waiting(box, p) + (IF p \in a.appeared THEN 1 ELSE 0)
      /\ Waiting(box, p) \in Nat /\ Waiting(box \cup {a}, p) \in Nat
      /\ spoken[p] \in Nat /\ came[p] \in Nat
  BY OneMoreWaits, WaitingCounts
<1>4. /\ p \in a.appeared => p \in DueOf(g, states[h], turns[h]) /\ p \notin DueOf(g, states[h], turns2[h])
      /\ p \in DueOf(g, states[h], turns2[h]) => p \in DueOf(g, states[h], turns[h])
  BY DEF DueOf
<1> QED BY <1>2, <1>3, <1>4 DEF Uttered

LEMMA CheckLeaderKeeps ==
  ASSUME FleetInv, NEW r \in Replicas, CheckLeader(r)
  PROVE  FleetInv'
<1>1. PICK leads \in BOOLEAN :
        /\ IsLeader(r, leads)
        /\ outbox' = IF leads THEN outbox \cup Drift(r, pass[r], state[r].latest) ELSE outbox
        /\ pass' = [pass EXCEPT ![r] = IF leads THEN InPass("sink", @.prev, @.first) ELSE AtRest]
  BY DEF CheckLeader
<1>2. UNCHANGED <<graph, entered, state, alerted, faults>> /\ pass[r].step = "lead"
  BY DEF CheckLeader, storeVars
<1>3. /\ holder' \in Replicas \cup {Nobody} /\ failovers' \in Nat
      /\ failovers' = 0 => failovers = 0
      /\ failovers' = 0 => holder' = holder \/ (holder = Nobody /\ holder' = r)
      /\ failovers' = 0 /\ leads => holder' = r
  BY <1>1, LeadIsKept DEF FleetInv
<1>4. /\ pass' = [q \in Replicas |-> pass'[q]]
      /\ \A q \in Replicas \ {r} : pass'[q] = pass[q]
      /\ pass'[r].step = IF leads THEN "sink" ELSE "idle"
  <2>1. \A x : InPass("sink", x.prev, x.first).step = "sink"
    BY DEF InPass
  <2>2. AtRest.step = "idle"
    BY DEF AtRest, InPass
  <2> QED BY <1>1, <2>1, <2>2 DEF FleetInv, FleetTyped
<1>5. IsFiniteSet(outbox')
  <2>1. \/ Drift(r, pass[r], state[r].latest) = {}
        \/ \E a : Drift(r, pass[r], state[r].latest) = {a}
    BY DriftIsDue
  <2> QED BY <1>1, <2>1, OneMoreWaits DEF FleetInv, FleetTyped
<1>6. FleetTyped'
  BY <1>2, <1>3, <1>4, <1>5 DEF FleetInv, FleetTyped
<1>7. CameIn(graph', state', entered')
  BY <1>2 DEF FleetInv
<1>8. failovers' = 0 => LeaderSinks'
  BY <1>3, <1>4, FleetAssumption DEF FleetInv, LeaderSinks
<1>9. ASSUME failovers' = 0
      PROVE  Accounted(holder', graph', state', pass', outbox', alerted', entered')
  <2>1. PICK h \in Replicas \cup {Nobody} : h = holder'
    BY <1>3
  <2>2. Accounted(h, graph, state, pass, outbox, alerted, entered)
    BY <1>3, <1>9, <2>1, LeadIsAccounted
  <2>3. h # Nobody => DueOf(graph, state[h], pass'[h]) \subseteq DueOf(graph, state[h], pass[h])
    BY <1>4 DEF DueOf
  <2>4. Accounted(h, graph, state, pass', outbox, alerted, entered)
    BY <2>2, <2>3, LessDue DEF FleetInv, FleetTyped
  <2>5. CASE outbox' = outbox
    BY <1>2, <2>1, <2>4, <2>5
  <2>6. CASE outbox' # outbox
    <3>1. leads /\ h = r /\ outbox' = outbox \cup Drift(r, pass[r], state[r].latest)
      BY <1>1, <1>3, <1>9, <2>1, <2>6
    <3>2. PICK a : /\ Drift(r, pass[r], state[r].latest) = {a}
                   /\ a.appeared = state[r].latest \ pass[r].prev /\ ~pass[r].first
      BY <2>6, <3>1, DriftIsDue
    <3>3. pass'[r].step # "lead"
      BY <1>4
    <3>4. Accounted(r, graph, state, pass', outbox \cup {a}, alerted, entered)
      BY <1>2, <2>2, <3>1, <3>2, <3>3, AnnouncesWhatWasDue DEF FleetInv, FleetTyped
    <3> QED BY <1>2, <2>1, <3>1, <3>2, <3>4
  <2> QED BY <2>5, <2>6
<1> QED BY <1>6, <1>7, <1>8, <1>9 DEF FleetInv

LEMMA WriteKeeps ==
  ASSUME FleetInv, NEW r \in Replicas, NEW g \in SUBSET Paths, Write(r, g)
  PROVE  FleetInv'
<1>1. /\ graph' = g
      /\ entered' = [p \in Paths |-> IF p \in g \ graph THEN entered[p] + 1 ELSE entered[p]]
      /\ UNCHANGED <<holder, state, pass, outbox, alerted, faults, failovers>>
  BY DEF Write, alertVars
<1>2. entered' \in [Paths -> Nat]
  BY <1>1 DEF FleetInv, FleetTyped
<1>3. FleetTyped'
  BY <1>1, <1>2 DEF FleetInv, FleetTyped
<1>4. CameIn(graph', state', entered')
  BY <1>1 DEF FleetInv, FleetTyped, CameIn
<1>5. failovers' = 0 => LeaderSinks'
  BY <1>1 DEF FleetInv, LeaderSinks
<1>6. ASSUME failovers' = 0
      PROVE  Accounted(holder', graph', state', pass', outbox', alerted', entered')
  <2>1. CASE holder = Nobody
    BY <1>1, <1>6, <2>1 DEF FleetInv, Accounted
  <2>2. CASE holder # Nobody
    <3> SUFFICES ASSUME NEW p \in Paths
                 PROVE  Uttered(outbox, alerted, DueOf(g, state[holder], pass[holder]), p) <= entered'[p]
      BY <1>1, <2>2 DEF Accounted
    <3>1. Uttered(outbox, alerted, DueOf(graph, state[holder], pass[holder]), p) <= entered[p]
      BY <1>1, <1>6, <2>2 DEF FleetInv, Accounted
    <3>2. /\ Waiting(outbox, p) \in Nat /\ alerted[p] \in Nat /\ entered[p] \in Nat
          /\ entered'[p] = IF p \in g \ graph THEN entered[p] + 1 ELSE entered[p]
      BY <1>1, WaitingCounts DEF FleetInv, FleetTyped
    <3>3. p \in DueOf(g, state[holder], pass[holder]) =>
            p \in DueOf(graph, state[holder], pass[holder]) \/ p \in g \ graph
      BY DEF DueOf
    <3> QED BY <3>1, <3>2, <3>3 DEF Uttered
  <2> QED BY <2>1, <2>2
<1> QED BY <1>3, <1>4, <1>5, <1>6 DEF FleetInv

LEMMA NotifyKeeps ==
  ASSUME FleetInv, NEW a \in outbox, Notify(a)
  PROVE  FleetInv'
<1>1. /\ outbox' = outbox \ {a}
      /\ UNCHANGED <<graph, entered, holder, state, pass, failovers>>
      /\ faults' \in Nat
      /\ \/ alerted' = [p \in Paths |-> IF p \in a.appeared THEN alerted[p] + 1 ELSE alerted[p]]
         \/ UNCHANGED alerted
  BY DEF Notify, storeVars, Succeeds, Fails, FleetInv, FleetTyped
<1>2. /\ alerted' \in [Paths -> Nat]
      /\ \A p \in Paths : alerted'[p] <= alerted[p] + (IF p \in a.appeared THEN 1 ELSE 0)
  BY <1>1 DEF FleetInv, FleetTyped
<1>3. IsFiniteSet(outbox')
  BY <1>1, OneWaitsLess DEF FleetInv, FleetTyped
<1>4. FleetTyped'
  BY <1>1, <1>2, <1>3 DEF FleetInv, FleetTyped
<1>5. CameIn(graph', state', entered')
  BY <1>1 DEF FleetInv
<1>6. failovers' = 0 => LeaderSinks'
  BY <1>1 DEF FleetInv, LeaderSinks
<1>7. ASSUME failovers' = 0
      PROVE  Accounted(holder', graph', state', pass', outbox', alerted', entered')
  <2>1. holder # Nobody
    BY <1>1, <1>7 DEF FleetInv, Accounted
  <2> SUFFICES ASSUME NEW p \in Paths
               PROVE  Uttered(outbox', alerted', DueOf(graph, state[holder], pass[holder]), p) <= entered[p]
    BY <1>1, <2>1 DEF Accounted
  <2>2. Uttered(outbox, alerted, DueOf(graph, state[holder], pass[holder]), p) <= entered[p]
    BY <1>1, <1>7, <2>1 DEF FleetInv, Accounted
  <2>3. /\ Waiting(outbox', p) = Waiting(outbox, p) - (IF p \in a.appeared THEN 1 ELSE 0)
        /\ Waiting(outbox, p) \in Nat /\ Waiting(outbox', p) \in Nat
    BY <1>1, <1>3, OneWaitsLess, WaitingCounts DEF FleetInv, FleetTyped
  <2>4. /\ alerted[p] \in Nat /\ alerted'[p] \in Nat /\ entered[p] \in Nat
        /\ alerted'[p] <= alerted[p] + (IF p \in a.appeared THEN 1 ELSE 0)
    BY <1>2 DEF FleetInv, FleetTyped
  <2> QED BY <2>2, <2>3, <2>4 DEF Uttered
<1> QED BY <1>4, <1>5, <1>6, <1>7 DEF FleetInv

\* After a failover nothing more is promised.
LEMMA FailoverKeeps ==
  ASSUME FleetInv, FailsOver, faults' \in Nat, holder' \in Replicas \cup {Nobody},
         entered' = entered, alerted' = alerted, graph' = graph, IsFiniteSet(outbox'),
         state' = [r \in Replicas |-> state'[r]], pass' = [r \in Replicas |-> pass'[r]],
         \A r \in Replicas : state'[r].latest \subseteq state[r].latest
  PROVE  FleetInv'
<1>1. failovers' \in Nat /\ failovers' # 0
  BY DEF FailsOver, FleetInv, FleetTyped
<1>2. FleetTyped'
  BY <1>1 DEF FleetInv, FleetTyped
<1>3. CameIn(graph', state', entered')
  BY DEF FleetInv, CameIn
<1> QED BY <1>1, <1>2, <1>3 DEF FleetInv

LEMMA CrashKeeps ==
  ASSUME FleetInv, NEW r \in Replicas, Crash(r)
  PROVE  FleetInv'
<1>1. /\ FailsOver /\ UNCHANGED <<graph, entered, alerted, faults>>
      /\ holder' = IF holder = r THEN Nobody ELSE holder
      /\ state' = [state EXCEPT ![r] = Fresh]
      /\ pass' = [pass EXCEPT ![r] = AtRest]
      /\ outbox' = {a \in outbox : a.by # r}
  BY DEF Crash
<1>2. Fresh.latest = {}
  BY DEF Fresh, Kept
<1>3. /\ state' = [q \in Replicas |-> state'[q]] /\ pass' = [q \in Replicas |-> pass'[q]]
      /\ \A q \in Replicas : state'[q].latest \subseteq state[q].latest
  BY <1>1, <1>2 DEF FleetInv, FleetTyped
<1>4. IsFiniteSet(outbox') /\ holder' \in Replicas \cup {Nobody} /\ faults' \in Nat
  BY <1>1, FS_Subset DEF FleetInv, FleetTyped
<1> QED BY <1>1, <1>3, <1>4, FailoverKeeps

LEMMA DropKeeps ==
  ASSUME FleetInv, DropSession
  PROVE  FleetInv'
<1>1. /\ FailsOver /\ holder' = Nobody
      /\ UNCHANGED <<graph, entered, alerted, outbox, faults, state, pass>>
  BY DEF DropSession, storeVars, alertVars
<1> QED BY <1>1, FailoverKeeps DEF FleetInv, FleetTyped

LEMMA EndPassKeeps ==
  ASSUME FleetInv, NEW r \in Replicas, EndPass(r)
  PROVE  FleetInv'
<1>1. /\ pass' = [pass EXCEPT ![r] = AtRest] /\ AtRest.step = "idle"
      /\ UNCHANGED <<graph, entered, holder, state, outbox, alerted, faults, failovers>>
  BY DEF EndPass, storeVars, alertVars, AtRest, InPass
<1>2. /\ pass' = [q \in Replicas |-> pass'[q]]
      /\ \A q \in Replicas \ {r} : pass'[q] = pass[q]
      /\ pass'[r].step = "idle"
  BY <1>1 DEF FleetInv, FleetTyped
<1>3. FleetTyped'
  BY <1>1, <1>2 DEF FleetInv, FleetTyped
<1>4. CameIn(graph', state', entered')
  BY <1>1 DEF FleetInv
<1>5. failovers' = 0 => LeaderSinks'
  BY <1>1, <1>2 DEF FleetInv, LeaderSinks
<1>6. failovers' = 0 => Accounted(holder', graph', state', pass', outbox', alerted', entered')
  <2>1. \A q \in Replicas : DueOf(graph, state[q], pass'[q]) \subseteq DueOf(graph, state[q], pass[q])
    BY <1>2 DEF DueOf
  <2> QED BY <1>1, <2>1, LessDue DEF FleetInv, FleetTyped
<1> QED BY <1>3, <1>4, <1>5, <1>6 DEF FleetInv

\* A call to the forge leaves the fleet alone, but for the count of faults.
LEMMA PostKeepsFleet ==
  ASSUME FleetInv, UNCHANGED <<storeVars, holder, state, pass, alertVars, failovers>>, faults' \in Nat
  PROVE  FleetInv'
<1>1. UNCHANGED <<graph, entered, holder, state, pass, outbox, alerted, failovers>>
  BY DEF storeVars, alertVars
<1> QED BY <1>1 DEF FleetInv, FleetTyped, LeaderSinks

---------------------------------------------------------------------------
(***************************************************************************)
(* What the forge shows is what the leader remembers having posted.        *)
(***************************************************************************)

ForgeInv ==
  /\ lost \in BOOLEAN
  /\ failing = [r \in Replicas |-> failing[r]]
  /\ tried = [r \in Replicas |-> tried[r]]
  /\ statuses = [c \in Commits |-> statuses[c]]
  /\ Undisturbed =>
       /\ \A r \in Replicas : DOMAIN failing[r] # {} => r = holder
       /\ \A r \in Replicas : \A c \in DOMAIN failing[r] \cap Commits : statuses[c] = Red(failing[r][c])
       /\ \A c \in Commits : (\A r \in Replicas : c \notin DOMAIN failing[r]) => statuses[c] \in {None, Green}

ReporterInv == FleetInv /\ ForgeInv

LEMMA StatusesDiffer ==
  /\ \A n : Red(n) # None /\ Red(n) # Green
  /\ \A n, m : Red(n) = Red(m) => n = m
<1>1. \A n : Red(n).state = "failure" /\ Red(n).paths = n
  BY DEF Red
<1>2. None.state = "none" /\ Green.state = "success"
  BY DEF None, Green
<1> QED BY <1>1, <1>2

LEMMA ReporterStarts == CheckInit => ReporterInv
<1> SUFFICES ASSUME CheckInit PROVE ReporterInv
  OBVIOUS
<1>1. FleetInv
  BY FleetStarts DEF CheckInit
<1>2. ForgeInv
  <2>1. failing = [r \in Replicas |-> [c \in {} |-> 0]]
    BY DEF CheckInit
  <2>2. \A r \in Replicas : DOMAIN failing[r] = {}
    BY <2>1
  <2>3. \A c \in Commits : statuses[c] = None
    BY DEF CheckInit
  <2> QED BY <2>1, <2>2, <2>3 DEF CheckInit, ForgeInv
<1> QED BY <1>1, <1>2 DEF ReporterInv

\* While the fleet goes on without the forge, only the lead may be taken.
LEMMA FleetKeepsForge ==
  ASSUME ForgeInv, UNCHANGED reporterVars,
         failovers' = 0 => failovers = 0 /\ (holder = Nobody \/ holder' = holder), Nobody \notin Replicas
  PROVE  ForgeInv'
<1>1. UNCHANGED <<failing, tried, statuses, lost>>
  BY DEF reporterVars
<1>2. Undisturbed' => Undisturbed /\ (holder = Nobody \/ holder' = holder)
  BY <1>1 DEF Undisturbed
<1> QED BY <1>1, <1>2 DEF ForgeInv

LEMMA FleetStepKeeps ==
  ASSUME ReporterInv, Fleet, UNCHANGED reporterVars
  PROVE  ReporterInv'
<1>1. FleetInv /\ ForgeInv /\ FleetTyped
  BY DEF ReporterInv, FleetInv
<1>2. CASE \E r \in Replicas, g \in SUBSET Paths : Write(r, g)
  <2>1. PICK r \in Replicas, g \in SUBSET Paths : Write(r, g)
    BY <1>2
  <2>2. UNCHANGED <<holder, failovers>>
    BY <2>1 DEF Write
  <2> QED BY <1>1, <2>1, <2>2, WriteKeeps, FleetKeepsForge, FleetAssumption DEF ReporterInv
<1>3. CASE DropSession
  <2>1. failovers' # 0
    BY <1>1, <1>3 DEF DropSession, FailsOver, FleetTyped
  <2> QED BY <1>1, <1>3, <2>1, DropKeeps, FleetKeepsForge, FleetAssumption DEF ReporterInv
<1>4. ASSUME NEW r \in Replicas, BeginPass(r)
      PROVE  ReporterInv'
  <2>1. \/ UNCHANGED <<holder, failovers>>
        \/ \E leads \in BOOLEAN : IsLeader(r, leads)
    BY <1>4 DEF BeginPass
  <2>2. failovers' = 0 => failovers = 0 /\ (holder = Nobody \/ holder' = holder)
    BY <1>1, <2>1, LeadIsKept
  <2> QED BY <1>1, <1>4, <2>2, BeginKeeps, FleetKeepsForge, FleetAssumption DEF ReporterInv
<1>5. ASSUME NEW r \in Replicas, Analyze(r)
      PROVE  ReporterInv'
  <2>1. UNCHANGED <<holder, failovers>>
    BY <1>5 DEF Analyze
  <2> QED BY <1>1, <1>5, <2>1, AnalyzeKeeps, FleetKeepsForge, FleetAssumption DEF ReporterInv
<1>6. ASSUME NEW r \in Replicas, CheckLeader(r)
      PROVE  ReporterInv'
  <2>1. PICK leads \in BOOLEAN : IsLeader(r, leads)
    BY <1>6 DEF CheckLeader
  <2>2. failovers' = 0 => failovers = 0 /\ (holder = Nobody \/ holder' = holder)
    BY <1>1, <2>1, LeadIsKept
  <2> QED BY <1>1, <1>6, <2>2, CheckLeaderKeeps, FleetKeepsForge, FleetAssumption DEF ReporterInv
<1>7. CASE Notified
  <2>1. PICK a \in outbox : Notify(a)
    BY <1>7 DEF Notified
  <2>2. UNCHANGED <<holder, failovers>>
    BY <2>1 DEF Notify
  <2> QED BY <1>1, <2>1, <2>2, NotifyKeeps, FleetKeepsForge, FleetAssumption DEF ReporterInv
<1> QED BY <1>2, <1>3, <1>4, <1>5, <1>6, <1>7 DEF Fleet, Analysis

\* A post is remembered if and only if the forge is known to have taken it.
LEMMA PostKeeps ==
  ASSUME ReporterInv, NEW r \in Replicas, NEW c \in Commits, NEW status, NEW noted,
         Post(r, c, status, noted), pass[r].step = "sink",
         \A d \in Commits \ {c} :
           /\ d \in DOMAIN noted <=> d \in DOMAIN failing[r]
           /\ d \in DOMAIN noted => noted[d] = failing[r][d],
         c \in DOMAIN noted => status = Red(noted[c]),
         c \notin DOMAIN noted => status = Green
  PROVE  ReporterInv'
<1>1. /\ UNCHANGED <<storeVars, holder, state, pass, alertVars, failovers>>
      /\ tried' = [tried EXCEPT ![r] = @ \cup {c}]
      /\ faults' \in Nat
  BY DEF Post, Succeeds, Fails, ReporterInv, FleetInv, FleetTyped
<1>2. FleetInv'
  BY <1>1, PostKeepsFleet DEF ReporterInv
<1>3. ForgeInv /\ tried' = [q \in Replicas |-> tried'[q]]
  BY <1>1 DEF ReporterInv, ForgeInv
<1> SUFFICES ForgeInv'
  BY <1>2 DEF ReporterInv
<1>4. CASE /\ statuses' = [statuses EXCEPT ![c] = status]
           /\ failing' = [failing EXCEPT ![r] = noted]
           /\ UNCHANGED lost
  <2>1. /\ failing' = [q \in Replicas |-> failing'[q]]
        /\ statuses' = [d \in Commits |-> statuses'[d]]
        /\ failing'[r] = noted /\ \A q \in Replicas \ {r} : failing'[q] = failing[q]
        /\ statuses'[c] = status /\ \A d \in Commits \ {c} : statuses'[d] = statuses[d]
    BY <1>3, <1>4 DEF ForgeInv
  <2>2. SUFFICES ASSUME Undisturbed'
                 PROVE  /\ \A q \in Replicas : DOMAIN failing'[q] # {} => q = holder'
                        /\ \A q \in Replicas : \A d \in DOMAIN failing'[q] \cap Commits :
                             statuses'[d] = Red(failing'[q][d])
                        /\ \A d \in Commits : (\A q \in Replicas : d \notin DOMAIN failing'[q])
                             => statuses'[d] \in {None, Green}
    BY <1>3, <1>4, <2>1 DEF ForgeInv
  <2>3. Undisturbed /\ holder' = holder /\ failovers = 0
    BY <1>1, <1>4, <2>2 DEF Undisturbed
  <2>4. r = holder
    BY <2>3 DEF ReporterInv, FleetInv, LeaderSinks
  <2>5. \A q \in Replicas \ {r} : DOMAIN failing[q] = {}
    BY <1>3, <2>3, <2>4 DEF ForgeInv
  <2>6. \A q \in Replicas : DOMAIN failing'[q] # {} => q = holder'
    BY <2>1, <2>3, <2>4, <2>5
  <2>7. ASSUME NEW q \in Replicas, NEW d \in DOMAIN failing'[q] \cap Commits
        PROVE  statuses'[d] = Red(failing'[q][d])
    <3>1. q = r /\ d \in DOMAIN noted
      BY <2>1, <2>5, <2>7
    <3>2. CASE d = c
      BY <2>1, <3>1, <3>2
    <3>3. CASE d # c
      <4>1. d \in DOMAIN failing[r] \cap Commits /\ noted[d] = failing[r][d]
        BY <2>7, <3>1, <3>3
      <4>2. statuses[d] = Red(failing[r][d])
        BY <1>3, <2>3, <4>1 DEF ForgeInv
      <4> QED BY <2>1, <2>7, <3>1, <3>3, <4>1, <4>2
    <3> QED BY <3>2, <3>3
  <2>8. ASSUME NEW d \in Commits, \A q \in Replicas : d \notin DOMAIN failing'[q]
        PROVE  statuses'[d] \in {None, Green}
    <3>1. d \notin DOMAIN noted
      BY <2>1, <2>8
    <3>2. CASE d = c
      BY <2>1, <3>1, <3>2
    <3>3. CASE d # c
      <4>1. \A q \in Replicas : d \notin DOMAIN failing[q]
        BY <2>1, <2>8, <3>1, <3>3
      <4> QED BY <1>3, <2>1, <2>3, <3>3, <4>1 DEF ForgeInv
    <3> QED BY <3>2, <3>3
  <2> QED BY <2>6, <2>7, <2>8
<1>5. CASE UNCHANGED <<statuses, lost>> /\ NotRemembered(r, noted)
  <2>1. UNCHANGED <<statuses, lost, failing, holder, failovers>>
    BY <1>1, <1>5 DEF NotRemembered
  <2> QED BY <1>3, <2>1 DEF ForgeInv, Undisturbed
<1>6. CASE lost' = TRUE /\ statuses' = [statuses EXCEPT ![c] = status] /\ NotRemembered(r, noted)
  <2>1. UNCHANGED failing /\ statuses' = [d \in Commits |-> statuses'[d]] /\ ~Undisturbed'
    BY <1>3, <1>6 DEF NotRemembered, ForgeInv, Undisturbed
  <2> QED BY <1>3, <1>6, <2>1 DEF ForgeInv
<1> QED BY <1>4, <1>5, <1>6 DEF Post

LEMMA PostFailureKeeps ==
  ASSUME ReporterInv, NEW r \in Replicas, NEW c \in Commits, PostFailure(r, c)
  PROVE  ReporterInv'
<1> DEFINE n == CountedOn(c, state[r].latest)
           noted == [x \in DOMAIN failing[r] \cup {c} |-> IF x = c THEN n ELSE failing[r][x]]
<1>1. Post(r, c, Red(n), noted) /\ pass[r].step = "sink"
  BY DEF PostFailure
<1>2. /\ \A d \in Commits \ {c} :
           /\ d \in DOMAIN noted <=> d \in DOMAIN failing[r]
           /\ d \in DOMAIN noted => noted[d] = failing[r][d]
      /\ c \in DOMAIN noted /\ noted[c] = n
  OBVIOUS
<1> HIDE DEF noted, n
<1> QED BY <1>1, <1>2, PostKeeps

LEMMA PostSuccessKeeps ==
  ASSUME ReporterInv, NEW r \in Replicas, NEW c \in Commits, PostSuccess(r, c)
  PROVE  ReporterInv'
<1> DEFINE noted == Restrict(failing[r], DOMAIN failing[r] \ {c})
<1>1. Post(r, c, Green, noted) /\ pass[r].step = "sink"
  BY DEF PostSuccess
<1>2. /\ \A d \in Commits \ {c} :
           /\ d \in DOMAIN noted <=> d \in DOMAIN failing[r]
           /\ d \in DOMAIN noted => noted[d] = failing[r][d]
      /\ c \notin DOMAIN noted
  BY DEF Restrict
<1> HIDE DEF noted
<1> QED BY <1>1, <1>2, PostKeeps

LEMMA ReturnKeeps ==
  ASSUME ReporterInv, NEW r \in Replicas, Return(r)
  PROVE  ReporterInv'
<1>1. EndPass(r) /\ tried' = [tried EXCEPT ![r] = {}] /\ UNCHANGED <<failing, statuses, lost>>
  BY DEF Return
<1>2. UNCHANGED <<holder, failovers>>
  BY <1>1 DEF EndPass
<1>3. ForgeInv'
  BY <1>1, <1>2 DEF ReporterInv, ForgeInv, Undisturbed
<1> QED BY <1>1, <1>3, EndPassKeeps DEF ReporterInv

LEMMA CrashCheckKeeps ==
  ASSUME ReporterInv, NEW r \in Replicas, CrashCheck(r)
  PROVE  ReporterInv'
<1>1. /\ Crash(r) /\ UNCHANGED <<statuses, lost>>
      /\ failing' = [failing EXCEPT ![r] = [c \in {} |-> 0]]
      /\ tried' = [tried EXCEPT ![r] = {}]
  BY DEF CrashCheck
<1>2. failovers' # 0
  BY <1>1 DEF Crash, FailsOver, ReporterInv, FleetInv, FleetTyped
<1>3. failing' = [q \in Replicas |-> failing'[q]] /\ tried' = [q \in Replicas |-> tried'[q]]
  BY <1>1 DEF ReporterInv, ForgeInv
<1>4. ForgeInv'
  BY <1>1, <1>2, <1>3 DEF ReporterInv, ForgeInv, Undisturbed
<1> QED BY <1>1, <1>4, CrashKeeps DEF ReporterInv

LEMMA ReporterSteps == ReporterInv /\ [CheckNext]_checkVars => ReporterInv'
<1> SUFFICES ASSUME ReporterInv, [CheckNext]_checkVars PROVE ReporterInv'
  OBVIOUS
<1>1. CASE Fleet /\ UNCHANGED reporterVars
  BY <1>1, FleetStepKeeps
<1>2. ASSUME NEW r \in Replicas, CrashCheck(r) \/ OnCriticalPaths(r)
      PROVE  ReporterInv'
  BY <1>2, CrashCheckKeeps, ReturnKeeps, PostFailureKeeps, PostSuccessKeeps DEF OnCriticalPaths
<1>3. CASE UNCHANGED checkVars
  <2>1. UNCHANGED <<storeVars, holder, state, pass, alertVars, failovers, faults, reporterVars>>
    BY <1>3 DEF checkVars, fleetVars
  <2>2. FleetInv'
    BY <2>1, PostKeepsFleet DEF ReporterInv, FleetInv, FleetTyped
  <2>3. ForgeInv'
    BY <2>1 DEF reporterVars, ReporterInv, ForgeInv, Undisturbed
  <2> QED BY <2>2, <2>3 DEF ReporterInv
<1> QED BY <1>1, <1>2, <1>3 DEF CheckNext

\* The reporter and the fleet hold to the invariant: analyzer/service.go,
\* leader.go, notify.go, action/check.go.
THEOREM ReporterInvariant == CheckSpec => []ReporterInv
BY ReporterStarts, ReporterSteps, PTL DEF CheckSpec

LEMMA AlertsAreAccounted == ReporterInv => AlertedOnce
<1> SUFFICES ASSUME ReporterInv, failovers = 0, NEW p \in Paths
             PROVE  alerted[p] <= entered[p]
  BY DEF AlertedOnce
<1>1. /\ Accounted(holder, graph, state, pass, outbox, alerted, entered)
      /\ alerted[p] \in Nat /\ entered[p] \in Nat /\ Waiting(outbox, p) \in Nat
  BY WaitingCounts DEF ReporterInv, FleetInv, FleetTyped
<1>2. CASE holder = Nobody
  BY <1>1, <1>2 DEF Accounted
<1>3. CASE holder # Nobody
  <2>1. Uttered(outbox, alerted, DueOf(graph, state[holder], pass[holder]), p) <= entered[p]
    BY <1>1, <1>3 DEF Accounted
  <2> QED BY <1>1, <2>1 DEF Uttered
<1> QED BY <1>2, <1>3

\* What a leader posts is not what the forge shows.
LEMMA PostsAreNews ==
  ASSUME ReporterInv, NEW r \in Replicas, NEW c \in Commits, Undisturbed,
         pass[r].step = "sink"
  PROVE  /\ RedDue(r, c) => statuses[c] # Red(CountedOn(c, state[r].latest))
         /\ GreenDue(r, c) => statuses[c] # Green
<1>1. r = holder
  BY DEF ReporterInv, FleetInv, LeaderSinks, Undisturbed
<1>2. \A q \in Replicas \ {r} : DOMAIN failing[q] = {}
  BY <1>1 DEF ReporterInv, ForgeInv
<1>3. CASE c \in DOMAIN failing[r]
  <2>1. statuses[c] = Red(failing[r][c])
    BY <1>3 DEF ReporterInv, ForgeInv
  <2> QED BY <1>3, <2>1, StatusesDiffer DEF RedDue
<1>4. CASE c \notin DOMAIN failing[r]
  <2>1. statuses[c] \in {None, Green}
    BY <1>2, <1>4 DEF ReporterInv, ForgeInv
  <2> QED BY <1>4, <2>1, StatusesDiffer DEF GreenDue
<1> QED BY <1>3, <1>4

LEMMA StepsPostNews == ReporterInv /\ [CheckNext]_checkVars => NothingPostedTwice
<1> SUFFICES ASSUME ReporterInv, [CheckNext]_checkVars, NEW r \in Replicas, NEW c \in Commits,
                    Undisturbed', c \in tried'[r] \ tried[r]
             PROVE  statuses'[c] # statuses[c] \/ faults' > faults
  BY DEF NothingPostedTwice
<1>1. /\ tried = [q \in Replicas |-> tried[q]] /\ statuses = [d \in Commits |-> statuses[d]]
      /\ failing = [q \in Replicas |-> failing[q]] /\ faults \in Nat
  BY DEF ReporterInv, FleetInv, FleetTyped, ForgeInv
<1>2. PICK q \in Replicas, d \in Commits : PostFailure(q, d) \/ PostSuccess(q, d)
  <2>1. CASE UNCHANGED tried
    BY <2>1
  <2>2. ASSUME NEW q \in Replicas, tried' = [tried EXCEPT ![q] = {}]
        PROVE  FALSE
    BY <1>1, <2>2
  <2> QED BY <2>1, <2>2 DEF CheckNext, checkVars, reporterVars, CrashCheck, OnCriticalPaths, Return
<1>3. PICK status, noted :
        /\ Post(q, d, status, noted) /\ pass[q].step = "sink"
        /\ \/ RedDue(q, d) /\ status = Red(CountedOn(d, state[q].latest))
           \/ GreenDue(q, d) /\ status = Green
  BY <1>2 DEF PostFailure, PostSuccess
<1>4. q = r /\ d = c
  <2>1. tried' = [tried EXCEPT ![q] = @ \cup {d}]
    BY <1>3 DEF Post
  <2> QED BY <1>1, <2>1
<1>5. CASE Fails
  BY <1>1, <1>5 DEF Fails
<1>6. CASE statuses' = [statuses EXCEPT ![d] = status] /\ UNCHANGED <<lost, failovers>>
  <2>1. Undisturbed
    BY <1>6 DEF Undisturbed
  <2>2. statuses[c] # status
    BY <1>3, <1>4, <2>1, PostsAreNews
  <2>3. statuses'[c] = status
    BY <1>1, <1>4, <1>6
  <2> QED BY <2>2, <2>3
<1> QED BY <1>3, <1>5, <1>6 DEF Post

\* No change is announced more often than it came, and no status posted that
\* the forge shows: notify.go, action/check.go.
THEOREM NothingIsSaidTwice == CheckSpec => SaidOnce
<1>1. ReporterInv /\ ReporterInv' /\ [CheckNext]_checkVars => [AlertedOnce' /\ NothingPostedTwice]_checkVars
  <2>1. (ReporterInv => AlertedOnce)'
    BY AlertsAreAccounted, PTL
  <2> QED BY <2>1, StepsPostNews
<1> QED BY ReporterInvariant, <1>1, PTL DEF CheckSpec, SaidOnce
=============================================================================
