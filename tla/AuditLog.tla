------------------------------ MODULE AuditLog ------------------------------
(***************************************************************************)
(* The audit trail that every replica appends to: one hash chain in        *)
(* PostgreSQL, shortened from its old end by retention, and checked by the *)
(* verify-audit command.                                                   *)
(*                                                                         *)
(* A call to Record only queues; one writer in each replica empties the    *)
(* queue, each record in a transaction that holds the chain's advisory     *)
(* lock from before it reads the tail, so that an append is one action.    *)
(* A transaction may fail, or commit and lose its answer.  The command     *)
(* takes no lock and reads the checkpoint and the rows in two statements.  *)
(*                                                                         *)
(* A hash is the tuple it is computed from: no two contents have the same. *)
(***************************************************************************)
EXTENDS Integers, Sequences, Functions

CONSTANTS
  AuditReplicas,
  QueueDepth,       \* what a replica's queue holds
  MaxRecords,       \* bound on the calls to Record
  MaxAuditTime,     \* bound on the clock
  MaxAuditFaults    \* bound on crashes, failed calls and lost answers

ASSUME AuditAssumption ==
  /\ QueueDepth \in Nat \ {0}
  /\ MaxRecords \in Nat
  /\ MaxAuditTime \in Nat
  /\ MaxAuditFaults \in Nat

VARIABLES
  auditClock,
  rows,         \* audit_log: seq -> the record there
  checkpoint,   \* audit_log_checkpoint: the last record that retention removed
  log,          \* replica -> its log: down, open, closing (Close was called), ended (its writer is)
  queue,        \* replica -> what its writer has yet to take
  writing,      \* replica -> the record its writer holds, if any, and whether as a tombstone
  recorded,     \* the calls to Record so far: records are named by their number
  late,         \* records queued when Close had been called
  said,         \* records whose loss was logged
  perished,     \* records held by a process that crashed
  verifier,     \* the verification under way, or its verdict
  auditFaults

tableVars == <<rows, checkpoint>>
replicaVars == <<log, queue, writing>>
fateVars == <<recorded, late, said, perished>>
auditVars == <<auditClock, tableVars, replicaVars, fateVars, verifier, auditFaults>>

\* What the first record of all links to, and the seq before it.
Genesis == [seq |-> 0, hash |-> << >>]

\* The hash covers every column but itself.
HashRecord(s, row) == <<s, row.event, row.at, row.tomb, row.prev>>

\* A run of verify-audit: its step, the checkpoint it read, its verdict, and
\* whether a prune committed since it read the checkpoint.
Verification(step, from, ok, overtaken) ==
  [step |-> step, from |-> from, ok |-> ok, overtaken |-> overtaken]

AuditInit ==
  /\ auditClock = 1
  /\ rows = [s \in {} |-> 0]
  /\ checkpoint = Genesis
  /\ log = [r \in AuditReplicas |-> "down"]
  /\ queue = [r \in AuditReplicas |-> << >>]
  /\ writing = [r \in AuditReplicas |-> << >>]
  /\ recorded = 0
  /\ late = {}
  /\ said = {}
  /\ perished = {}
  /\ verifier = Verification("idle", Genesis, TRUE, FALSE)
  /\ auditFaults = 0

AuditSucceeds == UNCHANGED auditFaults
AuditFails == auditFaults < MaxAuditFaults /\ auditFaults' = auditFaults + 1

---------------------------------------------------------------------------
(***************************************************************************)
(* A replica's log.                                                        *)
(***************************************************************************)

OpenPG(r) ==
  /\ log[r] = "down"
  /\ log' = [log EXCEPT ![r] = "open"]
  /\ UNCHANGED <<auditClock, tableVars, queue, writing, fateVars, verifier, auditFaults>>

\* The call queues, or is refused by a closed log or a full queue, which it
\* logs.  A closed log with room may do either: Go's select takes any case
\* that is ready.
Enqueue(r) ==
  LET rec    == [event |-> recorded + 1, at |-> auditClock]
      closed == log[r] \in {"closing", "ended"}
      room   == Len(queue[r]) < QueueDepth
  IN /\ log[r] # "down"
     /\ recorded < MaxRecords
     /\ recorded' = recorded + 1
     /\ \/ /\ room
           /\ queue' = [queue EXCEPT ![r] = Append(@, rec)]
           /\ late' = IF closed THEN late \cup {rec.event} ELSE late
           /\ UNCHANGED said
        \/ /\ closed \/ ~room
           /\ said' = said \cup {rec.event}
           /\ UNCHANGED <<queue, late>>
     /\ UNCHANGED perished

\* Any middleware may call it, at any time.
Record(r) ==
  /\ Enqueue(r)
  /\ UNCHANGED <<auditClock, tableVars, log, writing, verifier, auditFaults>>

\* The writer takes the next record.
Take(r) ==
  /\ log[r] \in {"open", "closing"}
  /\ writing[r] = << >>
  /\ queue[r] # << >>
  /\ writing' = [writing EXCEPT ![r] = <<[of |-> Head(queue[r]), tomb |-> FALSE]>>]
  /\ queue' = [queue EXCEPT ![r] = Tail(@)]
  /\ UNCHANGED <<auditClock, tableVars, log, fateVars, verifier, auditFaults>>

\* The end of the chain: the last row, or the checkpoint when retention has
\* taken them all.  There is one.
ChainTail ==
  IF DOMAIN rows = {}
  THEN {checkpoint}
  ELSE {[seq |-> s, hash |-> rows[s].hash] : s \in {t \in DOMAIN rows : \A u \in DOMAIN rows : u <= t}}

\* The row a record becomes behind the given end of the chain.
Chained(w, tail) ==
  LET row(h) == [event |-> w.of.event, at |-> w.of.at, tomb |-> w.tomb, prev |-> tail.hash, hash |-> h]
  IN row(HashRecord(tail.seq + 1, row(<< >>)))

Committed(w) ==
  \E tail \in ChainTail :
    rows' = [s \in DOMAIN rows \cup {tail.seq + 1} |->
               IF s = tail.seq + 1 THEN Chained(w, tail) ELSE rows[s]]

\* After an error, the record's tombstone is to be written; after an error
\* on the tombstone, the loss is logged.
AfterError(r, w) ==
  IF w.tomb
  THEN /\ writing' = [writing EXCEPT ![r] = << >>]
       /\ said' = said \cup {w.of.event}
  ELSE /\ writing' = [writing EXCEPT ![r] = <<[w EXCEPT !.tomb = TRUE]>>]
       /\ UNCHANGED said

\* The transaction commits; fails; or commits, and the writer is told of an
\* error.
AppendRecord(r) ==
  /\ writing[r] # << >>
  /\ LET w == writing[r][1]
     IN \/ /\ Committed(w)
           /\ writing' = [writing EXCEPT ![r] = << >>]
           /\ AuditSucceeds
           /\ UNCHANGED said
        \/ AuditFails /\ AfterError(r, w) /\ UNCHANGED rows
        \/ AuditFails /\ AfterError(r, w) /\ Committed(w)
  /\ UNCHANGED <<auditClock, checkpoint, log, queue, recorded, late, perished, verifier>>

Close(r) ==
  /\ log[r] = "open"
  /\ log' = [log EXCEPT ![r] = "closing"]
  /\ UNCHANGED <<auditClock, tableVars, queue, writing, fateVars, verifier, auditFaults>>

\* Fault: the writer stops as soon as the log is closed.
StopsAtOnce(r) == writing[r] = << >>

\* The writer has emptied the queue.
Drained(r) == writing[r] = << >> /\ queue[r] = << >>

EndWriter(r) ==
  /\ log[r] = "closing"
  /\ Drained(r)
  /\ log' = [log EXCEPT ![r] = "ended"]
  /\ UNCHANGED <<auditClock, tableVars, queue, writing, fateVars, verifier, auditFaults>>

\* The records a replica holds.
HeldBy(r) ==
  {queue[r][i].event : i \in DOMAIN queue[r]} \cup {writing[r][i].of.event : i \in DOMAIN writing[r]}

Down(r) ==
  /\ log' = [log EXCEPT ![r] = "down"]
  /\ queue' = [queue EXCEPT ![r] = << >>]
  /\ writing' = [writing EXCEPT ![r] = << >>]

\* Close returns when the writer has ended, or logs that the queue did not
\* drain in time; the process exits.
Exit(r) ==
  /\ log[r] \in {"closing", "ended"}
  /\ Down(r)
  /\ said' = IF log[r] = "closing" THEN said \cup HeldBy(r) ELSE said
  /\ UNCHANGED <<auditClock, tableVars, recorded, late, perished, verifier, auditFaults>>

CrashLog(r) ==
  /\ log[r] # "down"
  /\ AuditFails
  /\ Down(r)
  /\ perished' = perished \cup HeldBy(r)
  /\ UNCHANGED <<auditClock, tableVars, recorded, late, said, verifier>>

---------------------------------------------------------------------------
(***************************************************************************)
(* Retention and verification.                                             *)
(***************************************************************************)

\* Fault: a record that is old enough goes, wherever it is.
OldRowsGo(through, cutoff) == Restrict(rows, {s \in DOMAIN rows : rows[s].at >= cutoff})

\* What retention leaves: everything behind the last record that is old enough.
Survivors(through, cutoff) == Restrict(rows, {s \in DOMAIN rows : s > through})

\* The newest record older than the cutoff goes, with everything before it;
\* the prune is then recorded itself, unless it was told of an error.
PruneBefore(r, cutoff) ==
  /\ log[r] # "down"
  /\ \E through \in DOMAIN rows :
       /\ rows[through].at < cutoff
       /\ \A s \in DOMAIN rows : s > through => rows[s].at >= cutoff
       /\ rows' = Survivors(through, cutoff)
       /\ checkpoint' = [seq |-> through, hash |-> rows[through].hash]
  /\ \/ Enqueue(r) /\ AuditSucceeds
     \/ AuditFails /\ UNCHANGED <<queue, fateVars>>
  /\ verifier' = IF verifier.step = "checkpoint"
                  THEN Verification("checkpoint", verifier.from, TRUE, TRUE)
                  ELSE verifier
  /\ UNCHANGED <<auditClock, log, writing>>

\* The rows are one chain that starts behind the checkpoint.
Verifies(cp, t) ==
  \A s \in DOMAIN t :
    /\ s > cp.seq
    /\ s # cp.seq + 1 => s - 1 \in DOMAIN t
    /\ t[s].prev = IF s = cp.seq + 1 THEN cp.hash ELSE t[s - 1].hash
    /\ t[s].hash = HashRecord(s, t[s])

\* verify-audit reads the checkpoint,
ReadCheckpoint ==
  /\ verifier.step # "checkpoint"
  /\ verifier' = Verification("checkpoint", checkpoint, TRUE, FALSE)
  /\ UNCHANGED <<auditClock, tableVars, replicaVars, fateVars, auditFaults>>

\* and then walks the rows.
WalkChain ==
  /\ verifier.step = "checkpoint"
  /\ verifier' = Verification("done", Genesis, Verifies(verifier.from, rows), verifier.overtaken)
  /\ UNCHANGED <<auditClock, tableVars, replicaVars, fateVars, auditFaults>>

AuditTick ==
  /\ auditClock < MaxAuditTime
  /\ auditClock' = auditClock + 1
  /\ UNCHANGED <<tableVars, replicaVars, fateVars, verifier, auditFaults>>

AuditNext ==
  \/ \E r \in AuditReplicas :
       \/ OpenPG(r)
       \/ Record(r)
       \/ Take(r)
       \/ AppendRecord(r)
       \/ Close(r)
       \/ EndWriter(r)
       \/ Exit(r)
       \/ CrashLog(r)
       \/ \E cutoff \in 1..auditClock : PruneBefore(r, cutoff)
  \/ ReadCheckpoint
  \/ WalkChain
  \/ AuditTick

AuditSpec == AuditInit /\ [][AuditNext]_auditVars

---------------------------------------------------------------------------
(***************************************************************************)
(* Properties.                                                             *)
(***************************************************************************)

\* One chain, whoever appends: at any moment the rows link up, without a gap,
\* behind what retention removed (append's advisory lock and its use of the
\* checkpoint; PruneBefore's prefix).
ChainHolds == Verifies(checkpoint, rows)

\* Nothing vanishes from the trail without a trace: what was recorded before
\* Close, by a process that did not crash, is in the chain itself or as a
\* tombstone, was there and pruned, is still held, or its loss was logged.  (A
\* record queued after Close may miss the writer and be lost unsaid.)
NothingVanishes ==
  [][\A e \in 1..recorded \ (late \cup perished') :
       LET tells(rs) == \E s \in DOMAIN rs : rs[s].event = e
       IN (\E r \in AuditReplicas : e \in HeldBy(r))
            => \/ \E r \in AuditReplicas : e \in HeldBy(r)'
               \/ tells(rows')
               \/ e \in said']_auditVars

\* The verifier cries wolf only over retention: a chain nobody tampered with
\* fails verification only if a prune committed between its two reads
\* (VerifyPG reads the checkpoint and the rows apart, and takes no lock).
AlarmsAreOvertaken == verifier.step = "done" /\ ~verifier.ok => verifier.overtaken

\* The trail can be trusted, and so can an alarm about it: the chain holds, and is called
\* broken only over a retention that ran in between (PGLog.append, PruneBefore, VerifyPG).
TrailIsTrustworthy == ChainHolds /\ AlarmsAreOvertaken
=============================================================================
