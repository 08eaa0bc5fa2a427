---------------------------- MODULE PathHistory ----------------------------
(***************************************************************************)
(* The memory of the passes: when each attack path was first and last      *)
(* seen, whether it is open, when it was resolved and how often it came    *)
(* back, and two downsampled series, the posture and the calibration.      *)
(*                                                                         *)
(* The same passes are recorded by both backends, side by side: the file   *)
(* store (its memory, rewritten whole to its file) and the shared tables.  *)
(* Either may fail to write, and the replica with the file may restart.    *)
(***************************************************************************)
EXTENDS Naturals, Sequences, FiniteSets

CONSTANTS
  PathIds,        \* attack paths
  SampleEvery,    \* ticks a series point stands for (sampleEvery)
  MaxPoints,      \* points a series keeps (maxPoints)
  MaxPasses,      \* bound: passes and samples
  MaxHistoryTime, \* bound: ticks
  MaxHistoryFaults \* bound: failed writes, failed reads and restarts

ASSUME HistoryAssumption ==
  SampleEvery \in Nat \ {0} /\ MaxPoints \in Nat \ {0}

VARIABLES
  remembered,   \* the file store's memory
  historyFile,  \* what its file holds
  historyRows,  \* the shared tables
  tick, passes, historyFaults,
  lostWrites,   \* a write of either backend failed (observation only)
  restarted,    \* the replica with the file restarted (observation only)
  sampledAt     \* the ticks the posture was sampled at (observation only)

historyVars == <<remembered, historyFile, historyRows, tick, passes, historyFaults, lostWrites, restarted, sampledAt>>

Series == {"posture", "calibration"}
Empty0 == [paths |-> [p \in {} |-> 0], posture |-> << >>, calibration |-> << >>]

HistoryInit ==
  /\ remembered = Empty0 /\ historyFile = Empty0 /\ historyRows = Empty0
  /\ tick = 1 /\ passes = 0 /\ historyFaults = 0
  /\ lostWrites = FALSE /\ restarted = FALSE /\ sampledAt = {}

---------------------------------------------------------------------------
(***************************************************************************)
(* A pass in the file store: paths seen are opened, aged or reopened, and  *)
(* the open ones it does not list are resolved.                            *)
(***************************************************************************)

NotResolved == 0

Opening(first, reopens) ==
  [first |-> first, last |-> tick, open |-> TRUE, resolved |-> NotResolved, reopens |-> reopens]

New == Opening(tick, 0)

Seen(all, p) ==
  IF p \notin DOMAIN all THEN New
  ELSE IF ~all[p].open THEN Opening(tick, all[p].reopens + 1)
  ELSE [all[p] EXCEPT !.last = tick]

Resolved(rec) ==
  [first |-> rec.first, last |-> rec.last, open |-> FALSE, resolved |-> tick, reopens |-> rec.reopens]

Unseen(rec) == IF rec.open THEN Resolved(rec) ELSE rec

Lifecycle(all, open) ==
  [p \in DOMAIN all \cup open |-> IF p \in open THEN Seen(all, p) ELSE Unseen(all[p])]

(***************************************************************************)
(* The same pass in the shared table: an upsert per path and one update    *)
(* for the rest, in one transaction.                                       *)
(***************************************************************************)

\* Fault: a path that comes back keeps the date it was first seen.
UpsertKeepingFirst(row) == Opening(row.first, row.reopens + (IF row.open THEN 0 ELSE 1))

Upsert(row) ==
  Opening(IF row.open THEN row.first ELSE tick, row.reopens + (IF row.open THEN 0 ELSE 1))

Observe(rows, open) ==
  LET upserted == [p \in DOMAIN rows \cup open |->
        IF p \notin open THEN rows[p] ELSE IF p \in DOMAIN rows THEN Upsert(rows[p]) ELSE New]
      stale == {p \in DOMAIN upserted : upserted[p].open /\ p \notin open}
  IN [p \in DOMAIN upserted |->
        IF p \in stale THEN Resolved(upserted[p]) ELSE upserted[p]]

---------------------------------------------------------------------------
(***************************************************************************)
(* A series: a point within the window of the last one replaces its value  *)
(* and keeps its date, so the window does not slide.                       *)
(***************************************************************************)

InWindow(s) == Len(s) > 0 /\ tick - s[Len(s)].at < SampleEvery

Refreshed(s, v) == [s EXCEPT ![Len(s)].value = v]

Newest(s) == IF Len(s) > MaxPoints THEN SubSeq(s, Len(s) - MaxPoints + 1, Len(s)) ELSE s

AppendPosture(s, v) ==
  IF InWindow(s) THEN Refreshed(s, v) ELSE Newest(Append(s, [at |-> tick, value |-> v]))

\* A trim deletes the rows older than the oldest of the newest MaxPoints; the rows
\* stand in the order of their dates.
Oldest(s) == s[Len(s) - MaxPoints + 1].at

Older(s) == {i \in 1..Len(s) : s[i].at < Oldest(s)}

Trimmed(s) == IF Len(s) < MaxPoints THEN s ELSE SubSeq(s, Cardinality(Older(s)) + 1, Len(s))

\* An insert over a row of the same date overwrites it (posture) or is dropped
\* (calibration).
Inserted(series, s, v) ==
  IF Len(s) > 0 /\ s[Len(s)].at = tick
  THEN IF series = "posture" THEN Refreshed(s, v) ELSE s
  ELSE Append(s, [at |-> tick, value |-> v])

\* What a sample leaves in the shared table: reading the last point, the write and
\* the trim fail on their own.  A failed read ends the posture's sample, and the
\* calibration's goes on to insert.
Sampled(series, s, v, fails) ==
  IF fails = "write" \/ (fails = "read" /\ series = "posture") THEN s
  ELSE IF fails # "read" /\ InWindow(s) THEN Refreshed(s, v)
  ELSE IF fails = "trim" THEN Inserted(series, s, v)
  ELSE Trimmed(Inserted(series, s, v))

---------------------------------------------------------------------------
(***************************************************************************)
(* Actions.                                                                *)
(***************************************************************************)

Failures == {"none", "read", "write", "trim"}

\* A database step fails, or the file is not written; at most MaxHistoryFaults.
Attempt(fails, written) ==
  /\ passes < MaxPasses /\ passes' = passes + 1
  /\ (fails = "none" /\ written) \/ historyFaults < MaxHistoryFaults
  /\ historyFaults' = historyFaults + (IF fails = "none" /\ written THEN 0 ELSE 1)
  /\ lostWrites' = (lostWrites \/ fails # "none" \/ ~written)

\* persist: the whole memory, unless the write fails, which nobody is told of.
Persist(written, memory) == historyFile' = IF written THEN memory ELSE historyFile

\* A pass whose transaction fails records nothing of itself, not even its point.
ObservePass(open, fails, written) ==
  /\ Attempt(fails, written)
  /\ remembered' = [paths |-> Lifecycle(remembered.paths, open),
                    posture |-> AppendPosture(remembered.posture, Cardinality(open)),
                    calibration |-> remembered.calibration]
  /\ Persist(written, remembered')
  /\ historyRows' = IF fails = "write" THEN historyRows
                    ELSE [paths |-> Observe(historyRows.paths, open),
                          posture |-> Sampled("posture", historyRows.posture, Cardinality(open), fails),
                          calibration |-> historyRows.calibration]
  /\ sampledAt' = sampledAt \cup {tick}
  /\ UNCHANGED <<tick, restarted>>

\* SampleTrend and SampleCalibration: a point and no lifecycle.  The file is only
\* rewritten for a point of its own.
Sample(series, v, fails, written) ==
  /\ Attempt(fails, written)
  /\ remembered' = [remembered EXCEPT ![series] = AppendPosture(@, v)]
  /\ IF InWindow(remembered[series]) THEN UNCHANGED historyFile ELSE Persist(written, remembered')
  /\ historyRows' = [historyRows EXCEPT ![series] = Sampled(series, @, v, fails)]
  /\ sampledAt' = IF series = "posture" THEN sampledAt \cup {tick} ELSE sampledAt
  /\ UNCHANGED <<tick, restarted>>

RestartHistory ==
  /\ historyFaults < MaxHistoryFaults
  /\ historyFaults' = historyFaults + 1
  /\ remembered' = historyFile
  /\ restarted' = TRUE
  /\ UNCHANGED <<historyFile, historyRows, tick, passes, lostWrites, sampledAt>>

HistoryTick ==
  /\ tick < MaxHistoryTime
  /\ tick' = tick + 1
  /\ UNCHANGED <<remembered, historyFile, historyRows, passes, historyFaults, lostWrites, restarted, sampledAt>>

HistoryNext ==
  \/ \E fails \in Failures, written \in BOOLEAN :
       \/ \E open \in SUBSET PathIds : ObservePass(open, fails, written)
       \/ \E series \in Series, v \in 0..1 : Sample(series, v, fails, written)
  \/ RestartHistory
  \/ HistoryTick

HistorySpec == HistoryInit /\ [][HistoryNext]_historyVars

---------------------------------------------------------------------------
(***************************************************************************)
(* What the panels read.                                                   *)
(***************************************************************************)

\* The file store skips the resolution of an open path; the shared code counts
\* every resolution there is.
Stats(all) ==
  LET resolved == {p \in DOMAIN all : ~all[p].open /\ all[p].resolved # NotResolved}
  IN [open |-> {p \in DOMAIN all : all[p].open},
      took |-> [p \in resolved |-> all[p].resolved - all[p].first]]

StatsOf(recs) ==
  LET resolved == {p \in DOMAIN recs : recs[p].resolved # NotResolved}
  IN [open |-> {p \in DOMAIN recs : recs[p].open},
      took |-> [p \in resolved |-> recs[p].resolved - recs[p].first]]

Dates(s) == [i \in 1..Len(s) |-> s[i].at]

\* A deployment that changes backend sees the same record of every path, the same
\* times to remediate and the same series: as long as no write is lost the file
\* store, through restarts, and the shared tables agree; only the value of a
\* point that was refreshed since it was written may be older after a restart
\* (Store.ObservePass and PGStore.observe, appendPosture and samplePosture, Stats
\* and statsOf).
BackendsAgree ==
  ~lostWrites =>
    /\ remembered.paths = historyRows.paths
    /\ Stats(remembered.paths) = StatsOf(historyRows.paths)
    /\ \A s \in Series :
         /\ Dates(remembered[s]) = Dates(historyRows[s])
         /\ ~restarted => remembered[s] = historyRows[s]

\* Every time the posture was sampled falls in the window of a point that is kept,
\* or lies before the points a full series keeps, and no two windows overlap: a
\* busy tenant still gets a line, and a quiet one no more points than windows
\* (appendPosture, samplePosture, trim).
SamplesHaveTheirPoint ==
  LET Covered(s) == \A t \in sampledAt :
        \/ \E i \in 1..Len(s) : s[i].at <= t /\ t < s[i].at + SampleEvery
        \/ Len(s) = MaxPoints /\ t < s[1].at
  IN /\ \A s \in {remembered.posture, historyFile.posture, historyRows.posture} :
          \A i \in 2..Len(s) : s[i].at - s[i-1].at >= SampleEvery
     /\ ~lostWrites => Covered(historyRows.posture) /\ Covered(remembered.posture)

\* The record of a path over time is the same in either backend and has no hole
\* (Store.ObservePass, PGStore.ObservePass).
HistoryHolds == BackendsAgree /\ SamplesHaveTheirPoint
=============================================================================
