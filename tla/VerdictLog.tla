----------------------------- MODULE VerdictLog -----------------------------
(***************************************************************************)
(* The verdicts testers report on attack paths, from which the engine's    *)
(* accuracy is computed.  One replica keeps them in an append-only log: a  *)
(* verdict changes memory and is appended under one lock, and when there   *)
(* is no log to extend, an append failed, or the log has grown too long,   *)
(* the log is rewritten from memory in three phases, the long middle one   *)
(* without the lock.  Several replicas keep them in a table.               *)
(*                                                                         *)
(* The same reports reach both, side by side.  An append may fail or be    *)
(* cut short, a rewrite may fail, and the replica with the log may crash   *)
(* and load it again.                                                      *)
(***************************************************************************)
EXTENDS Naturals, Sequences, FiniteSets

CONSTANTS
  Reporters,      \* requests being handled at once
  LivePaths,      \* paths the latest analysis shows the callers
  NoPath,         \* a finding without a path
  Findings,       \* the findings a report may hold
  Slack,          \* events the log may hold beyond twice the live records
  MaxReports,     \* bound: reports and deletions
  MaxReport,      \* bound: findings in a report
  MaxVerdictFaults \* bound: crashes and failing writes

VARIABLES
  verdicts,   \* byTenant: the records in memory
  verdictRows, \* the validations table
  verdictLog,  \* the lines of the file
  format,     \* of the file: "none", "v1" (a whole file) or "v2" (the log)
  logEvents, legacy, dirty, compacting, pending,  \* the store's bookkeeping
  reporter,   \* what each handler is at
  nextId, reports, verdictFaults,
  hole        \* events that went past the log, before the rewrite under way
              \* began or during it (observation only)

verdictVars == <<verdicts, verdictRows, verdictLog, format, logEvents, legacy, dirty, compacting, pending,
                 reporter, nextId, reports, verdictFaults, hole>>

bookkeeping == <<logEvents, legacy, dirty, compacting, pending>>

Free == [at |-> "free"]
Torn == [op |-> "torn"]         \* an unfinished last line
Garbled == [op |-> "garbled"]   \* a line that does not decode
Put(r) == [op |-> "put", rec |-> r]
Del(id) == [op |-> "del", id |-> id]

\* A store that begins, or one that finds the file an older build wrote.
Old(p) == [id |-> 0, path |-> p, scope |-> "path", outcome |-> "refuted", predicted |-> 0]

VerdictInit ==
  /\ \E old \in {{}} \cup {{Old(p)} : p \in LivePaths} :
       /\ verdicts = old /\ verdictRows = old
       /\ verdictLog = IF old = {} THEN << >> ELSE <<Put(CHOOSE r \in old : TRUE)>>
       /\ format = IF old = {} THEN "none" ELSE "v1"
       /\ legacy = (old # {})
  /\ logEvents = 0 /\ dirty = FALSE /\ compacting = FALSE /\ pending = << >>
  /\ reporter = [h \in Reporters |-> Free]
  /\ nextId = 1 /\ reports = 0 /\ verdictFaults = 0
  /\ hole = {}

---------------------------------------------------------------------------
(***************************************************************************)
(* Memory, and the log replayed into it.                                   *)
(***************************************************************************)

Accumulates(r) == r.outcome = "missed" \/ r.scope = "edge"

\* A path has one verdict per scope, the latest; missed paths and forecasts of
\* single hops add up.
ApplyPut(all, r) ==
  IF Accumulates(r) THEN all \cup {r}
  ELSE {x \in all : x.outcome = "missed" \/ x.path # r.path \/ x.scope # r.scope} \cup {r}

ApplyDelete(all, id) == {x \in all : x.id # id}

ApplyEvent(all, ev) == IF ev.op = "put" THEN ApplyPut(all, ev.rec) ELSE ApplyDelete(all, ev.id)

Readable(ev) == ev.op \in {"put", "del"}

\* A last line that does not decode is taken for an append cut short; any other
\* stops the load.
Loads(lines) == \A i \in 1..Len(lines) : Readable(lines[i]) \/ i = Len(lines)

Whole(lines) ==
  IF lines # << >> /\ ~Readable(lines[Len(lines)]) THEN SubSeq(lines, 1, Len(lines) - 1) ELSE lines

Replayed(lines) ==
  LET replay[n \in 0..Len(lines)] ==
        IF n = 0 THEN {} ELSE ApplyEvent(replay[n-1], lines[n])
  IN replay[Len(lines)]

\* A line appended after a torn one continues it.
AppendLine(lines, ev) ==
  IF lines # << >> /\ lines[Len(lines)] = Torn
  THEN [lines EXCEPT ![Len(lines)] = Garbled]
  ELSE Append(lines, ev)

CompactThreshold(live) == 2 * live + Slack

---------------------------------------------------------------------------
(***************************************************************************)
(* noteLocked: the event is appended, or a rewrite is due, in which case   *)
(* nothing is.  An append that fails may leave part of its line.           *)
(***************************************************************************)

NeedsRewrite == dirty \/ legacy \/ logEvents = 0

Moves(h, request) == reporter' = [reporter EXCEPT ![h] = request]

\* Fault: an event noted during a rewrite is not handed to it.
NoteUnbuffered(h, asked, ev, live) ==
  IF NeedsRewrite
  THEN /\ UNCHANGED <<verdictLog, logEvents, dirty, pending, verdictFaults>>
       /\ Moves(h, [asked EXCEPT !.at = "rewrite"])
  ELSE \/ /\ verdictLog' = AppendLine(verdictLog, ev)
          /\ logEvents' = logEvents + 1
          /\ Moves(h, [asked EXCEPT !.at = IF logEvents' > CompactThreshold(live) THEN "rewrite" ELSE "done"])
          /\ UNCHANGED <<dirty, pending, verdictFaults>>
       \/ /\ verdictFaults < MaxVerdictFaults /\ verdictFaults' = verdictFaults + 1
          /\ verdictLog' \in {verdictLog, AppendLine(verdictLog, Torn)}
          /\ dirty' = TRUE
          /\ Moves(h, [asked EXCEPT !.at = "rewrite"])
          /\ UNCHANGED <<logEvents, pending>>

Note(h, asked, ev, live) ==
  IF NeedsRewrite
  THEN /\ UNCHANGED <<verdictLog, logEvents, dirty, pending, verdictFaults>>
       /\ Moves(h, [asked EXCEPT !.at = "rewrite"])
  ELSE \/ /\ verdictLog' = AppendLine(verdictLog, ev)
          /\ logEvents' = logEvents + 1
          /\ pending' = IF compacting THEN Append(pending, ev) ELSE pending
          /\ Moves(h, [asked EXCEPT !.at = IF logEvents' > CompactThreshold(live) THEN "rewrite" ELSE "done"])
          /\ UNCHANGED <<dirty, verdictFaults>>
       \/ /\ verdictFaults < MaxVerdictFaults /\ verdictFaults' = verdictFaults + 1
          /\ verdictLog' \in {verdictLog, AppendLine(verdictLog, Torn)}
          /\ dirty' = TRUE
          /\ Moves(h, [asked EXCEPT !.at = "rewrite"])
          /\ UNCHANGED <<logEvents, pending>>

\* An event is swallowed by a torn line, or is neither in the copy that a rewrite
\* under way began with nor handed to it.
Hole(ev) ==
  hole' = hole
    \cup (IF verdictLog' # verdictLog /\ verdictLog' = AppendLine(verdictLog, ev) /\ verdictLog' # Append(verdictLog, ev) THEN {"before"} ELSE {})
    \cup (IF compacting /\ (NeedsRewrite \/ dirty') THEN {"during"} ELSE {})

---------------------------------------------------------------------------
(***************************************************************************)
(* Reports: one finding (POST /validations) or several (the importer).     *)
(***************************************************************************)

\* The importer finds a live path by the name of its target.
MatchPath(f) ==
  IF f.path # NoPath \/ f.outcome = "missed" THEN f.path
  ELSE IF f.target \in LivePaths THEN f.target ELSE NoPath

\* The prediction a verdict grades is the server's for a path it shows, and the
\* reporter's otherwise.
BuildRecord(f, path) ==
  [id |-> nextId, path |-> path, scope |-> f.scope, outcome |-> f.outcome,
   predicted |-> IF path \in LivePaths THEN 0 ELSE f.claimed]

Accepted(f) ==
  /\ f.outcome \in {"confirmed", "refuted", "partial", "missed"}
  /\ f.scope \in {"path", "target", "edge"}

MayActOn(scoped, path) == scoped => path \in LivePaths

Asked(scoped, findings) ==
  [at |-> "next", scoped |-> scoped, rest |-> findings,
   counts |-> [c \in {"recorded", "unmatched", "rejected"} |-> 0]]

PostReport(h, scoped, findings) ==
  /\ reporter[h] = Free
  /\ reports < MaxReports
  /\ reports' = reports + 1
  /\ Moves(h, Asked(scoped, findings))
  /\ UNCHANGED <<verdicts, verdictRows, verdictLog, format, bookkeeping, nextId, verdictFaults, hole>>

Counted(h, count) ==
  Moves(h, [at |-> "next", scoped |-> reporter[h].scoped, rest |-> Tail(reporter[h].rest),
            counts |-> [reporter[h].counts EXCEPT ![count] = @ + 1]])

\* A finding that matches nothing the caller sees, or is not a verdict.
SkipFinding(h) ==
  /\ reporter[h].at = "next" /\ reporter[h].rest # << >>
  /\ LET f == Head(reporter[h].rest)
         path == MatchPath(f)
     IN \/ /\ \/ path = NoPath /\ f.outcome # "missed"
              \/ ~MayActOn(reporter[h].scoped, path)
           /\ Counted(h, "unmatched")
        \/ /\ path # NoPath \/ f.outcome = "missed"
           /\ MayActOn(reporter[h].scoped, path)
           /\ ~Accepted(f)
           /\ Counted(h, "rejected")
  /\ UNCHANGED <<verdicts, verdictRows, verdictLog, format, bookkeeping, nextId, reports, verdictFaults, hole>>

PutVerdict(h) ==
  /\ reporter[h].at = "next" /\ reporter[h].rest # << >>
  /\ LET f == Head(reporter[h].rest)
         path == MatchPath(f)
         r == BuildRecord(f, path)
     IN /\ path # NoPath \/ f.outcome = "missed"
        /\ MayActOn(reporter[h].scoped, path)
        /\ Accepted(f)
        /\ verdicts' = ApplyPut(verdicts, r)
        /\ verdictRows' = verdictRows \cup {r}
        /\ Note(h, reporter[h], Put(r), Cardinality(verdicts'))
        /\ Hole(Put(r))
  /\ nextId' = nextId + 1
  /\ UNCHANGED <<format, legacy, compacting, reports>>

\* A verdict is withdrawn by its id.
DeleteVerdict(h, scoped, r) ==
  /\ reporter[h] = Free
  /\ reports < MaxReports
  /\ r \in verdicts /\ MayActOn(scoped, r.path)
  /\ reports' = reports + 1
  /\ verdicts' = ApplyDelete(verdicts, r.id)
  /\ verdictRows' = ApplyDelete(verdictRows, r.id)
  /\ Note(h, Asked(scoped, <<r>>), Del(r.id), Cardinality(verdicts'))
  /\ Hole(Del(r.id))
  /\ UNCHANGED <<format, legacy, compacting, nextId>>

\* The finding is recorded, or is answered as refused when the rewrite it had to
\* run failed.
EndFinding(h) ==
  /\ reporter[h].at \in {"done", "failed"}
  /\ Counted(h, IF reporter[h].at = "done" THEN "recorded" ELSE "rejected")
  /\ UNCHANGED <<verdicts, verdictRows, verdictLog, format, bookkeeping, nextId, reports, verdictFaults, hole>>

EndReport(h) ==
  /\ reporter[h].at = "next" /\ reporter[h].rest = << >>
  /\ Moves(h, Free)
  /\ UNCHANGED <<verdicts, verdictRows, verdictLog, format, bookkeeping, nextId, reports, verdictFaults, hole>>

---------------------------------------------------------------------------
(***************************************************************************)
(* compact.                                                                *)
(***************************************************************************)

\* One at a time: a request that finds a rewrite in flight leaves it to it.
CompactBegins(h) ==
  /\ reporter[h].at = "rewrite"
  /\ IF compacting
     THEN /\ Moves(h, [reporter[h] EXCEPT !.at = "done"])
          /\ UNCHANGED <<compacting, pending, hole>>
     ELSE /\ compacting' = TRUE
          /\ pending' = << >>
          /\ Moves(h, [at |-> "writing", copy |-> verdicts, then |-> reporter[h]])
          /\ hole' = IF hole = {} THEN {} ELSE {"before"}
  /\ UNCHANGED <<verdicts, verdictRows, verdictLog, format, logEvents, legacy, dirty, nextId, reports, verdictFaults>>

\* The records in the order of their ids.
Lines(records) ==
  LET nth(i) == CHOOSE r \in records : Cardinality({x \in records : x.id <= r.id}) = i
  IN [i \in 1..Cardinality(records) |-> Put(nth(i))]

CompactEnds(h) ==
  /\ reporter[h].at = "writing"
  /\ verdictLog' = Lines(reporter[h].copy) \o pending
  /\ format' = "v2"
  /\ logEvents' = Len(verdictLog')
  /\ legacy' = FALSE /\ dirty' = FALSE /\ compacting' = FALSE /\ pending' = << >>
  /\ hole' = hole \ {"before"}
  /\ Moves(h, [reporter[h].then EXCEPT !.at = "done"])
  /\ UNCHANGED <<verdicts, verdictRows, nextId, reports, verdictFaults>>

\* The temporary file cannot be written, or the directory cannot be synced after
\* the rename.
CompactFails(h) ==
  /\ reporter[h].at = "writing"
  /\ verdictFaults < MaxVerdictFaults /\ verdictFaults' = verdictFaults + 1
  /\ \/ UNCHANGED <<verdictLog, format>>
     \/ verdictLog' = Lines(reporter[h].copy) \o pending /\ format' = "v2"
  /\ compacting' = FALSE /\ pending' = << >>
  /\ Moves(h, [reporter[h].then EXCEPT !.at = "failed"])
  /\ UNCHANGED <<verdicts, verdictRows, logEvents, legacy, dirty, nextId, reports, hole>>

\* The replica stops, possibly with a line half written, and loads the file.
CrashAndLoad ==
  /\ verdictFaults < MaxVerdictFaults /\ verdictFaults' = verdictFaults + 1
  /\ verdictLog' \in {verdictLog} \cup (IF format = "v2" THEN {AppendLine(verdictLog, Torn)} ELSE {})
  /\ Loads(verdictLog')
  /\ verdicts' = Replayed(Whole(verdictLog'))
  /\ verdictRows' = verdictRows
  /\ logEvents' = IF format = "v1" THEN 0 ELSE Len(Whole(verdictLog'))
  /\ legacy' = (format = "v1")
  /\ dirty' = FALSE /\ compacting' = FALSE /\ pending' = << >>
  /\ reporter' = [h \in Reporters |-> Free]
  /\ hole' = {x \in {"before"} : \E i \in 1..Len(verdictLog') : verdictLog'[i] = Garbled}
  /\ UNCHANGED <<format, nextId, reports>>

Report == UNION {[1..n -> Findings] : n \in 1..MaxReport}

VerdictNext ==
  \/ \E h \in Reporters :
       \/ \E scoped \in BOOLEAN, findings \in Report : PostReport(h, scoped, findings)
       \/ \E scoped \in BOOLEAN, r \in verdicts : DeleteVerdict(h, scoped, r)
       \/ SkipFinding(h) \/ PutVerdict(h) \/ EndFinding(h) \/ EndReport(h)
       \/ CompactBegins(h) \/ CompactEnds(h) \/ CompactFails(h)
  \/ CrashAndLoad

VerdictSpec == VerdictInit /\ [][VerdictNext]_verdictVars

---------------------------------------------------------------------------
(***************************************************************************)
(* Properties.                                                             *)
(***************************************************************************)

\* Nobody still has a write to make.
Settled == \A h \in Reporters : reporter[h].at \in {"free", "next", "done"}

\* What a restart would load is what the store answers from, whenever no request
\* is on its way to the file and no rewrite is owed: appends made while a rewrite was under way are in
\* the file that replaces the log, a failed append is made good, and a load
\* leaves nothing out.  Left aside are the two ways past the log that
\* AcknowledgedIsLoaded is about (noteLocked, compact, replayLog).
LogHoldsTheVerdicts ==
  Settled /\ ~NeedsRewrite /\ hole = {} => Loads(verdictLog) /\ Replayed(Whole(verdictLog)) = verdicts

\* What appendLines' comment says of the log: "A verdict appended but not on disk is
\* a verdict lost to a crash, while the caller was told it was recorded", and what
\* compact's says of a second rewrite: "the in-flight rewrite already covers this
\* state".  Without any fault, what was answered is in the file.
AcknowledgedIsLoaded ==
  verdictFaults = 0 /\ Settled => Replayed(Whole(verdictLog)) = verdicts

\* Precision and recall are ratios of these counts.
Metrics(all) == [o \in {"confirmed", "refuted", "partial", "missed"} |-> Cardinality({r \in all : r.outcome = o})]

\* What the comments say of the two backends: "a precision that moved when a
\* deployment changed where it stores evidence would be indistinguishable from the
\* engine getting better".  Without any fault both count the same verdicts.
MetricsAgree == verdictFaults = 0 => Metrics(verdicts) = Metrics(verdictRows)
=============================================================================
