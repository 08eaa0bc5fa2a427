----------------------------- MODULE ThreatIntel -----------------------------
(***************************************************************************)
(* What is known of vulnerabilities from outside, and the two that ask:    *)
(* the normalizer, which weighs a scan's edges by it, and the KEV holdout, *)
(* which seals a forecast for a vulnerability nobody is known to exploit   *)
(* and grades it a window later.                                           *)
(*                                                                         *)
(* Each replica asks the feeds on its own and keeps the answers in memory. *)
(* The forecasts are in one replica's file, or in the database every       *)
(* replica shares; the verdicts and the graph are shared.                  *)
(***************************************************************************)
EXTENDS Naturals, FiniteSets

CONSTANTS
  Engines,        \* replicas
  Vulns,          \* vulnerabilities
  Severities,     \* the weights a scanner's severities stand for, in percent
  Levels,         \* the EPSS scores the feed may give, in percent; 0 is none
  Lift,           \* EPSS score -> the weight it stands for (EPSS_TRAVERSAL_GAMMA)
  KevFloor,       \* the weight of a known-exploited vulnerability, in percent
  IntelTTL,       \* how long an answer of a feed is fresh
  HoldoutWindow,         \* how long a forecast waits to be graded
  MaxIntelTime,   \* bound on the clock, which starts at 1
  MaxNews,        \* bound: changes of the feeds
  MaxAsks,        \* bound: scans and holdout passes
  MaxFeedsDown      \* bound: failing calls and restarts

ASSUME IntelAssumption ==
  /\ Engines # {}
  /\ Severities \subseteq 0..100 /\ Levels \subseteq 0..100 /\ 0 \in Levels
  /\ Lift \in [Levels -> 0..100]
  /\ KevFloor \in 0..100
  /\ IntelTTL \in Nat /\ HoldoutWindow \in Nat \ {0}

VARIABLES
  intelClock,
  listed,     \* vulnerability -> when it entered the KEV catalogue, 0 before
  scores,     \* vulnerability -> its score in the EPSS feed
  kev,        \* replica -> its copy of the catalogue and when it got it
  epss,       \* replica -> vulnerability -> its copy of the score
  epssAt,     \* replica -> vulnerability -> when it last asked for it, 0 is never
  asker,      \* replica -> caller -> what it is about
  edges,      \* vulnerability -> the edge into it, in the graph
  store,      \* where the forecasts are: "file" or "pg"
  sealed,     \* the forecasts kept: of the process (file) or of the database
  disk,       \* the forecasts in the file
  graded,     \* the verdicts filed
  news, asks, feedsDown

feedVars == <<intelClock, listed, scores, news>>
cacheVars == <<kev, epss, epssAt>>
holdoutVars == <<sealed, disk, graded>>
intelVars == <<feedVars, cacheVars, asker, edges, store, holdoutVars, asks, feedsDown>>

Callers == {"normalizer", "holdout"}

\* A caller under way: what it asks about, the answer it holds, the severity a scan gave
\* its edge; the forecasts a pass has to grade, what it may seal, and when it began.
Asking(at, about, got, severity, due, open, now) ==
  [at |-> at, about |-> about, got |-> got, severity |-> severity, due |-> due, open |-> open, now |-> now]

Idling == Asking("idle", {}, {}, 0, {}, {}, 0)
NoEdge == [weight |-> 0, basis |-> "none"]

IntelInit ==
  /\ intelClock = 1 /\ news = 0 /\ asks = 0 /\ feedsDown = 0
  /\ listed = [c \in Vulns |-> 0]
  /\ scores \in [Vulns -> Levels]
  /\ kev = [r \in Engines |-> [of |-> {}, got |-> 0]]
  /\ epss = [r \in Engines |-> [c \in Vulns |-> 0]]
  /\ epssAt = [r \in Engines |-> [c \in Vulns |-> 0]]
  /\ asker = [r \in Engines |-> [p \in Callers |-> Idling]]
  /\ edges = [c \in Vulns |-> NoEdge]
  /\ store \in {"file", "pg"}
  /\ sealed = {} /\ disk = {} /\ graded = {}

FeedDown == feedsDown < MaxFeedsDown /\ feedsDown' = feedsDown + 1
FeedsUp == UNCHANGED feedsDown
Ask == asks < MaxAsks /\ asks' = asks + 1

Turn(r, p, call) == asker' = [asker EXCEPT ![r][p] = call]

\* The call goes on, with an answer in hand or not.
Onward(call, at, got) == Asking(at, call.about, got, call.severity, call.due, call.open, call.now)

---------------------------------------------------------------------------
(***************************************************************************)
(* Scores: the catalogue, then the EPSS scores, each asked for when its    *)
(* copy is not fresh.  The lock is held for the copies, never for a call.  *)
(***************************************************************************)

FreshKEV(r) == kev[r].of # {} /\ intelClock - kev[r].got < IntelTTL

\* The catalogue is asked for: an answer that fails leaves the copy as it is.
EnsureKEV(r, p) ==
  /\ asker[r][p].at = "kev"
  /\ \/ FreshKEV(r) /\ Turn(r, p, Onward(asker[r][p], "epss", {})) /\ FeedsUp
     \/ ~FreshKEV(r) /\ Turn(r, p, Onward(asker[r][p], "epss", {})) /\ FeedDown
     \/ /\ ~FreshKEV(r) /\ FeedsUp
        /\ Turn(r, p, Onward(asker[r][p], "kev answer", {c \in Vulns : listed[c] # 0}))
  /\ UNCHANGED <<feedVars, cacheVars, edges, store, holdoutVars, asks>>

KeepKEV(r, p) ==
  /\ asker[r][p].at = "kev answer"
  /\ kev' = [kev EXCEPT ![r] = [of |-> asker[r][p].got, got |-> intelClock]]
  /\ Turn(r, p, Onward(asker[r][p], "epss", {}))
  /\ UNCHANGED <<feedVars, epss, epssAt, edges, store, holdoutVars, asks, feedsDown>>

NeedsEPSS(r, c) == epssAt[r][c] = 0 \/ intelClock - epssAt[r][c] >= IntelTTL

\* The scores not asked for lately are asked for, and each is marked as asked for,
\* whatever the answer.
EnsureEPSS(r, p) ==
  /\ asker[r][p].at = "epss"
  /\ LET need == {c \in asker[r][p].about : NeedsEPSS(r, c)}
     IN /\ epssAt' = [epssAt EXCEPT ![r] = [c \in Vulns |-> IF c \in need THEN intelClock ELSE @[c]]]
        /\ \/ /\ FeedsUp
              /\ epss' = [epss EXCEPT ![r] = [c \in Vulns |->
                            IF c \in need /\ scores[c] > 0 THEN scores[c] ELSE @[c]]]
           \/ need # {} /\ FeedDown /\ UNCHANGED epss
  /\ Turn(r, p, Onward(asker[r][p], "scored", {}))
  /\ UNCHANGED <<feedVars, kev, edges, store, holdoutVars, asks>>

IntelOf(r, c) == [kev |-> c \in kev[r].of, epss |-> epss[r][c]]

TraversalFromEPSS(e) == Lift[e]

EdgeProbability(in, fallback) ==
  IF in.kev THEN IF in.epss > KevFloor THEN in.epss ELSE KevFloor
  ELSE IF in.epss > 0 THEN TraversalFromEPSS(in.epss) ELSE fallback

Basis(in) == IF in.kev THEN "kev" ELSE IF in.epss > 0 THEN "epss" ELSE "severity"

---------------------------------------------------------------------------
(***************************************************************************)
(* The normalizer.                                                         *)
(***************************************************************************)

\* A scan of the vulnerability, of a severity, is handled.
HandleScan(r, c, severity) ==
  /\ asker[r]["normalizer"] = Idling /\ Ask
  /\ Turn(r, "normalizer", Asking("kev", {c}, {}, severity, {}, {}, 0))
  /\ UNCHANGED <<feedVars, cacheVars, edges, store, holdoutVars, feedsDown>>

\* An edge replaces the one that was there, its properties too.
LandedEdge(old, e) == e

EnrichThreatIntel(r) ==
  LET call == asker[r]["normalizer"]
  IN /\ call.at = "scored"
     /\ edges' = [c \in Vulns |->
          IF c \notin call.about THEN edges[c]
          ELSE LandedEdge(edges[c], [weight |-> EdgeProbability(IntelOf(r, c), call.severity),
                                     basis |-> Basis(IntelOf(r, c))])]
     /\ Turn(r, "normalizer", Idling)
     /\ UNCHANGED <<feedVars, cacheVars, store, holdoutVars, asks, feedsDown>>

---------------------------------------------------------------------------
(***************************************************************************)
(* The holdout.                                                            *)
(***************************************************************************)

Due(f) == intelClock >= f.sealedAt + HoldoutWindow
InGraph == {c \in Vulns : edges[c] # NoEdge}

\* The forecasts that are due.  A read of the database that fails gives none.
DueNow(due) ==
  \/ due = {f \in sealed : Due(f)} /\ FeedsUp
  \/ store = "pg" /\ due = {} /\ FeedDown

TheOne == CHOOSE r \in Engines : TRUE

\* A pass over the vulnerabilities of the graph.  The file is one replica's.
RunHoldout(r) ==
  /\ asker[r]["holdout"] = Idling /\ Ask
  /\ store = "file" => r = TheOne
  /\ InGraph # {}
  /\ \E due \in SUBSET sealed :
       /\ DueNow(due)
       /\ Turn(r, "holdout",
               Asking("kev", InGraph \cup {f.cve : f \in due}, {}, 0, due, InGraph, intelClock))
  /\ UNCHANGED <<feedVars, cacheVars, edges, store, holdoutVars>>

Verdict(f, in, at) ==
  [cve |-> f.cve, sealedAt |-> f.sealedAt, gradedAt |-> at,
   outcome |-> IF in.kev THEN "confirmed" ELSE "refuted"]

\* Fault: a forecast whose verdict was not filed is dropped all the same.
DroppedAnyhow(f, filed) == {f}

\* A failed file leaves the forecast for the next pass.
Dropped(f, filed) == IF filed THEN {f} ELSE {}

\* drop is by tenant and vulnerability.
Without(fs, gone) == {g \in fs : \A f \in gone : g.cve # f.cve}

\* A due forecast is graded against the catalogue as the replica has it.  The verdict may
\* not be filed, and the forecast it was filed for not dropped from the database.
Grade(r, f) ==
  LET call == asker[r]["holdout"]
  IN /\ call.at = "scored" /\ f \in call.due
     /\ \E filed, dropped \in BOOLEAN :
          /\ \/ filed /\ dropped /\ FeedsUp
             \/ FeedDown /\ ~(filed /\ dropped) /\ (~dropped => filed /\ store = "pg")
          /\ graded' = IF filed THEN graded \cup {Verdict(f, IntelOf(r, f.cve), call.now)} ELSE graded
          /\ sealed' = IF dropped THEN Without(sealed, Dropped(f, filed)) ELSE sealed
     /\ Turn(r, "holdout", Asking(call.at, call.about, call.got, call.severity, call.due \ {f}, call.open, call.now))
     /\ UNCHANGED <<feedVars, cacheVars, edges, store, disk, asks>>

\* A forecast that is open is never sealed again.
Resealed(fs, new) == fs \cup {f \in new : \A g \in fs : g.cve # f.cve}

\* Forecasts for what is not known to be exploited and has a score, of which a database
\* may miss some; the file is written after.
Seal(r) ==
  LET call == asker[r]["holdout"]
      new == {[cve |-> c, predicted |-> EdgeProbability(IntelOf(r, c), 0), sealedAt |-> call.now] :
                c \in {d \in call.open : ~IntelOf(r, d).kev /\ IntelOf(r, d).epss > 0}}
  IN /\ call.at = "scored" /\ call.due = {}
     /\ \/ sealed' = Resealed(sealed, new) /\ FeedsUp
        \/ store = "pg" /\ FeedDown /\ \E kept \in SUBSET new : sealed' = Resealed(sealed, kept)
     /\ Turn(r, "holdout", IF store = "file" THEN Onward(call, "flush", {}) ELSE Idling)
     /\ UNCHANGED <<feedVars, cacheVars, edges, store, disk, graded, asks>>

Flush(r) ==
  /\ asker[r]["holdout"].at = "flush"
  /\ \/ disk' = sealed /\ FeedsUp
     \/ UNCHANGED disk /\ FeedDown
  /\ Turn(r, "holdout", Idling)
  /\ UNCHANGED <<feedVars, cacheVars, edges, store, sealed, graded, asks>>

---------------------------------------------------------------------------
(***************************************************************************)
(* Restarts, and the world.                                                *)
(***************************************************************************)

RestartEngine(r) ==
  /\ FeedDown
  /\ kev' = [kev EXCEPT ![r] = [of |-> {}, got |-> 0]]
  /\ epss' = [epss EXCEPT ![r] = [c \in Vulns |-> 0]]
  /\ epssAt' = [epssAt EXCEPT ![r] = [c \in Vulns |-> 0]]
  /\ asker' = [asker EXCEPT ![r] = [p \in Callers |-> Idling]]
  /\ sealed' = IF store = "file" /\ r = TheOne THEN disk ELSE sealed
  /\ UNCHANGED <<feedVars, edges, store, disk, graded, asks>>

EnterKEV(c) ==
  /\ listed[c] = 0 /\ news < MaxNews
  /\ listed' = [listed EXCEPT ![c] = intelClock] /\ news' = news + 1
  /\ UNCHANGED <<intelClock, scores, cacheVars, asker, edges, store, holdoutVars, asks, feedsDown>>

Rescored(c, v) ==
  /\ scores[c] # v /\ news < MaxNews
  /\ scores' = [scores EXCEPT ![c] = v] /\ news' = news + 1
  /\ UNCHANGED <<intelClock, listed, cacheVars, asker, edges, store, holdoutVars, asks, feedsDown>>

IntelTick ==
  /\ intelClock < MaxIntelTime /\ intelClock' = intelClock + 1
  /\ UNCHANGED <<listed, scores, news, cacheVars, asker, edges, store, holdoutVars, asks, feedsDown>>

IntelNext ==
  \/ \E r \in Engines :
       \/ \E p \in Callers : EnsureKEV(r, p) \/ KeepKEV(r, p) \/ EnsureEPSS(r, p)
       \/ \E c \in Vulns, s \in Severities : HandleScan(r, c, s)
       \/ EnrichThreatIntel(r) \/ RunHoldout(r) \/ Seal(r) \/ Flush(r) \/ RestartEngine(r)
       \/ \E f \in asker[r]["holdout"].due : Grade(r, f)
  \/ \E c \in Vulns : EnterKEV(c) \/ \E v \in Levels : Rescored(c, v)
  \/ IntelTick

IntelSpec == IntelInit /\ [][IntelNext]_intelVars

---------------------------------------------------------------------------
(***************************************************************************)
(* Properties.                                                             *)
(***************************************************************************)

\* The forecasts that outlive the process.
KeptForecasts == IF store = "pg" THEN sealed ELSE disk

HasVerdict(f, vs) ==
  \E v \in vs : v.cve = f.cve /\ v.sealedAt = f.sealedAt /\ v.gradedAt >= f.sealedAt + HoldoutWindow

\* A pass has yet to grade a forecast of the vulnerability that another pass has graded.
Overtaken(c) ==
  store = "pg" /\ \E r \in Engines : \E g \in asker[r]["holdout"].due : g.cve = c /\ g \notin sealed

\* A forecast that is kept leaves only with its verdict: not when the verdict could not
\* be filed, not for a later forecast of the same vulnerability, not with a restart, and
\* whichever replica grades it (Run, seal, drop, flush).  But for one case: drop is by
\* vulnerability, so that of two passes that grade the same forecast of the database, the
\* slower one also takes the new forecast that the faster one sealed.
SealsEndInVerdicts ==
  [][\A f \in KeptForecasts \ KeptForecasts' : HasVerdict(f, graded') \/ Overtaken(f.cve)]_intelVars

\* What the package says a verdict is: a forecast "is graded only after a fixed window,
\* against an event that had not happened when the forecast was made: did this CVE enter
\* KEV during the window?"  A vulnerability in the catalogue for longer than a copy of it
\* is fresh is not filed as one that never entered.
GradesAreTheOutcome ==
  \A v \in graded : v.outcome = "refuted" =>
    ~(listed[v.cve] # 0 /\ listed[v.cve] + IntelTTL < v.gradedAt)
=============================================================================
