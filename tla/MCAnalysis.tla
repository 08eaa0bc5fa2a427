----------------------------- MODULE MCAnalysis -----------------------------
(***************************************************************************)
(* The algorithms of an analysis pass on small graphs, and what a replica  *)
(* remembers from one pass to the next: the graph it read last, and who    *)
(* the routes are put down to.  A behaviour runs one of them, and leaves   *)
(* the others' variables alone.                                            *)
(***************************************************************************)
EXTENDS PathSearch, MinHeap, KShortest, RiskTrials, SnapshotCache, ImpactLedger

CONSTANTS s, a, b, c, j

VARIABLE subject

algorithmVars == <<searchVars, heapVars, yenVars, riskVars>>
vars == <<algorithmVars, snapshotVars, ledgerVars, subject>>

Hop(m, n, x) == [from |-> m, to |-> n, cost |-> x]

\* A seed, a jewel, two nodes between them that lead to each other.
Hops == {Hop(s, a, 0), Hop(s, a, 1), Hop(s, b, 1), Hop(a, b, 0), Hop(b, a, 0), Hop(a, j, 1), Hop(b, j, 0)}

SmallSnapshots ==
  [edges : SUBSET Hops, seeds : {{s, a}}, jewels : {{j, a}}, held : {{}, {a}}]

\* Three nodes between two, with ties, a free loop, and a way that dies out.
SmallNetworks ==
  {{Hop(s, b, 1), Hop(b, j, 2)} \cup E :
     E \in SUBSET {Hop(s, a, 0), Hop(a, b, 1), Hop(b, a, 0), Hop(a, j, 1), Hop(b, c, 0), Hop(c, j, 1), Hop(s, j, 2)}}

Way(m, n, k0, x) == [from |-> m, to |-> n, key |-> k0, level |-> x]

\* Two links share a cause, and one leads back to the seed.
MoreLinks == {Way(s, j, 1, 2), Way(a, s, 3, 1)}
Core == {Way(s, a, 1, 1), Way(a, j, 2, 1)}

SmallWorlds ==
  UNION {[links : {Core \cup L}, cut : {{x} : x \in Core \cup L},
          seeds : {{s}}, jewels : {{s, j}}, held : {{}}] : L \in SUBSET MoreLinks}
  \cup [links : {Core \cup MoreLinks}, cut : {Core}, seeds : {{s}}, jewels : {{s, j}}, held : {{s}}]

NoWorld == [links |-> {}, cut |-> {}, seeds |-> {}, jewels |-> {}, held |-> {}]

SearchIdle ==
  /\ edges = {} /\ seeds = {} /\ jewels = {} /\ held = {} /\ queued = {}
  /\ worker = [w \in Workers |-> Resting]
  /\ scratch = [w \in Workers |-> Blank]
  /\ found = [n \in {} |-> {}]
  /\ report = {}

YenIdle == network = {} /\ asked = 1 /\ ranked = << >> /\ candidates = {} /\ spur = 0 /\ ended = TRUE

RiskIdle ==
  /\ world = NoWorld
  /\ draws = << >>
  /\ sim = Len(Sims)
  /\ trial = 0 /\ gen = 0
  /\ visited = Unstamped /\ hit = Unstamped
  /\ stack = {}
  /\ outcome = [x \in Range(Sims) |-> << >>]

Subjects == {"search", "heap", "yen", "risk", "cache", "ledger"}

AnalysisInit ==
  /\ subject \in Subjects
  /\ IF subject = "search" THEN SearchInit ELSE SearchIdle
  /\ HeapInit
  /\ IF subject = "yen" THEN YenInit ELSE YenIdle
  /\ IF subject = "risk" THEN RiskInit ELSE RiskIdle
  /\ Init /\ (subject # "cache" => lag = 0)
  /\ LedgerInit

AlgorithmNext ==
  /\ UNCHANGED <<snapshotVars, ledgerVars, subject>>
  /\ \/ /\ subject = "search" /\ SearchNext
        /\ UNCHANGED <<heapVars, yenVars, riskVars>>
     \/ /\ subject = "heap" /\ HeapNext
        /\ UNCHANGED <<searchVars, yenVars, riskVars>>
     \/ /\ subject = "yen" /\ YenNext
        /\ UNCHANGED <<searchVars, heapVars, riskVars>>
     \/ /\ subject = "risk" /\ RiskNext
        /\ UNCHANGED <<searchVars, heapVars, yenVars>>

PassesNext ==
  /\ UNCHANGED <<algorithmVars, subject>>
  /\ \/ subject = "cache" /\ Next /\ UNCHANGED ledgerVars
     \/ subject = "ledger" /\ LedgerNext /\ UNCHANGED snapshotVars

AnalysisNext == AlgorithmNext \/ PassesNext

\* An algorithm runs on; a replica's pass does, in whatever the others do.
AnalysisSpec ==
  /\ AnalysisInit
  /\ [][AnalysisNext]_vars
  /\ WF_vars(AlgorithmNext)
  /\ WF_vars(subject = "cache" /\ Step /\ UNCHANGED <<algorithmVars, ledgerVars, subject>>)
=============================================================================
