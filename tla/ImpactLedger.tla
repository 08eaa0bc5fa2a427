---------------------------- MODULE ImpactLedger ----------------------------
(***************************************************************************)
(* The merge gate's rule, applied to a sequence of analysis passes.  Each  *)
(* pass is compared with the one before it; a route that is new or         *)
(* likelier belongs to the commits on it that arrived in between, or, if   *)
(* none did, to those already on it.                                       *)
(*                                                                         *)
(* A pass is what the ledger sees of it: the commits stamped on the graph, *)
(* and its critical paths, one per route (entry and sensitive asset), each *)
(* with a score and the commits on it.  Scores are small numbers: only     *)
(* their order matters.                                                    *)
(***************************************************************************)
EXTENDS Integers, Functions

CONSTANTS
  Commits,
  PathKeys,
  MaxScore          \* scores are 1..MaxScore

ASSUME LedgerAssumption == MaxScore \in Nat \ {0}

VARIABLES
  watched,   \* a pass has been observed, so a commit can be seen arriving
  prev,      \* route -> its score, as of the last pass
  commits,   \* commit of the last pass -> what the ledger holds on it
  current,   \* the last pass: its commits, its paths
  standing       \* commit -> the routes there before it that never rose since

ledgerVars == <<watched, prev, commits, current, standing>>

Empty == [x \in {} |-> 0]

LedgerInit ==
  /\ watched = FALSE
  /\ prev = Empty
  /\ commits = Empty
  /\ current = [commits |-> {}, paths |-> Empty]
  /\ standing = Empty

---------------------------------------------------------------------------
(***************************************************************************)
(* One pass against the one before.                                        *)
(***************************************************************************)

\* The commits of a pass that the ledger had not seen.
Arrived(present) == present \ DOMAIN commits

\* Fault: only a route that was not there at all has appeared.
NewOnly(k, paths) == k \notin DOMAIN prev

\* The route is new since the last pass, or likelier.
Appeared(k, paths) == k \notin DOMAIN prev \/ paths[k].score > prev[k]

\* Its score before: none, when it was not there.
Before(k) == IF k \in DOMAIN prev THEN prev[k] ELSE 0

\* No commit on the route arrived with it.
NoNewcomers(k, paths, present) == paths[k].on \cap Arrived(present) = {}

\* Why the route counts against a commit on it.
Reason(c, k, paths, present) ==
  [change |-> IF c \notin Arrived(present) THEN "later"
              ELSE IF k \in DOMAIN prev THEN "worsened" ELSE "introduced",
   before |-> Before(k)]

\* The routes this pass puts down to a commit: those that appeared through
\* it, when it arrived with them or nobody did.  The first reason a route
\* counted is the one that stands.
Attributed(c, known, routes, paths, present) ==
  {k \in DOMAIN paths \ DOMAIN routes :
     /\ watched /\ known
     /\ c \in paths[k].on
     /\ Appeared(k, paths)
     /\ c \in Arrived(present) \/ NoNewcomers(k, paths, present)}

\* A commit that left the graph is forgotten.
KeptCommits(present) == present

\* A commit is known by its arrival, which a first pass cannot see.
Known(c) == IF c \in DOMAIN commits THEN commits[c].known ELSE watched

\* The scores of a pass, to compare the next one with.
Scores(paths) == [k \in DOMAIN paths |-> paths[k].score]

\* A pass is observed: its commits, and its paths.
ObservePass(present, paths) ==
  /\ commits' =
       [c \in KeptCommits(present) |->
          LET old == IF c \in DOMAIN commits THEN commits[c].routes ELSE Empty
              new == Attributed(c, Known(c), old, paths, present)
          IN [known |-> Known(c),
              routes |-> [k \in DOMAIN old \cup new |->
                            IF k \in new THEN Reason(c, k, paths, present) ELSE old[k]]]]
  /\ prev' = Scores(paths)
  /\ watched' = TRUE
  /\ current' = [commits |-> present, paths |-> paths]
  /\ standing' = [c \in present |->
                {k \in DOMAIN paths \cap
                         (IF c \in DOMAIN standing THEN standing[c] ELSE DOMAIN current.paths) :
                   paths[k].score <= current.paths[k].score}]

\* The engine is started anew: the ledger has seen nothing.
Restart ==
  /\ watched' = FALSE
  /\ prev' = Empty
  /\ commits' = Empty
  /\ current' = [commits |-> {}, paths |-> Empty]
  /\ standing' = Empty

\* A route the commit made likelier counts while it stays likelier than it
\* was; one it opened, for as long as it is open.
StillCounts(a, score) == a.before > 0 => score > a.before

\* Whether a path counts against a commit it runs through.
Judge(c, k) ==
  \/ c \notin DOMAIN commits
  \/ ~commits[c].known
  \/ /\ k \in DOMAIN commits[c].routes
     /\ StillCounts(commits[c].routes[k], current.paths[k].score)

\* The gate itself, given the estate before a change and after it: the routes
\* the change opened or made likelier, and, when the estate already carried
\* the commit, those through it.
Compare(before, after, recorded, k) ==
  \/ k \notin DOMAIN before
  \/ after[k].score > before[k].score
  \/ recorded

LedgerNext ==
  \/ \E present \in SUBSET Commits, ks \in SUBSET PathKeys :
       \E paths \in [ks -> [score : 1..MaxScore, on : SUBSET present]] :
         ObservePass(present, paths)
  \/ Restart

LedgerSpec == LedgerInit /\ [][LedgerNext]_ledgerVars

---------------------------------------------------------------------------
(***************************************************************************)
(* Properties.                                                             *)
(***************************************************************************)

\* "A route that was already there when a commit arrived is not the
\* commit's, even when it runs through an asset the commit touched": while it
\* stays and never rises from one pass to the next, it does not count.
PreexistingNeverCounts ==
  \A c \in DOMAIN commits : \A k \in standing[c] :
    commits[c].known /\ c \in current.paths[k].on => ~Judge(c, k)

\* "That is the gate's comparison, with the previous pass as the estate the
\* change found": for a commit that arrives, the ledger and the gate agree on
\* every route through it.
AgreesWithGate ==
  [][watched /\ watched' =>
       \A c \in DOMAIN commits' \ DOMAIN commits : \A k \in DOMAIN current'.paths :
         c \in current'.paths[k].on
           => (Judge(c, k)' <=> Compare(current.paths, current'.paths, FALSE, k))]_ledgerVars

\* "If none did, it counts against the commits already on it: conservative,
\* never silent".  A route that is new to the graph counts against every commit
\* that arrived with it, or else every commit on it, but for one it was put
\* down to before: a route that one had worsened, gone and back at its old
\* score, is silent.
NewRoutesCount ==
  [][watched /\ watched' =>
       \A k \in DOMAIN current'.paths \ DOMAIN current.paths :
         \A c \in current'.paths[k].on :
           c \notin DOMAIN commits \/ current'.paths[k].on \subseteq DOMAIN commits
             => Judge(c, k)' \/ (c \in DOMAIN commits /\ k \in DOMAIN commits[c].routes)]_ledgerVars

\* What a pull request is told of the routes through it: none that was there before it and
\* did not rise, what the gate would have said when it arrived, and no new route that
\* nobody answers for (ObservePass, Judge).
LedgerIsFair == []PreexistingNeverCounts /\ AgreesWithGate /\ NewRoutesCount
=============================================================================
