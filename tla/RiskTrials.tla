----------------------------- MODULE RiskTrials -----------------------------
(***************************************************************************)
(* The risk simulation: trials that realize every edge or not, and ask     *)
(* which crown jewels the attacker then reaches.  What decides an edge in  *)
(* a trial is a draw keyed by the edge, or by the cause it shares with     *)
(* others, so that two simulations of graphs with an edge in common give   *)
(* it the same fate.                                                       *)
(*                                                                         *)
(* Three simulations run here: of a graph; of the same graph against a     *)
(* more capable attacker, in the working set of the first, as one attacker *)
(* profile follows another; and of the graph with some edges cut, in a     *)
(* working set of its own.  A hash is any function, and a probability one  *)
(* of a few levels.                                                        *)
(***************************************************************************)
EXTENDS AttackGraph

CONSTANTS
  DrawKeys,  \* what an edge's fate is drawn by: 1, 2, ...
  Levels,    \* a draw is 0..Levels-1, and crosses an edge whose level exceeds it
  Trials,    \* how many trials a simulation has
  Stamps,    \* how many generations a stamp can tell apart (2^32 in the code)
  Worlds     \* the graphs simulated: links, cut, seeds, jewels, held

Link == [from : Nodes, to : Nodes, key : DrawKeys, level : 1..Levels]

World == [links : SUBSET Link, cut : SUBSET Link, seeds : SUBSET Nodes, jewels : SUBSET Nodes,
          held : SUBSET Nodes]

ASSUME RiskAssumption ==
  /\ DrawKeys \subseteq Nat
  /\ Levels \in Nat \ {0} /\ Trials \in Nat \ {0}
  /\ Stamps \in Nat \ {0, 1}
  /\ Worlds \subseteq {w \in World : w.cut \subseteq w.links /\ w.held \subseteq w.seeds}

VARIABLES
  world,     \* the graph
  draws,     \* trial -> key -> what the hash says
  sim,       \* the simulation that runs
  trial,     \* its trial, 0 before the first
  gen,       \* the stamp of this trial
  visited,   \* node -> the stamp it was reached with
  hit,       \* node -> the stamp with which an edge reached it
  stack,     \* the reached nodes whose edges are left to cross
  outcome    \* simulation -> trial -> the jewels compromised

riskVars == <<world, draws, sim, trial, gen, visited, hit, stack, outcome>>

Sims == <<"whole", "capable", "cut">>
Unstamped == [n \in Nodes |-> 0]

RiskInit ==
  /\ world \in Worlds
  /\ draws \in [1..Trials -> [DrawKeys -> 0..(Levels - 1)]]
  /\ sim = 1
  /\ trial = 0
  /\ gen = 0
  /\ visited = Unstamped
  /\ hit = Unstamped
  /\ stack = {}
  /\ outcome = [s \in Range(Sims) |-> << >>]

\* The links a simulation has.
LinksOf(s) == IF s = "cut" THEN world.links \ world.cut ELSE world.links

\* A more capable attacker crosses a link no less often.
LevelFor(s, e) == IF s = "capable" THEN Min({e.level + 1, Levels}) ELSE e.level

\* Fault: the draws come off one stream, in the order of the links.
DrawInOrder(s, t, e) ==
  LET before == {x \in LinksOf(s) : x.key < e.key}
  IN draws[t][1 + (Cardinality(before) % Cardinality(DrawKeys))]

\* The draw that decides the link.
DrawFor(s, t, e) == draws[t][e.key]

\* The link is crossed in the trial.
Crossed(s, t, e) == DrawFor(s, t, e) < LevelFor(s, e)

\* A jewel where an attack may start, but that is not held: only an edge
\* that leads to it compromises it.
ByEdgeOnly == (world.jewels \cap world.seeds) \ world.held

Sim == Sims[sim]

\* When the stamps run out, they are wiped.
Wiped(f, g) == IF g = 0 THEN Unstamped ELSE f

\* The stamp after this one; 0 is none.
NextStamp == (gen + 1) % Stamps

\* Another trial: an attack starts at every seed.
StartTrial ==
  /\ trial < Trials /\ stack = {} /\ sim <= Len(Sims)
  /\ trial = Len(outcome[Sim])
  /\ trial' = trial + 1
  /\ gen' = IF NextStamp = 0 THEN 1 ELSE NextStamp
  /\ visited' = [n \in Nodes |-> IF n \in world.seeds THEN gen' ELSE Wiped(visited, NextStamp)[n]]
  /\ hit' = Wiped(hit, NextStamp)
  /\ stack' = world.seeds
  /\ UNCHANGED <<world, draws, sim, outcome>>

\* The nodes crossed to from a node.
CrossedFrom(n) ==
  {e.to : e \in {x \in EdgesFrom(LinksOf(Sim), n) : x.to # n /\ Crossed(Sim, trial, x)}}

\* A node's links are crossed, those that the trial realizes.
Visit(n) ==
  LET to == CrossedFrom(n)
      new == {m \in to : visited[m] # gen}
  IN /\ n \in stack
     /\ stack' = (stack \ {n}) \cup new
     /\ visited' = [m \in Nodes |-> IF m \in to THEN gen ELSE visited[m]]
     /\ hit' = [m \in Nodes |-> IF m \in to \cap ByEdgeOnly THEN gen ELSE hit[m]]
     /\ UNCHANGED <<world, draws, sim, trial, gen, outcome>>

\* The trial compromised the jewel.
Reached(n) == IF n \in ByEdgeOnly THEN hit[n] = gen ELSE visited[n] = gen

\* The trial is over: which jewels it compromised is noted.
EndTrial ==
  /\ trial = Len(outcome[Sim]) + 1 /\ stack = {}
  /\ outcome' = [outcome EXCEPT ![Sim] = Append(@, {n \in world.jewels : Reached(n)})]
  /\ UNCHANGED <<world, draws, sim, trial, gen, visited, hit, stack>>

\* The next simulation; the one of the cut graph has a working set of its own.
NextSim ==
  /\ Len(outcome[Sim]) = Trials /\ sim < Len(Sims)
  /\ sim' = sim + 1
  /\ trial' = 0
  /\ IF Sims[sim + 1] = "cut"
     THEN gen' = 0 /\ visited' = Unstamped /\ hit' = Unstamped
     ELSE UNCHANGED <<gen, visited, hit>>
  /\ UNCHANGED <<world, draws, stack, outcome>>

RiskNext ==
  \/ StartTrial
  \/ \E n \in stack : Visit(n)
  \/ EndTrial
  \/ NextSim

RiskSpec == RiskInit /\ [][RiskNext]_riskVars

---------------------------------------------------------------------------
(***************************************************************************)
(* Properties.                                                             *)
(***************************************************************************)

Realized(s, t) == {e \in LinksOf(s) : Crossed(s, t, e)}

\* A jewel is compromised in a trial exactly when the links the trial realizes
\* lead to it, or the attacker holds it: being where an attack may start is
\* not enough (ontology.Node.HeldByAttacker, trials.reached).
TrialsTellTheTruth ==
  \A s \in DOMAIN outcome : \A t \in DOMAIN outcome[s] :
    LET links == Realized(s, t)
        from == ReachableFrom(links, world.seeds)
    IN outcome[s][t] =
         {n \in world.jewels :
            n \in world.held \/ \E e \in links : e.to = n /\ e.from \in from \ {n}}

\* The links on some way from a seed to a jewel.
OnAWay ==
  LET from == ReachableFrom(world.links, world.seeds)
  IN {e \in world.links :
        e.from \in from /\ ReachableFrom(world.links, {e.to}) \cap world.jewels # {}}

\* The same trial is compared link for link.  A cut graph reaches no jewel
\* that the whole one does not, and the same ones when no route crosses what
\* was cut, so that a fix is never blamed and an idle one never credited
\* (WhatIf); a more capable attacker reaches no less (mixtureCompromise).
TrialsCompareLikeWithLike ==
  /\ \A t \in DOMAIN outcome["cut"] :
       /\ outcome["cut"][t] \subseteq outcome["whole"][t]
       /\ world.cut \cap OnAWay = {} => outcome["cut"][t] = outcome["whole"][t]
  /\ \A t \in DOMAIN outcome["capable"] :
       outcome["whole"][t] \subseteq outcome["capable"][t]

\* The numbers a what-if shows: each trial is a world, and the same one on both sides
\* (SimulateRiskWith, WhatIfFromWith).
TrialsAreSound == TrialsTellTheTruth /\ TrialsCompareLikeWithLike
=============================================================================
