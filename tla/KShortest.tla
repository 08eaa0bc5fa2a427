----------------------------- MODULE KShortest -----------------------------
(***************************************************************************)
(* Yen's algorithm: the k likeliest loopless routes between two nodes, the *)
(* likeliest first.  Parallel edges collapse to the likeliest, so that a   *)
(* sequence of nodes names one route.                                      *)
(*                                                                         *)
(* Each round looks, from every node of the last route found, for the      *)
(* cheapest way on that no route found so far takes.  That search is one   *)
(* Dijkstra (PathSearch models it): here it returns any cheapest route.    *)
(***************************************************************************)
EXTENDS AttackGraph

CONSTANTS
  Networks,  \* the edge sets a search may be given
  Src, Dst,
  MaxK       \* bound on the routes asked for

ASSUME YenAssumption ==
  /\ Src \in Nodes /\ Dst \in Nodes
  /\ \A E \in Networks : E \subseteq Edge
  /\ MaxK \in Nat

VARIABLES
  network,    \* the edges
  asked,      \* how many routes are asked for
  ranked,     \* the routes found, likeliest first
  candidates, \* the routes that may come next
  spur,       \* the position on the last route to look from, 0 before a round
  ended

yenVars == <<network, asked, ranked, candidates, spur, ended>>

YenInit ==
  /\ network \in Networks
  /\ asked \in 1..MaxK
  /\ ranked = << >>
  /\ candidates = {}
  /\ spur = 0
  /\ ended = FALSE

\* The cheapest of a set of routes.
CheapestOf(R) ==
  LET cost == [r \in R |-> RouteCost(network, r)]
  IN {r \in R : \A q \in R : cost[r] <= cost[q]}

\* The first route is the cheapest there is.
First ==
  /\ ranked = << >> /\ ~ended
  /\ IF Routes(network, Src, Dst) = {}
     THEN ended' = TRUE /\ UNCHANGED <<ranked, spur>>
     ELSE /\ \E r \in CheapestOf(Routes(network, Src, Dst)) : ranked' = <<r>>
          /\ spur' = 1
          /\ ended' = (asked = 1)
  /\ UNCHANGED <<network, asked, candidates>>

LastRoute == ranked[Len(ranked)]
Root(r, i) == SubSeq(r, 1, i)

\* Fault: only the last route's own way on is barred.
BarredByLast(i) == {<<LastRoute[i], LastRoute[i + 1]>>}

\* The hops barred: the way on from this root of every route found.
Barred(i) ==
  {<<r[i], r[i + 1]>> : r \in {q \in Range(ranked) : Len(q) >= i /\ Root(q, i) = Root(LastRoute, i)}}

\* What is left of the graph past the root.
LeftAfter(i) ==
  {e \in network : /\ <<e.from, e.to>> \notin Barred(i)
                   /\ e.from \notin Range(Root(LastRoute, i - 1))
                   /\ e.to \notin Range(Root(LastRoute, i - 1))}

\* The root and a way on.
Joined(i, way) == Root(LastRoute, i - 1) \o way

\* From the next node of the last route, the cheapest way on is a candidate.
Spur ==
  /\ ranked # << >> /\ ~ended
  /\ spur < Len(LastRoute)
  /\ LET ways == Routes(LeftAfter(spur), LastRoute[spur], Dst)
     IN IF ways = {} THEN UNCHANGED candidates
        ELSE \E way \in CheapestOf(ways) :
               candidates' = candidates \cup ({Joined(spur, way)} \ Range(ranked))
  /\ spur' = spur + 1
  /\ UNCHANGED <<network, asked, ranked, ended>>

\* The candidate that comes next is a cheapest one.
Foremost == CheapestOf(candidates)

\* The round is over: the best candidate is the next route, if there is one.
Advance ==
  /\ ranked # << >> /\ ~ended
  /\ spur = Len(LastRoute)
  /\ IF candidates = {}
     THEN ended' = TRUE /\ UNCHANGED <<ranked, candidates, spur>>
     ELSE \E r \in Foremost :
            /\ ranked' = Append(ranked, r)
            /\ candidates' = candidates \ {r}
            /\ spur' = 1
            /\ ended' = (Len(ranked) + 1 = asked)
  /\ UNCHANGED <<network, asked>>

YenNext == First \/ Spur \/ Advance

YenSpec == YenInit /\ [][YenNext]_yenVars

---------------------------------------------------------------------------
(***************************************************************************)
(* Properties.                                                             *)
(***************************************************************************)

\* The routes come out each once and in order: none that is still to come,
\* or never comes, is likelier than one that came; and fewer routes than asked
\* for are all there are (kShortest).
LikeliestRoutesInOrder ==
  LET all  == Routes(network, Src, Dst)
      cost == [r \in all |-> RouteCost(network, r)]
  IN /\ Range(ranked) \subseteq all /\ IsInjective(ranked)
     /\ \A r \in all, i \in DOMAIN ranked :
          cost[ranked[i]] > cost[r] => \E n \in 1..(i - 1) : ranked[n] = r
     /\ ended => Len(ranked) = asked \/ Range(ranked) = all
=============================================================================
