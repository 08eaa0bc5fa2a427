------------------------------ MODULE PortSets ------------------------------
(***************************************************************************)
(* Sets of ports as the collectors keep them: for each transport a list of *)
(* ranges, sorted and merged, and the operations on such lists.  The       *)
(* behaviours are runs of FirstMatch: a firewall's rules are applied in    *)
(* order, each to the ports that none before it decided.                   *)
(***************************************************************************)
EXTENDS Integers, Sequences, FiniteSetsExt

CONSTANTS
  MaxPort,        \* 65535 in the code
  FirewallRules,  \* rules: [protocol, from, to, allow], a bound being Missing or a port
  MaxRules        \* bound on the rules of a firewall

\* A bound that a rule leaves out, or writes as -1.
Missing == -1

ASSUME PortsAssumption ==
  /\ MaxPort \in Nat
  /\ FirewallRules \subseteq [protocol : STRING, from : {Missing} \cup 0..MaxPort,
                              to : {Missing} \cup 0..MaxPort, allow : BOOLEAN]

VARIABLES
  offered,    \* the ports the firewall is asked about
  undecided,  \* those that no rule has decided yet
  allowed,    \* those that a rule let through
  rules       \* the rules applied so far

portVars == <<offered, undecided, allowed, rules>>

Transports == {"tcp", "udp", "icmp", "icmpv6"}

Span(lo, hi) == [from |-> lo, to |-> hi]
NoPorts == [t \in Transports |-> << >>]

---------------------------------------------------------------------------
(***************************************************************************)
(* The operations.                                                         *)
(***************************************************************************)

\* ICMP has no ports: a set holds it as the range 0-0.
AllPorts == [t \in Transports |-> <<Span(0, IF t \in {"tcp", "udp"} THEN MaxPort ELSE 0)>>]

\* Bounds the wrong way round are swapped; all traffic has every port, and
\* a protocol that is none of the transports has none.
ProtoPorts(protocol, lo, hi) ==
  CASE protocol = "all" -> AllPorts
    [] protocol \in {"icmp", "icmpv6"} -> [NoPorts EXCEPT ![protocol] = <<Span(0, 0)>>]
    [] protocol \in {"tcp", "udp"} ->
         [NoPorts EXCEPT ![protocol] = <<IF lo > hi THEN Span(hi, lo) ELSE Span(lo, hi)>>]
    [] OTHER -> NoPorts

RulePorts(r) ==
  ProtoPorts(r.protocol,
             IF r.from = Missing THEN 0 ELSE r.from,
             IF r.to = Missing THEN MaxPort ELSE r.to)

\* The ranges by where they begin; sort.Slice leaves the order of ties open.
Sorted(rs) ==
  LET before(i) == {j \in DOMAIN rs : rs[j].from < rs[i].from \/ (rs[j].from = rs[i].from /\ j < i)}
  IN [n \in DOMAIN rs |-> rs[CHOOSE i \in DOMAIN rs : Cardinality(before(i)) = n - 1]]

\* Fault: ranges that touch are taken to overlap by one more port.
GrownTooFar(out, r) ==
  IF out # << >> /\ r.from <= out[Len(out)].to + 2
  THEN [out EXCEPT ![Len(out)] = Span(@.from, Max({@.to, r.to}))]
  ELSE Append(out, r)

\* The next range is part of the last, makes it longer, or lies past it.
Grown(out, r) ==
  IF out # << >> /\ r.from <= out[Len(out)].to + 1
  THEN [out EXCEPT ![Len(out)] = Span(@.from, Max({@.to, r.to}))]
  ELSE Append(out, r)

\* Sorts ranges and joins the ones that overlap or touch.
Merge(rs) ==
  LET merged[n \in 0..Len(rs)] == IF n = 0 THEN << >> ELSE Grown(merged[n - 1], Sorted(rs)[n])
  IN merged[Len(rs)]

\* One list after the other.
Flat(lists) ==
  LET upTo[n \in 0..Len(lists)] == IF n = 0 THEN << >> ELSE upTo[n - 1] \o lists[n]
  IN upTo[Len(lists)]

Union(p, q) == [t \in Transports |-> Merge(Merge(p[t]) \o q[t])]

\* What two ranges have in common.
Common(x, y) ==
  LET lo == Max({x.from, y.from})
      hi == Min({x.to, y.to})
  IN IF lo <= hi THEN <<Span(lo, hi)>> ELSE << >>

\* What each range of the first has in common with each of the second.
Intersect(p, q) ==
  [t \in Transports |->
    Merge(Flat([m \in DOMAIN p[t] |-> Flat([n \in DOMAIN q[t] |-> Common(p[t][m], q[t][n])])]))]

\* What is left of one range without another.
Rest(x, y) ==
  IF y.to < x.from \/ y.from > x.to THEN <<x>>
  ELSE (IF x.from < y.from THEN <<Span(x.from, y.from - 1)>> ELSE << >>)
       \o (IF x.to > y.to THEN <<Span(y.to + 1, x.to)>> ELSE << >>)

\* Each range of the second is cut out of what is left of the first.
Cut(xs, ys) ==
  LET left[n \in 0..Len(ys)] ==
        IF n = 0 THEN xs ELSE Flat([m \in DOMAIN left[n - 1] |-> Rest(left[n - 1][m], ys[n])])
  IN left[Len(ys)]

Minus(p, q) == [t \in Transports |-> Cut(p[t], q[t])]

IsEmpty(p) == \A t \in Transports : p[t] = << >>

\* A service an attacker can talk to.
Transport(p) == p["tcp"] # << >> \/ p["udp"] # << >>

---------------------------------------------------------------------------
(***************************************************************************)
(* A firewall that decides by the first match.                             *)
(***************************************************************************)

\* What is offered are the ports of one or two rules, as a security group
\* has them.
PortsInit ==
  /\ \E r, q \in FirewallRules : offered = Union(RulePorts(r), RulePorts(q))
  /\ undecided = offered
  /\ allowed = NoPorts
  /\ rules = << >>

\* The next rule decides what it covers of the undecided.
ApplyRule(r) ==
  /\ Len(rules) < MaxRules
  /\ rules' = Append(rules, r)
  /\ LET hit == Intersect(undecided, RulePorts(r))
     IN IF IsEmpty(hit)
        THEN UNCHANGED <<undecided, allowed>>
        ELSE /\ allowed' = IF r.allow THEN Union(allowed, hit) ELSE allowed
             /\ undecided' = Minus(undecided, hit)
  /\ UNCHANGED offered

PortsNext == \E r \in FirewallRules : ApplyRule(r)

PortsSpec == PortsInit /\ [][PortsNext]_portVars

---------------------------------------------------------------------------
(***************************************************************************)
(* Properties.                                                             *)
(***************************************************************************)

\* The ports a list of ranges stands for, transport by transport.
PortsIn(p) ==
  {pk \in Transports \X (0..MaxPort) : \E i \in DOMAIN p[pk[1]] : p[pk[1]][i].from <= pk[2] /\ pk[2] <= p[pk[1]][i].to}

\* A packet of the transport to the port is one that the rule is about.
Covers(r, t, n) ==
  \/ r.protocol = "all"
  \/ /\ r.protocol = t
     /\ t \in {"tcp", "udp"} =>
          LET lo == IF r.from = Missing THEN 0 ELSE r.from
              hi == IF r.to = Missing THEN MaxPort ELSE r.to
          IN (lo <= n /\ n <= hi) \/ (hi <= n /\ n <= lo)

\* Ranges that are sorted, hold something, and have a gap between them.
Tidy(p) ==
  \A t \in Transports :
    /\ \A i \in DOMAIN p[t] : p[t][i].from <= p[t][i].to
    /\ \A i \in DOMAIN p[t] \ {1} : p[t][i - 1].to + 1 < p[t][i].from

\* The first rule that is about a packet decides it, and one that no rule is
\* about is refused: however the ranges of the rules overlap, touch and cut
\* each other to pieces, FirstMatch lets through what the firewall would,
\* packet by packet.  What it lets through stays a tidy list, on which IsEmpty
\* and Transport look only at whether there is a range.
FirstRuleDecides ==
  /\ \A pk \in PortsIn(AllPorts) :
       LET about == {i \in DOMAIN rules : Covers(rules[i], pk[1], pk[2])}
       IN /\ pk \in PortsIn(allowed) <=>
               pk \in PortsIn(offered) /\ about # {} /\ rules[Min(about)].allow
          /\ pk \in PortsIn(undecided) <=> pk \in PortsIn(offered) /\ about = {}
  /\ Tidy(allowed)
  /\ Transport(allowed) <=> \E pk \in PortsIn(allowed) : pk[1] \in {"tcp", "udp"}
=============================================================================
