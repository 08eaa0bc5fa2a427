---------------------------- MODULE PlanExposure ----------------------------
(***************************************************************************)
(* What the internet reaches once a Terraform plan is applied, as the      *)
(* merge gate's collector foretells it.                                    *)
(*                                                                         *)
(* An estate is a set of facts: the groups, rules, tables, routes, access  *)
(* lists, addresses and instances that an AWS account holds.  Some are a   *)
(* configuration's, the others were made elsewhere.  A plan takes the      *)
(* configuration's facts to other ones.  The collector reads the state     *)
(* before and the state after off the plan alone, or lays each over a read *)
(* of the account, judges it by cloudnet's rules, and lists what the plan  *)
(* opens of what it does not describe.                                     *)
(*                                                                         *)
(* Of the subnets made elsewhere the configuration may read some as data,   *)
(* which shows in both states of the plan.                                 *)
(*                                                                         *)
(* There is one VPC, one address family and one transport; ports are a set *)
(* (PortSets has the lists of ranges).  Rules are resources of their own:  *)
(* a group, a table or an access list that the configuration manages       *)
(* shows, beside them, whatever AWS had when the plan was made.            *)
(***************************************************************************)
EXTENDS Integers, FiniteSets, Functions

CONSTANTS
  Ports,
  Sources,     \* the subnets that the configuration reads as data
  Universes,   \* where to begin: [theirs, ours, movable], sets of facts
  MaxEdits     \* bound on what a plan adds and removes

VARIABLES
  account,   \* the facts the account holds
  managed,   \* those of them that the configuration manages
  planned,   \* the configuration's facts as the plan leaves them
  movable    \* the facts that are made and unmade

planVars == <<account, managed, planned, movable>>

---------------------------------------------------------------------------
(***************************************************************************)
(* Facts.                                                                  *)
(***************************************************************************)

Group(g) == [kind |-> "group", id |-> g]
Rule(g, src, ports) == [kind |-> "rule", group |-> g, src |-> src, ports |-> ports]
Table(t) == [kind |-> "table", id |-> t]
Route(t, via) == [kind |-> "route", table |-> t, via |-> via]
Subnet(s) == [kind |-> "subnet", id |-> s]
Assoc(s, t) == [kind |-> "assoc", subnet |-> s, table |-> t]
Main(t) == [kind |-> "main", table |-> t]
Acl(a) == [kind |-> "acl", id |-> a]
Entry(a, n, ports, allow) == [kind |-> "entry", acl |-> a, number |-> n, ports |-> ports, allow |-> allow]
AclAssoc(s, a) == [kind |-> "aclassoc", subnet |-> s, acl |-> a]
\* public: whether it is given an address; told: whether it says so itself,
\* or leaves that to its subnet.
Instance(i, s, gs, public, told) ==
  [kind |-> "instance", id |-> i, subnet |-> s, groups |-> gs, public |-> public, told |-> told]
Eip(i) == [kind |-> "eip", instance |-> i]

Of(E, kind) == {f \in E : f.kind = kind}

\* The source of a rule for 0.0.0.0/0, and the gateway that leads there.
Internet == "internet"
Igw == "igw"

\* The main table that AWS gives a VPC, which routes only inside it.
VpcTable == "main"

\* What AWS accepts: references lead somewhere, a subnet has one table and
\* one access list, a table one default route, an access list one entry of a
\* number, the VPC one main table, an id one instance.
WellFormed(E) ==
  /\ \A f \in Of(E, "rule") : Group(f.group) \in E /\ (f.src = Internet \/ Group(f.src) \in E)
  /\ \A f \in Of(E, "route") \cup Of(E, "main") : Table(f.table) \in E
  /\ \A f \in Of(E, "assoc") : Subnet(f.subnet) \in E /\ Table(f.table) \in E
  /\ \A f \in Of(E, "entry") : Acl(f.acl) \in E
  /\ \A f \in Of(E, "aclassoc") : Subnet(f.subnet) \in E /\ Acl(f.acl) \in E
  /\ \A f \in Of(E, "instance") : Subnet(f.subnet) \in E /\ \A g \in f.groups : Group(g) \in E
  /\ \A f \in Of(E, "eip") : \E i \in Of(E, "instance") : i.id = f.instance
  /\ \A f, h \in Of(E, "assoc") \cup Of(E, "aclassoc") : f.kind = h.kind /\ f.subnet = h.subnet => f = h
  /\ \A f, h \in Of(E, "route") : f.table = h.table => f = h
  /\ \A f, h \in Of(E, "entry") : f.acl = h.acl /\ f.number = h.number => f = h
  /\ \A f, h \in Of(E, "instance") : f.id = h.id => f = h
  /\ \A f, h \in Of(E, "main") : f = h

\* A fact is what its fields make it.
IsFact(f) ==
  \/ f.kind = "group" /\ f = Group(f.id)
  \/ f.kind = "rule" /\ f = Rule(f.group, f.src, f.ports)
  \/ f.kind = "table" /\ f = Table(f.id)
  \/ f.kind = "route" /\ f = Route(f.table, f.via)
  \/ f.kind = "subnet" /\ f = Subnet(f.id)
  \/ f.kind = "assoc" /\ f = Assoc(f.subnet, f.table)
  \/ f.kind = "main" /\ f = Main(f.table)
  \/ f.kind = "acl" /\ f = Acl(f.id)
  \/ f.kind = "entry" /\ f = Entry(f.acl, f.number, f.ports, f.allow) /\ f.allow \in BOOLEAN
  \/ f.kind = "aclassoc" /\ f = AclAssoc(f.subnet, f.acl)
  \/ f.kind = "instance" /\ f = Instance(f.id, f.subnet, f.groups, f.public, f.told) /\ f.public \in BOOLEAN /\ f.told \in BOOLEAN
  \/ f.kind = "eip" /\ f = Eip(f.instance)

\* AWS's ids tell a group from an access list, and the VPC's first table from
\* those made later.
ToldApart(F) ==
  /\ \A f \in F : IsFact(f)
  /\ \A f \in Of(F, "group"), h \in Of(F, "acl") : f.id # h.id
  /\ Table(VpcTable) \notin F

ASSUME PlanAssumption ==
  \A u \in Universes :
    /\ WellFormed(u.theirs \cup u.ours)
    /\ u.theirs \cap u.ours = {}
    /\ ToldApart(u.theirs \cup u.ours \cup u.movable)

\* The account once the plan is applied.
Applied == (account \ managed) \cup planned

---------------------------------------------------------------------------
(***************************************************************************)
(* The network of a state, in the shapes that cloudnet reads.              *)
(***************************************************************************)

\* A partial function given as its pairs.
Lookup(pairs) == [x \in {p[1] : p \in pairs} |-> (CHOOSE p \in pairs : p[1] = x)[2]]

\* The second, and what of the first it has no word on.
Over(f, g) == [x \in DOMAIN f \cup DOMAIN g |-> IF x \in DOMAIN g THEN g[x] ELSE f[x]]

\* The entries that stand when the new ones are set: one to a number.
SetEntries(old, new) ==
  new \cup {e \in old : \A n \in new : n.acl # e.acl \/ n.number # e.number}

\* What a rule, a route, and what belongs to an access list is part of.
Container(f) ==
  CASE f.kind = "rule"  -> Group(f.group)
    [] f.kind = "route" -> Table(f.table)
    [] OTHER            -> Acl(f.acl)

\* The facts of a kind that AWS shows in the state's containers of them.
Shown(E, kind) == {f \in Of(account, kind) : Container(f) \in E}

\* A state's rules, routes and access list entries: its own, and the ones
\* shown.  Entries the plan deletes are still shown, and are left out.
Rules(E) == Of(E, "rule") \cup Shown(E, "rule")
Routes(E) == Of(E, "route") \cup Shown(E, "route")
AclEntries(E, dropped) ==
  SetEntries({e \in Shown(E, "entry") : <<e.acl, e.number>> \notin dropped},
             Of(E, "entry"))

\* The subnets that data sources show, beside a state's own.
Looked == {s \in Sources : Subnet(s) \in account}

\* The subnets that a state knows.
Known(E) == {f.id : f \in Of(E, "subnet")} \cup Looked

\* A subnet that the configuration manages uses its own table or the main
\* one; of the others only an association tells, and not if the subnet is
\* known from a data source.
TableOf(E) ==
  LET own == {<<f.subnet, f.table>> : f \in {a \in Of(E, "assoc") : Subnet(a.subnet) \in E \/ a.subnet \notin Looked}}
      main == {<<s.id, f.table>> : s \in Of(E, "subnet"), f \in Of(E, "main")}
  IN Over(Lookup(main), Lookup(own))

\* An access list names its subnets; an association overrules it.
AclOf(E) ==
  LET pairs(F) == {<<f.subnet, f.acl>> : f \in F}
  IN Over(Lookup(pairs(Shown(E, "aclassoc"))), Lookup(pairs(Of(E, "aclassoc"))))

\* Whether a state tells if an instance has an address: one is bound to it,
\* the instance says so, AWS has said, or its subnet is known.
Addressed(E, i) == Eip(i.id) \in E \/ i.told \/ i \in account \/ i.subnet \in Known(E)

\* An instance has an address when the state binds one to it, when it is
\* given one, or when it had one as the plan was made.  One of which that is
\* not told is filtered by its groups alone, as if it had one.
Instances(E) ==
  {Instance(i.id, i.subnet, i.groups,
            ~Addressed(E, i) \/ i.public \/ Eip(i.id) \in E \/ (Eip(i.id) \in account /\ i \in account),
            Addressed(E, i)) :
     i \in Of(E, "instance")}

\* The access list entries that the plan deletes.
DroppedACLEntries ==
  {<<f.acl, f.number>> : f \in Of(managed, "entry")} \ {<<f.acl, f.number>> : f \in Of(planned, "entry")}

\* The configuration's network in a state of the plan.
Network(E, dropped) ==
  [described |-> {f.id : f \in Of(E, "group") \cup Of(E, "acl")},
   rules     |-> Rules(E),
   routes    |-> Routes(E),
   tableOf   |-> TableOf(E),
   acls      |-> {f.id : f \in Of(E, "acl")} \cup {f.acl : f \in Of(E, "entry")},
   entries   |-> AclEntries(E, dropped),
   aclOf     |-> AclOf(E),
   instances |-> Instances(E)]

Before == Network(managed, {})
Planned == Network(planned, DroppedACLEntries)

\* A read of the account holds all of it, describes nothing of its own, and
\* tells of each subnet which table it uses.
LiveRead ==
  [described |-> {},
   rules     |-> Rules(account),
   routes    |-> Routes(account),
   tableOf   |-> Over([s \in {f.id : f \in Of(account, "subnet")} |-> VpcTable], TableOf(account)),
   acls      |-> Network(account, {}).acls,
   entries   |-> AclEntries(account, {}),
   aclOf     |-> AclOf(account),
   instances |-> Instances(account)]

\* A state of the plan laid over the account: rules and routes add to what
\* is there, entries replace those of their number, and deleted ones go.
Overlay(plan, dropped) ==
  LET whole == {e \in LiveRead.entries : e.acl \in plan.described}
      gone == {e \in LiveRead.entries : <<e.acl, e.number>> \in dropped}
  IN [described |-> plan.described,
      rules     |-> LiveRead.rules \cup plan.rules,
      routes    |-> LiveRead.routes \cup plan.routes,
      tableOf   |-> Over(LiveRead.tableOf, plan.tableOf),
      acls      |-> LiveRead.acls \cup plan.acls,
      entries   |-> SetEntries(LiveRead.entries \ (whole \cup gone), plan.entries),
      aclOf     |-> Over(LiveRead.aclOf, plan.aclOf),
      instances |-> plan.instances \cup {i \in LiveRead.instances : \A p \in plan.instances : p.id # i.id}]

---------------------------------------------------------------------------
(***************************************************************************)
(* Cloudnet's verdict on a network.                                        *)
(***************************************************************************)

\* The lowest entry about a port decides; without one it is refused.
FirstMatch(open, entries) ==
  {p \in open : \E e \in entries : /\ p \in e.ports /\ e.allow
                                   /\ \A o \in entries : p \in o.ports => e.number <= o.number}

EntriesOf(net, a) == {e \in net.entries : e.acl = a}
RoutedTables(net) == {f.table : f \in {r \in net.routes : r.via = Igw}}

\* What a group lets in from a source.
Admitted(net, g, src) == UNION {r.ports : r \in {x \in net.rules : x.group = g /\ x.src = src}}

\* What the internet reaches of an instance.  A subnet whose table is named
\* is routed by what is known of the table; one whose access list is not
\* known is taken to have none.
InternetExposure(net, i) ==
  LET open == UNION {Admitted(net, g, Internet) : g \in i.groups}
      s == i.subnet
  IN IF ~i.public \/ (s \in DOMAIN net.tableOf /\ net.tableOf[s] \notin RoutedTables(net)) THEN {}
     ELSE IF s \in DOMAIN net.aclOf /\ net.aclOf[s] \in net.acls THEN FirstMatch(open, EntriesOf(net, net.aclOf[s]))
     ELSE open

\* Which instance the groups let into which.
Lateral(net) ==
  {<<pair[1].id, pair[2].id>> : pair \in
     {xy \in net.instances \X net.instances :
        /\ xy[1].id # xy[2].id
        /\ \E g \in xy[2].groups, h \in xy[1].groups : Admitted(net, g, h) # {}}}

---------------------------------------------------------------------------
(***************************************************************************)
(* What the plan reaches and does not describe.                            *)
(***************************************************************************)

\* What a network decides an instance's exposure from.
ExposureInputs(net, i) ==
  [subnet |-> i.subnet,
   groups |-> {<<g, {r \in net.rules : r.group = g}>> : g \in i.groups},
   routes |-> IF i.subnet \in DOMAIN net.tableOf THEN {r \in net.routes : r.table = net.tableOf[i.subnet]} ELSE {},
   acl    |-> IF i.subnet \in DOMAIN net.aclOf THEN EntriesOf(net, net.aclOf[i.subnet]) ELSE {},
   public |-> i.public,
   told   |-> i.told]

\* The instances whose exposure the plan leaves as it was.
UnchangedExposure(was, now) ==
  {i.id : i \in {x \in now.instances :
     \E o \in was.instances : o.id = x.id /\ ExposureInputs(was, o) = ExposureInputs(now, x)}}

RoutedSubnets(net) == {s \in DOMAIN net.tableOf : net.tableOf[s] \in RoutedTables(net)}

\* The groups that come to let in more, and the groups that they let in.
OpenedGroups(was, now) ==
  LET groups == {r.group : r \in now.rules}
      more(g, src) == Admitted(now, g, src) \ Admitted(was, g, src) # {}
  IN {g \in groups : more(g, Internet)}
     \cup UNION {{pair[1], pair[2].src} : pair \in {gr \in groups \X now.rules :
            gr[2].src # Internet /\ more(gr[1], gr[2].src)}}

\* The tables that come to lead to the internet, and the subnets.
OpenedRoutes(was, now) ==
  (RoutedTables(now) \ RoutedTables(was)) \cup (RoutedSubnets(now) \ RoutedSubnets(was))

\* The access lists that come to admit more, and the subnets given others.
OpenedLists(was, now) ==
  LET admits(net, a) == FirstMatch(Ports, EntriesOf(net, a))
      moved(s) == s \notin DOMAIN was.aclOf \/ was.aclOf[s] # now.aclOf[s]
  IN {a \in now.acls : admits(now, a) \ admits(was, a) # {}}
     \cup {s \in DOMAIN now.aclOf : moved(s) /\ (now.aclOf[s] \in now.acls => admits(now, now.aclOf[s]) # {})}

\* The groups that a plan does not describe of the instances that it changes.
UsedGroups(was, now) ==
  LET users == {i \in now.instances : i.id \notin UnchangedExposure(was, now)}
  IN (UNION {i.groups : i \in users}) \ now.described

\* Fault: an access list that comes to admit more is not listed.
OpenedBarLists(was, now) ==
  OpenedGroups(was, now) \cup OpenedRoutes(was, now) \cup UsedGroups(was, now)

\* What the plan opens, or uses, of what the account has and the plan did
\* not create: the ids that the notes name.
Opened(was, now) ==
  OpenedGroups(was, now) \cup OpenedRoutes(was, now) \cup OpenedLists(was, now) \cup UsedGroups(was, now)

\* An id of something that AWS has already: not a placeholder.
Exists(id) == \E f \in account : f.kind \in {"group", "table", "acl", "subnet"} /\ f.id = id

\* With a read of the account, what it holds is not listed.
Outside(read) ==
  {id \in Opened(Before, Planned) : Exists(id) /\ ~read}

---------------------------------------------------------------------------
(***************************************************************************)
(* The judgement, and the life of a configuration.                         *)
(***************************************************************************)

\* The state after the plan, as it is judged.
After(read) == IF read THEN Overlay(Planned, DroppedACLEntries) ELSE Planned

\* The instances reported as exposed.  When the graph of the estate is at
\* hand, one whose exposure the plan leaves alone is as the estate says.
Reported(read, estate) ==
  LET settled == UnchangedExposure(Before, Planned)
  IN {i.id : i \in {x \in After(read).instances :
        InternetExposure(After(read), x) # {} /\ (estate => x.id \notin settled)}}

PlanInit ==
  \E u \in Universes :
    /\ account = u.theirs \cup u.ours
    /\ managed = u.ours
    /\ planned = u.ours
    /\ movable = u.movable

Toggle(S, f) == IF f \in S THEN S \ {f} ELSE S \cup {f}

\* Something outside the configuration changes the account.  While a plan is
\* pending that is left out: the judgement is of the account it was made in.
Elsewhere(f) ==
  /\ planned = managed
  /\ f \notin managed
  /\ account' = Toggle(account, f)
  /\ WellFormed(account')
  /\ UNCHANGED <<managed, planned, movable>>

\* The configuration is edited.
Edit(f) ==
  /\ f \notin account \ managed
  /\ planned' = Toggle(planned, f)
  /\ Cardinality(planned' \ managed) + Cardinality(managed \ planned') <= MaxEdits
  /\ WellFormed((account \ managed) \cup planned')
  /\ UNCHANGED <<account, managed, movable>>

\* The plan is applied.
Apply ==
  /\ planned # managed
  /\ account' = Applied
  /\ managed' = planned
  /\ UNCHANGED <<planned, movable>>

PlanNext == (\E f \in movable : Elsewhere(f) \/ Edit(f)) \/ Apply

PlanSpec == PlanInit /\ [][PlanNext]_planVars

---------------------------------------------------------------------------
(***************************************************************************)
(* Properties.                                                             *)
(***************************************************************************)

\* What AWS does with a packet from the internet to a port of an instance: a
\* rule lets it in, an address leads to it, the subnet's table or else the
\* main one has a route, and the access list's first entry about it allows
\* it.  A subnet without one has the default list, which allows everything.
Reaches(E, i, p) ==
  /\ \E r \in Of(E, "rule") : r.group \in i.groups /\ r.src = Internet /\ p \in r.ports
  /\ i.public \/ Eip(i.id) \in E
  /\ \E r \in Of(E, "route") :
       /\ r.via = Igw
       /\ \/ Assoc(i.subnet, r.table) \in E
          \/ Main(r.table) \in E /\ \A f \in Of(E, "assoc") : f.subnet # i.subnet
  /\ \A f \in Of(E, "aclassoc") : f.subnet = i.subnet =>
       \E e \in Of(E, "entry") :
         /\ e.acl = f.acl /\ p \in e.ports /\ e.allow
         /\ \A o \in Of(E, "entry") : o.acl = f.acl /\ p \in o.ports => e.number <= o.number

ReachedIn(E, i) == \E p \in Ports : Reaches(E, i, p)

\* The plan has the internet reach an instance that it did not reach.
Opens(i) ==
  /\ ReachedIn(Applied, i)
  /\ ~\E x \in Of(account, "instance") : x.id = i.id /\ ReachedIn(account, x)

\* The table that a subnet uses.
TableIn(E, s) ==
  LET own == {f \in Of(E, "assoc") : f.subnet = s}
  IN {f.table : f \in IF own = {} THEN Of(E, "main") ELSE own}

\* The plan changes which table or list a subnet uses in a way that is not
\* read: it takes an association away; it changes the main table beneath a
\* subnet it does not manage; it manages the subnet and the main table, and
\* an association made elsewhere has the subnet use another; or it makes an
\* association of a subnet that it reads as data.
Misrouted(s) ==
  \/ \E f \in managed \ planned : f.kind \in {"assoc", "aclassoc"} /\ f.subnet = s
  \/ Subnet(s) \notin planned /\ Of(planned, "main") # Of(managed, "main")
  \/ /\ Subnet(s) \in planned /\ Of(planned, "main") # {}
     /\ \E f \in Of(account \ managed, "assoc") : f.subnet = s
  \/ /\ s \in Looked /\ Subnet(s) \notin planned
     /\ \E f \in Of(planned \ managed, "assoc") : f.subnet = s

\* The plan binds an address to an instance that it does not describe.
BoundElsewhere(i) == Eip(i.id) \in planned /\ i \notin planned

\* The plan holds the subnet's table or list in part: the route that leads
\* to the internet, or the entries that let in, are others'.
HeldInPart(s) ==
  \/ \E t \in TableIn(Applied, s) : Route(t, Igw) \notin Planned.routes
  \/ \E f \in Of(Applied, "aclassoc") : f.subnet = s /\ Acl(f.acl) \notin planned

\* No plan opens an instance to the internet unnoticed: it is reported as
\* exposed, or something that the plan reaches and does not describe is
\* listed.  Whatever is the configuration's and whatever is not, and whether
\* the estate or the account is at hand; except where the collector does not
\* read the change at all, where the plan alone is read and holds a table
\* or list in part, and where a read of the account meets a verdict left to
\* the estate (LaidOverIsJudgedWhole).
OpeningsAreSeenOrListed ==
  \A read, estate \in BOOLEAN : \A i \in Of(Applied, "instance") :
    Opens(i) =>
      \/ i.id \in Reported(read, estate)
      \/ Outside(read) # {}
      \/ Misrouted(i.subnet) \/ BoundElsewhere(i)
      \/ ~read /\ HeldInPart(i.subnet)
      \/ read /\ estate

\* A plan laid over the account shows the account as it will be.  Nothing
\* that the internet, or another instance, will reach is missing; and if the
\* plan only adds, nothing is there that it will not reach, outside subnets
\* yet to be made, whose routing the plan may leave open, and instances of
\* which the plan does not tell whether they get an address.
OverlayShowsTheEstate ==
  LET after == After(TRUE) IN
  /\ \A i \in Of(Applied, "instance") : \A p \in Ports :
       Reaches(Applied, i, p) /\ ~Misrouted(i.subnet) /\ ~BoundElsewhere(i) =>
         \E x \in after.instances : x.id = i.id /\ p \in InternetExposure(after, x)
  /\ Lateral(Network(Applied, {})) \subseteq Lateral(after)
  /\ managed \subseteq planned =>
       \A x \in after.instances : \A p \in InternetExposure(after, x) :
         \/ Subnet(x.subnet) \notin account \/ Misrouted(x.subnet) \/ ~x.told
         \/ \E i \in Of(Applied, "instance") : i.id = x.id /\ Reaches(Applied, i, p)

\* "Given the account's feeds as a live read fetched them, each state of the
\* plan is laid over them and judged whole": an instance that the plan opens
\* and the overlay shows open is reported.
LaidOverIsJudgedWhole ==
  \A i \in Of(Applied, "instance") :
    Opens(i) /\ i.id \in Reported(TRUE, FALSE) => i.id \in Reported(TRUE, TRUE)

\* "Associations of subnets the configuration does not manage still say how
\* they route": each association of the configuration tells its subnet's
\* table.
AssociationsSayHowTheyRoute ==
  \A f \in Of(planned, "assoc") : f.subnet \in DOMAIN Planned.tableOf /\ Planned.tableOf[f.subnet] = f.table

\* Every opening of a plan is accounted for, whichever of the two views decides
\* (terraform.Parse, overlay).
OpeningsAreAccountedFor == OpeningsAreSeenOrListed /\ OverlayShowsTheEstate
=============================================================================
