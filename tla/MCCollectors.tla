--------------------------- MODULE MCCollectors ----------------------------
(***************************************************************************)
(* Small instances of what the collectors conclude before anything is      *)
(* ingested.  A behaviour is of one of them, and leaves the others'        *)
(* variables alone.                                                        *)
(***************************************************************************)
EXTENDS PortSets, PlanExposure, EscalationAudit, KubeReach, ResourceExposure, TLC

CONSTANT Subjects   \* which of "ports", "plan", "identities", "kube" and "doors" are run

VARIABLE subject

vars == <<portVars, planVars, iamVars, auditingVars, kubeVars, exposureVars, subject>>

---------------------------------------------------------------------------
(***************************************************************************)
(* Rules whose ranges overlap, touch, nest, lie apart and are upside down; *)
(* one that leaves its lower bound out; all traffic, and protocols without *)
(* ports.                                                                  *)
(***************************************************************************)

SmallRules ==
  [protocol : {"tcp"}, from : {0, 3}, to : {1, 4}, allow : BOOLEAN]
  \cup [protocol : {"tcp"}, from : {Missing}, to : {2}, allow : BOOLEAN]
  \cup [protocol : {"all", "icmp", "other"}, from : {Missing}, to : {Missing}, allow : {TRUE}]

---------------------------------------------------------------------------
(***************************************************************************)
(* Estates around one subnet, its table, its group and its access list,    *)
(* with something of the network made elsewhere and something movable.     *)
(***************************************************************************)

Estate(theirs, ours, toMove) == [theirs |-> theirs, ours |-> ours, movable |-> toMove]

Box(public) == Instance("i", "s", {"g"}, public, TRUE)
Unsaid(s, public) == Instance("i", s, {"g"}, public, FALSE)
Door == {Group("g"), Rule("g", Internet, {1})}
Way == {Table("t"), Route("t", Igw), Assoc("s", "t")}
Lists == {Acl("a"), Entry("a", 1, {1}, FALSE), Entry("a", 2, {1, 2}, TRUE), Entry("a", 1, {1}, TRUE),
          AclAssoc("s", "a")}

SmallEstates ==
  \* Two tables, either of which may be the main one.
  {Estate({Subnet("s"), Table("u")} \cup Door, {},
          Way \cup {Assoc("s", "u"), Main("t"), Main("u"), Box(TRUE), Subnet("s")}),
  \* A subnet made later, and a default route that leads elsewhere.
   Estate({Table("u")} \cup Door, {},
          Way \cup {Subnet("s"), Route("t", "nat"), Main("t"), Box(TRUE)}),
  \* Groups that let each other in, and addresses.
   Estate({Subnet("s")} \cup Way, {},
          Door \cup {Box(FALSE), Box(TRUE), Eip("i"), Group("h"), Rule("g", "h", {1}), Instance("k", "s", {"h"}, FALSE, TRUE)}),
  \* An access list, on a subnet made elsewhere and on one of ours.
   Estate({Subnet("s")} \cup Door \cup Way, {}, Lists \cup {Box(TRUE)}),
   Estate({}, {Subnet("s")} \cup Door \cup Way, Lists \cup {Box(TRUE)}),
  \* A subnet that the configuration reads, and instances that leave their address to it.
   Estate({Subnet("d"), Table("u"), Assoc("d", "u")} \cup Door, {},
          {Assoc("d", "u"), Table("t"), Route("t", Igw), Assoc("d", "t"), Main("t"), Unsaid("d", TRUE)}),
   Estate({Subnet("s")} \cup Door \cup Way, {},
          {Subnet("s"), Assoc("s", "t"), Rule("g", Internet, {1}), Unsaid("s", TRUE), Unsaid("s", FALSE), Eip("i")})}

---------------------------------------------------------------------------
(***************************************************************************)
(* What policies may hold: grants over everything, over a prefix and over  *)
(* one resource, written with Action and with NotAction; denies that are   *)
(* conditional, optional, narrow, and all but something.                   *)
(***************************************************************************)

Actions == {"attach", "self", "pass", "run", "other"}
Ways == {[needs |-> {"attach"}, userOnly |-> FALSE], [needs |-> {"self"}, userOnly |-> TRUE],
         [needs |-> {"pass", "run"}, userOnly |-> FALSE]}

TwoRoles == {"r", "s"}
CoversOf(resource) == CASE resource = "literal" -> {"s"} [] resource \in {"wild", "not"} -> {"r"} [] OTHER -> TwoRoles

Statement(effect, as, resource) ==
  [effect |-> effect, actions |-> as, notAction |-> FALSE, resource |-> resource, covers |-> CoversOf(resource),
   condition |-> "none", document |-> "here"]
Conditioned(st, c) == [st EXCEPT !.condition = c]
ButFor(st) == [st EXCEPT !.notAction = TRUE]

AllowStatements ==
  {Statement("Allow", Actions, "star"), [Statement("Allow", Actions, "star") EXCEPT !.document = "awsOther"],
   [Statement("Allow", {"attach", "self", "pass"}, "star") EXCEPT !.document = "later"],
   Conditioned(Statement("Allow", {"attach", "self", "pass"}, "wild"), "key"),
   Statement("Allow", {"pass"}, "literal"), Statement("Allow", {"pass", "run"}, "star"),
   ButFor(Statement("Allow", {"attach", "self"}, "star")), Statement("Allow", {"self"}, "not")}

DenyStatements ==
  {Conditioned(Statement("Deny", Actions, "star"), "key"), Conditioned(Statement("Deny", {"pass"}, "star"), "ifexists"),
   Statement("Deny", {"attach", "self", "pass"}, "star"), Statement("Deny", {"attach"}, "literal"),
   Statement("Deny", {"attach"}, "wild"), Statement("Deny", {"attach"}, "not"), ButFor(Statement("Deny", {"run"}, "star"))}

Policies == AllowStatements \cup DenyStatements

Boundaries ==
  {Statement("Allow", Actions, "star"), Statement("Allow", {"attach", "run"}, "literal"),
   Statement("Allow", {"pass", "run"}, "star"), Conditioned(Statement("Deny", {"pass"}, "star"), "key"),
   Statement("Deny", {"run"}, "star")}

Trust(effect, who, condition, subjects) ==
  [effect |-> effect, who |-> who, condition |-> condition, webIdentity |-> who = "issuer" /\ (condition = "cond" => subjects # {}),
   subjects |-> subjects]
Trusts ==
  {Trust("Allow", "everyone", "none", {}), Trust("Allow", "everyone", "cond", {}), Trust("Deny", "everyone", "none", {}),
   Trust("Allow", "issuer", "none", {}), Trust("Allow", "issuer", "cond", {{"owner"}}),
   Trust("Allow", "issuer", "cond", {{"owner"}, {"owner", "any"}}), Trust("Allow", "peer", "none", {})}

OrgDenies == {{}, {"attach"}}

\* Trust is looked at without policies; the oracle is asked about the smaller accounts.
IdentitiesNext ==
  /\ EscalationAuditNext
  /\ trust' # {} => attached' = {} /\ bound' = "none" /\ asks' = 0
  /\ asks' > 0 => feed = "live" /\ Cardinality(attached) <= 2 /\ bound # "unresolved"

---------------------------------------------------------------------------
(***************************************************************************)
(* Clusters: "east" and the one without a name.                            *)
(***************************************************************************)

KPod(ns, mounts, flags) ==
  [kind |-> "pod", ns |-> ns, name |-> "web", account |-> mounts, settings |-> flags, labels |-> {"app"}, node |-> "n"]
KService(ns, type) == [kind |-> "service", ns |-> ns, name |-> "svc", type |-> type, selector |-> {"app"}]
KAccount(ns, name, irsa) == [kind |-> "serviceaccount", ns |-> ns, name |-> name, irsa |-> irsa]
KRole(kind, ns, name, ruleList) == [kind |-> kind, ns |-> ns, name |-> name, rules |-> ruleList]
KRule(verb, resource) == [verbs |-> {verb}, resources |-> {resource}]
KBinding(kind, ns, name, ref, subjects) == [kind |-> kind, ns |-> ns, name |-> name, ref |-> ref, subjects |-> subjects]
KRef(kind, name) == [kind |-> kind, name |-> name]
KSubject(kind, ns, name) == [kind |-> kind, ns |-> ns, name |-> name]
KAuth(mappings) == [kind |-> "aws-auth", mappings |-> mappings]
KMapping(arn, user, groups) == [arn |-> arn, user |-> user, groups |-> groups]

\* Namespaces "ci" and the one without a name hold objects of the same names.
SharedNames ==
  [objects |->
     ("east" :> {KPod("ci", "sa", {}), KPod("", "sa", {"NET_ADMIN"}), KAccount("ci", "sa", ""), KAccount("", "sa", ""),
        KRole("role", "ci", "deployer", <<KRule("get", "pods"), KRule("create", "pods")>>),
        KRole("role", "", "deployer", <<KRule("get", "pods")>>),
        KRole("clusterrole", "", "deployer", <<KRule("list", "*")>>),
        KBinding("rolebinding", "ci", "b", KRef("role", "deployer"), {KSubject("serviceaccount", "ci", "sa")}),
        KBinding("rolebinding", "", "b", KRef("role", "deployer"), {KSubject("serviceaccount", "", "sa")}),
        KBinding("rolebinding", "", "d", KRef("clusterrole", "deployer"), {KSubject("group", "ci", "system:serviceaccounts:")}),
        KBinding("clusterrolebinding", "", "e", KRef("clusterrole", "deployer"),
                 {KSubject("group", "", "system:authenticated"), KSubject("user", "", "ann")})}
      @@ "" :> {}),
   access |-> {}]

\* Two clusters with a pod, an account and a role of the same names, and who AWS lets in.
TwoClusters ==
  [objects |->
     ("east" :> {KPod("ci", "", {}), KAccount("ci", "default", "r1"),
        KRole("clusterrole", "", "ops", <<KRule("*", "*")>>),
        KBinding("clusterrolebinding", "", "b", KRef("clusterrole", "ops"),
                 {KSubject("group", "", "devs"), KSubject("serviceaccount", "ci", "default")}),
        KAuth({KMapping("r1", "", {"devs"})})}
      @@ "" :> {KPod("ci", "", {}), KAccount("ci", "default", ""),
        KRole("clusterrole", "", "ops", <<KRule("bind", "roles")>>),
        KBinding("clusterrolebinding", "", "b", KRef("clusterrole", "ops"),
                 {KSubject("group", "", "devs"), KSubject("user", "", "ann")}),
        KAuth({KMapping("u1", "ann", {"system:masters"}), KMapping("r2", "ann", {})})}),
   access |->
     {[kind |-> "pod identity", cluster |-> "east", ns |-> "ci", account |-> "default", arn |-> "r2"],
      [kind |-> "access entry", cluster |-> "east", arn |-> "u1", policy |-> "AmazonEKSClusterAdminPolicy", scope |-> "cluster"],
      [kind |-> "access entry", cluster |-> "", arn |-> "r1", policy |-> "AmazonEKSEditPolicy", scope |-> "namespace"]}]

\* Services and an ingress in front of pods that may leave their containers, on nodes that
\* are machines of the account or not.
WaysIn ==
  [objects |->
     ("east" :> {KPod("ci", "", {"hostPID"}), KPod("", "", {}), KService("ci", "NodePort"), KService("", "ClusterIP"),
        [kind |-> "ingress", ns |-> "ci", name |-> "in", backends |-> {"svc", "other"}],
        [kind |-> "node", ns |-> "", name |-> "n", instance |-> "i-1"], KAccount("ci", "default", ""),
        KBinding("clusterrolebinding", "", "b", KRef("clusterrole", "cluster-admin"),
                 {KSubject("group", "", "system:unauthenticated"), KSubject("group", "ci", "system:serviceaccounts:")})}
      @@ "" :> {[kind |-> "node", ns |-> "", name |-> "n", instance |-> ""], KPod("ci", "", {"SYS_ADMIN"})}),
   access |-> {}]

SmallClusters == {SharedNames, TwoClusters, WaysIn}

---------------------------------------------------------------------------
(***************************************************************************)
(* Resource policies: what everyone, and someone in particular, may do,    *)
(* under conditions that tell who calls, that tell nothing, and that match *)
(* anything; denies for all, for whoever calls from elsewhere, and for     *)
(* whoever does not use TLS.                                               *)
(***************************************************************************)

Compares(key, op, value) == [key |-> key, op |-> op, values |-> {value}]
Says(grants, everyone, as, conditions) == [allow |-> grants, everyone |-> everyone, actions |-> as, conditions |-> conditions]
FromElsewhere == Compares("caller", "notEquals", "exact")
WithoutTls == Compares("other", "equals", "exact")

ResourceStatements(a, b) ==
  {Says(TRUE, TRUE, {a}, {}), Says(TRUE, TRUE, {a}, {Compares("caller", "equals", "wildcard")}),
   Says(TRUE, TRUE, {a}, {[Compares("caller", "equals", "exact") EXCEPT !.values = {"exact", "range"}]}),
   Says(TRUE, FALSE, {a, b}, {}), Says(TRUE, TRUE, {b}, {Compares("caller", "equalsIfExists", "exact")}),
   Says(FALSE, TRUE, {a}, {}), Says(FALSE, TRUE, {a, b}, {WithoutTls}), Says(FALSE, TRUE, {a}, {FromElsewhere}),
   Says(FALSE, TRUE, {a}, {FromElsewhere, WithoutTls})}

UpToThree(S) == UNION {kSubset(k, S) : k \in 0..3}

Permission(who, action, source, url) == [principal |-> who, action |-> action, source |-> source, url |-> url]
Permissions ==
  {Permission("*", "invokeUrl", "none", "urlNone"), Permission("*", "invoke", "none", "viaUrl"),
   Permission("*", "invoke", "account", "none"), Permission("*", "invokeUrl", "none", "urlIam"),
   Permission("*", "invoke", "none", "none"), Permission("role", "invoke", "none", "none")}

LambdaFunctions ==
  [url : {"none", "urlNone", "urlIam"}, recent : BOOLEAN, policyIs : {"known"},
   policy : {{PermissionStatement(p) : p \in ps} : ps \in UpToThree(Permissions)}]
  \cup [url : {"none", "urlNone"}, recent : BOOLEAN, policyIs : {"absent"}, policy : {{}}]

Apis ==
  [type : {"rest"}, staged : {TRUE}, private : BOOLEAN, policyIs : {"known"}, policy : UpToThree(ResourceStatements("invoke", "other")),
   routes : {[asks : BOOLEAN]}]
  \cup [type : {"rest", "http"}, staged : BOOLEAN, private : {FALSE}, policyIs : {"absent"}, policy : {{}},
        routes : SUBSET [asks : BOOLEAN]]

BlockSettings == SUBSET {"IgnorePublicAcls", "RestrictPublicBuckets"}
Buckets ==
  [acl : {"none"}, policy : UpToThree(ResourceStatements("read", "write")), blocks : {{}}, accountBlocks : {{}}]
  \cup [acl : {"none", "write", "read"}, policy : {{}, {Says(TRUE, TRUE, {"write"}, {})}}, blocks : BlockSettings, accountBlocks : BlockSettings]

SmallSettings ==
  "function" :> LambdaFunctions @@ "api" :> Apis @@ "bucket" :> Buckets @@ "database" :> [public : BOOLEAN]
    @@ "machine" :> [address : BOOLEAN, reached : BOOLEAN]

---------------------------------------------------------------------------

PortsIdle == offered = NoPorts /\ undecided = NoPorts /\ allowed = NoPorts /\ rules = << >>
PlanIdle == account = {} /\ managed = {} /\ planned = {} /\ movable = {}
IdentitiesIdle ==
  /\ feed = "live" /\ principal = "user" /\ attached = {} /\ identity = Nothing
  /\ bound = "none" /\ boundary = {} /\ cap = Nothing /\ trust = {} /\ noted = FALSE
  /\ scp = {} /\ memo = << >> /\ record = [outcome |-> "none", settled |-> ""]
  /\ tally = [confirmed |-> 0, refuted |-> 0, unsettled |-> 0] /\ graded = "none" /\ asks = 0 /\ blips = 0
KubeIdle == objects = [c \in Clusters |-> {}] /\ access = {} /\ scenario = SharedNames
DoorsIdle ==
  /\ sort = "machine" /\ settings = [address |-> FALSE, reached |-> FALSE]
  /\ network = "unsaid" /\ claimed = FALSE /\ publicAccess = FALSE /\ told = FALSE

CollectorsInit ==
  /\ subject \in Subjects
  /\ IF subject = "ports" THEN PortsInit ELSE PortsIdle
  /\ IF subject = "plan" THEN PlanInit ELSE PlanIdle
  /\ IF subject = "identities" THEN EscalationAuditInit ELSE IdentitiesIdle
  /\ IF subject = "kube" THEN KubeInit ELSE KubeIdle
  /\ IF subject = "doors" THEN ExposureInit ELSE DoorsIdle

CollectorsNext ==
  /\ UNCHANGED subject
  /\ \/ subject = "ports" /\ PortsNext /\ UNCHANGED <<planVars, iamVars, auditingVars, kubeVars, exposureVars>>
     \/ subject = "plan" /\ PlanNext /\ UNCHANGED <<portVars, iamVars, auditingVars, kubeVars, exposureVars>>
     \/ subject = "identities" /\ IdentitiesNext /\ UNCHANGED <<portVars, planVars, kubeVars, exposureVars>>
     \/ subject = "kube" /\ KubeNext /\ UNCHANGED <<portVars, planVars, iamVars, auditingVars, exposureVars>>
     \/ subject = "doors" /\ ExposureNext /\ UNCHANGED <<portVars, planVars, iamVars, auditingVars, kubeVars>>

CollectorsSpec == CollectorsInit /\ [][CollectorsNext]_vars
=============================================================================
