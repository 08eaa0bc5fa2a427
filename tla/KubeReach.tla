----------------------------- MODULE KubeReach -----------------------------
(***************************************************************************)
(* What the Kubernetes and EKS collectors draw: who of a cluster becomes   *)
(* whom, and where the cluster and the cloud account around it meet.       *)
(*                                                                         *)
(* Each cluster sends one dump; EKS says who of the account gets in and as *)
(* whom its pods get out.  The objects appear one at a time, and every set *)
(* of them is an estate the collectors may be given: the graph is a        *)
(* function of it.                                                         *)
(***************************************************************************)
EXTENDS Naturals, FiniteSetsExt, Sequences

CONSTANTS
  Clusters,        \* their names, as ?cluster= gives them
  Estates,         \* scenarios: cluster -> the objects that may appear, and the EKS records
  AdminNames,      \* the role names with "admin" in them
  UserArns,        \* the principals that are users
  MaxObjects       \* bound: objects and records at a time

\* The names that a scenario's bindings refer to roles by, and its ARNs, which are none
\* of them.
BindingsOf(e) == UNION {{o \in e.objects[c] : o.kind \in {"rolebinding", "clusterrolebinding"}} : c \in Clusters}
ArnsAmong(os) ==
  {o.irsa : o \in {x \in os : x.kind = "serviceaccount"}}
    \cup {m.arn : m \in UNION {o.mappings : o \in {x \in os : x.kind = "aws-auth"}}}
ArnsIn(objectsOf, records) == {a.arn : a \in records} \cup UNION {ArnsAmong(objectsOf[c]) : c \in Clusters}

\* The synthetic role that every escalation ends at.
AdminRole == "perspectivegraph:cluster-admin"

ASSUME KubeAssumption ==
  /\ AdminRole \in AdminNames
  /\ \A e \in Estates :
       /\ ArnsIn(e.objects, e.access) \cap ({AdminRole} \cup {b.ref.name : b \in BindingsOf(e)}) = {}
       /\ \A b \in BindingsOf(e) :
            /\ b.ref.kind \in {"role", "clusterrole"}
            /\ \A s \in b.subjects : s.kind \in {"serviceaccount", "group", "user"}

VARIABLES
  objects,    \* cluster -> the objects of its dump
  access,     \* the EKS API's pod identity associations and access entries
  scenario    \* what may appear

kubeVars == <<objects, access, scenario>>

KubeInit ==
  /\ scenario \in Estates
  /\ objects = [c \in Clusters |-> {}]
  /\ access = {}

ObjectsOf(c, kind) == {o \in objects[c] : o.kind = kind}

---------------------------------------------------------------------------
(***************************************************************************)
(* Ids: <<label, cluster, key>>.  What belongs to an account or a          *)
(* directory is of the cluster "".                                         *)
(***************************************************************************)

KubeId(label, c, key) == <<label, c, key>>

NsOrDefault(ns) == IF ns = "" THEN "default" ELSE ns

Pod(c, o) == KubeId("Container", c, <<NsOrDefault(o.ns), o.name>>)
WayIn(c, sort, o) == KubeId("LoadBalancer", c, <<sort, NsOrDefault(o.ns), o.name>>)
Account(c, ns, name) == KubeId("ServiceAccount", c, <<NsOrDefault(ns), name>>)

\* Fault: a Role is known by its name alone.
RoleKeyBarNamespace(kind, ns, name) == <<name>>

\* A Role belongs to a namespace, a ClusterRole does not.
RoleKey(kind, ns, name) == IF kind = "role" THEN <<NsOrDefault(ns), name>> ELSE <<name>>
RoleOf(c, b) == KubeId("IAMRole", c, RoleKey(b.ref.kind, b.ns, b.ref.name))

ClusterAdmin(c) == KubeId("IAMRole", c, <<AdminRole>>)

\* Of a directory or of the account, and shared between clusters.
NamedUser(name) == <<"User", "", <<"user", name>>>>
NamedGroup(name) == <<"User", "", <<"group", name>>>>
Vm(id) == <<"VirtualMachine", "", <<id>>>>
AwsPrincipal(arn) == <<IF arn \in UserArns THEN "User" ELSE "IAMRole", "", <<arn>>>>

---------------------------------------------------------------------------
(***************************************************************************)
(* Roles: administrators, and what makes an administrator of its holder.   *)
(***************************************************************************)

RbacObjects == {"roles", "clusterroles"}
Primitive(verbs, on, weight) == [verbs |-> verbs \cup {"*"}, on |-> on, weight |-> weight]

\* In the order they are tried, with how reliably each reaches cluster-admin.
Primitives ==
  <<Primitive({"escalate"}, RbacObjects \cup {"*"}, 90),
    Primitive({"bind"}, RbacObjects \cup {"rolebindings", "clusterrolebindings", "*"}, 40),
    Primitive({"impersonate"}, {"users", "groups", "serviceaccounts", "*"}, 85),
    Primitive({"create"}, {"pods", "deployments", "daemonsets", "statefulsets", "jobs", "cronjobs", "replicasets"}, 60),
    Primitive({"get", "list", "watch"}, {"secrets"}, 85),
    Primitive({"create"}, {"serviceaccounts/token", "tokenrequests"}, 85)>>

IsAdminRole(r) == \E i \in DOMAIN r.rules : "*" \in r.rules[i].verbs /\ "*" \in r.rules[i].resources

\* The primitives that a rule has, and the rules of a role that have one.
Having(rule) ==
  {i \in DOMAIN Primitives : rule.verbs \cap Primitives[i].verbs # {} /\ rule.resources \cap Primitives[i].on # {}}
Escalating(r) == {i \in DOMAIN r.rules : Having(r.rules[i]) # {}}

\* Of a role that has any: the first primitive of the first rule that has one.
EscalateReason(r) == Min(Having(r.rules[Min(Escalating(r))]))

Roles(c) == ObjectsOf(c, "role") \cup ObjectsOf(c, "clusterrole")
Bindings(c) == ObjectsOf(c, "rolebinding") \cup ObjectsOf(c, "clusterrolebinding")

\* The roles of the dump that a binding's reference finds, by their key.
Defined(c, b) == {r \in Roles(c) : RoleKey(r.kind, r.ns, r.name) = RoleKey(b.ref.kind, b.ns, b.ref.name)}

BindsAdmin(c, b) == b.ref.name \in AdminNames \/ \E r \in Defined(c, b) : IsAdminRole(r)

EscalationEdges(c, b) ==
  IF BindsAdmin(c, b) THEN {}
  ELSE {<<RoleOf(c, b), ClusterAdmin(c), Primitives[EscalateReason(r)].weight>> :
          r \in {x \in Defined(c, b) : Escalating(x) # {}}}

---------------------------------------------------------------------------
(***************************************************************************)
(* Pods, services and ingresses.                                           *)
(***************************************************************************)

DangerousCaps == {"ALL", "SYS_ADMIN", "SYS_MODULE", "SYS_PTRACE", "SYS_RAWIO", "SYS_BOOT",
                  "DAC_READ_SEARCH", "DAC_OVERRIDE", "BPF"}
HostBreaking == DangerousCaps \cup {"privileged", "hostPID", "hostNetwork", "hostIPC", "hostPath"}

Escapes(p) == p.settings \cap HostBreaking # {}

\* An escaped pod is its node; on EKS that is an instance of the account.
EscapeEdges(c, p) ==
  IF ~Escapes(p) THEN {}
  ELSE {<<Pod(c, p), ClusterAdmin(c), 95>>}
       \cup {<<Pod(c, p), Vm(n.instance), 95>> :
               n \in {x \in ObjectsOf(c, "node") : x.name = p.node /\ x.instance # ""}}

MountedAccount(p) == IF p.account = "" THEN "default" ELSE p.account

PodEdges(c) ==
  UNION {EscapeEdges(c, p) \cup {<<Pod(c, p), Account(c, p.ns, MountedAccount(p)), 80>>} : p \in ObjectsOf(c, "pod")}

SelectorMatches(s, p) == s.selector # {} /\ s.selector \subseteq p.labels

ServiceEdges(c) ==
  {<<WayIn(c, "svc", x[1]), Pod(c, x[2]), 90>> :
     x \in {y \in ObjectsOf(c, "service") \X ObjectsOf(c, "pod") :
              NsOrDefault(y[1].ns) = NsOrDefault(y[2].ns) /\ SelectorMatches(y[1], y[2])}}

\* To the service of that name, drawn or only named.
IngressEdges(c) ==
  UNION {{<<WayIn(c, "ing", i), WayIn(c, "svc", [ns |-> i.ns, name |-> s]), 90>> : s \in i.backends} :
           i \in ObjectsOf(c, "ingress")}

---------------------------------------------------------------------------
(***************************************************************************)
(* Bindings.                                                               *)
(***************************************************************************)

ListedAccounts(c) == {Account(c, a.ns, a.name) : a \in ObjectsOf(c, "serviceaccount")}
ListedIn(c, ns) == {Account(c, a.ns, a.name) : a \in {x \in ObjectsOf(c, "serviceaccount") : NsOrDefault(x.ns) = ns}}

EveryAccount == {"system:serviceaccounts", "system:authenticated"}
Anonymous == {"system:unauthenticated", "system:anonymous"}

\* A group of a namespace's accounts is "system:serviceaccounts:" and the namespace.
BindGroup(c, s, role) ==
  CASE s.name \in EveryAccount -> {<<a, role, 80>> : a \in ListedAccounts(c)}
    [] s.name = "system:serviceaccounts:" -> {<<a, role, 80>> : a \in ListedIn(c, s.ns)}
    [] s.name \in Anonymous -> {<<KubeId("User", c, <<"group", s.name>>), role, 90>>}
    [] OTHER -> {<<NamedGroup(s.name), role, 80>>}

SubjectEdges(c, s, role) ==
  CASE s.kind = "serviceaccount" -> {<<Account(c, s.ns, s.name), role, 80>>}
    [] s.kind = "group" -> BindGroup(c, s, role)
    [] s.kind = "user" -> {<<NamedUser(s.name), role, 80>>}

BindingEdges(c) ==
  UNION {EscalationEdges(c, b) \cup UNION {SubjectEdges(c, s, RoleOf(c, b)) : s \in b.subjects} : b \in Bindings(c)}

\* The roles this cluster binds to a group or a user of that name.
BoundTo(c, kind, name) ==
  {RoleOf(c, b) : b \in {x \in Bindings(c) : \E s \in x.subjects : s.kind = kind /\ s.name = name}}

---------------------------------------------------------------------------
(***************************************************************************)
(* The account: IRSA, aws-auth, pod identity and access entries.           *)
(***************************************************************************)

IrsaEdges(c) ==
  {<<Account(c, a.ns, a.name), AwsPrincipal(a.irsa), 90>> : a \in {x \in ObjectsOf(c, "serviceaccount") : x.irsa # ""}}

\* What a mapping of aws-auth makes its principal.
AuthTargets(c, m) ==
  {ClusterAdmin(c) : g \in m.groups \cap {"system:masters"}}
    \cup BoundTo(c, "user", m.user)
    \cup UNION {BoundTo(c, "group", g) : g \in m.groups \ {"system:masters"}}

AwsAuthEdges(c) ==
  UNION {{<<AwsPrincipal(m.arn), t, 90>> : t \in AuthTargets(c, m)} : m \in UNION {o.mappings : o \in ObjectsOf(c, "aws-auth")}}

WritingPolicies == {"AmazonEKSAdminPolicy", "AmazonEKSEditPolicy"}
AccessRole(e) == KubeId("IAMRole", e.cluster, <<"eks-access-policy", e.policy, e.scope>>)

AccessEdges ==
  {<<Account(a.cluster, a.ns, a.account), AwsPrincipal(a.arn), 90>> : a \in {x \in access : x.kind = "pod identity"}}
  \cup UNION {IF e.policy = "AmazonEKSClusterAdminPolicy"
                THEN {<<AwsPrincipal(e.arn), ClusterAdmin(e.cluster), 90>>}
              ELSE IF e.policy \in WritingPolicies
                THEN {<<AwsPrincipal(e.arn), AccessRole(e), 90>>, <<AccessRole(e), ClusterAdmin(e.cluster), 85>>}
              ELSE {} : e \in {x \in access : x.kind = "access entry"}}

DumpEdges(c) ==
  PodEdges(c) \cup ServiceEdges(c) \cup IngressEdges(c) \cup BindingEdges(c) \cup IrsaEdges(c) \cup AwsAuthEdges(c)

DrawnEdges == AccessEdges \cup UNION {DumpEdges(c) : c \in Clusters}

\* The crown jewels of a cluster.
Jewels(c) == {ClusterAdmin(c)} \cup {RoleOf(c, b) : b \in {x \in Bindings(c) : BindsAdmin(c, x)}}

\* Where the internet begins.
Seeds(c) ==
  {WayIn(c, "svc", s) : s \in {x \in ObjectsOf(c, "service") : x.type \in {"LoadBalancer", "NodePort"}}}
    \cup {WayIn(c, "ing", i) : i \in ObjectsOf(c, "ingress")}
    \cup {KubeId("User", c, <<"group", g>>) :
            g \in {n \in Anonymous : \E b \in Bindings(c) : \E s \in b.subjects : s.kind = "group" /\ s.name = n}}

---------------------------------------------------------------------------

Present == {x \in Clusters \X UNION {objects[c] : c \in Clusters} : x[2] \in objects[x[1]]}

\* One object of a name and kind in a cluster, as the API server has it.
SameObject(o, q) == o.kind = q.kind /\ (o.kind # "aws-auth" => NsOrDefault(o.ns) = NsOrDefault(q.ns) /\ o.name = q.name)

Appear(c, o) ==
  /\ \A q \in objects[c] : ~SameObject(o, q)
  /\ objects' = [objects EXCEPT ![c] = @ \cup {o}]
  /\ UNCHANGED <<access, scenario>>

Record(a) ==
  /\ a \notin access
  /\ access' = access \cup {a}
  /\ UNCHANGED <<objects, scenario>>

KubeNext ==
  /\ Cardinality(Present) + Cardinality(access) < MaxObjects
  /\ \/ \E c \in Clusters : \E o \in scenario.objects[c] : Appear(c, o)
     \/ \E a \in scenario.access : Record(a)

KubeSpec == KubeInit /\ [][KubeNext]_kubeVars

---------------------------------------------------------------------------
(***************************************************************************)
(* Properties.                                                             *)
(***************************************************************************)

\* What is reached from a node over some edges in eight steps: no route here is longer.
Onward(edges, from) == from \cup {e[2] : e \in {x \in edges : x[1] \in from}}
Reached(edges, from) ==
  LET twice(S) == Onward(edges, Onward(edges, S))
  IN twice(twice(twice(twice({from}))))

Principals == {AwsPrincipal(arn) : arn \in ArnsIn(objects, access)}
InCluster == {e \in DrawnEdges : e[1] \notin Principals}

\* What Kubernetes answers, rule by rule, for a pod: the bindings that cover its account.
Names(s, ns, account) ==
  \/ s.kind = "serviceaccount" /\ NsOrDefault(s.ns) = ns /\ s.name = account
  \/ s.kind = "group" /\ (s.name \in EveryAccount \/ (s.name = "system:serviceaccounts:" /\ s.ns = ns))
Covering(c, p) ==
  {b \in Bindings(c) : \E s \in b.subjects : Names(s, NsOrDefault(p.ns), MountedAccount(p))}
Referred(c, b) ==
  {r \in Roles(c) : r.kind = b.ref.kind /\ r.name = b.ref.name
                      /\ (r.kind = "role" => NsOrDefault(r.ns) = NsOrDefault(b.ns))}
RulesOf(c, p) == UNION {UNION {{r.rules[i] : i \in DOMAIN r.rules} : r \in Referred(c, b)} : b \in Covering(c, p)}

\* A rule gives one of the primitives: it allows one of its verbs on one of its resources.
Gives(rule, resources) ==
  \E i \in DOMAIN Primitives : rule.verbs \cap Primitives[i].verbs # {} /\ resources \cap (Primitives[i].on \cup {"*"}) # {}
IsListed(c, p) == Account(c, p.ns, MountedAccount(p)) \in ListedAccounts(c)

\* A pod whose account Kubernetes lets become administrator, by whatever binding and in
\* whatever order its rules are written, has a route to one, as long as the rule names
\* a resource (k8s.Parse, roleKey, escalateReason, bindGroup).
EscalationsAreDrawn ==
  \A c \in Clusters : \A p \in ObjectsOf(c, "pod") :
    (Escapes(p) \/ (IsListed(c, p) /\ \E rule \in RulesOf(c, p) : Gives(rule, rule.resources \ {"*"})))
      => Reached(InCluster, Pod(c, p)) \cap Jewels(c) # {}

MayBecomeAdmin(c, p) ==
  \/ Escapes(p)
  \/ \E rule \in RulesOf(c, p) : Gives(rule, rule.resources)
  \/ \E b \in Covering(c, p) : b.ref.name \in AdminNames

\* No pod, and nothing the internet enters by, has a route that no object of its cluster
\* gives it: not through a role of the same name in another namespace, or an account or
\* a service of the same name in another cluster (roleKey, KubeID).
NoBorrowedPowers ==
  \A c, d \in Clusters :
    /\ \A p \in ObjectsOf(c, "pod") :
         Reached(InCluster, Pod(c, p)) \cap Jewels(d) # {} => d = c /\ MayBecomeAdmin(c, p)
    /\ \A s \in Seeds(c) : Reached(InCluster, s) \cap Jewels(d) # {} => d = c

\* What a cluster's own aws-auth and access entries say of a principal.
NamedBy(c, principal) ==
  \/ \E m \in UNION {o.mappings : o \in ObjectsOf(c, "aws-auth")} : AwsPrincipal(m.arn) = principal
  \/ \E e \in access : e.kind = "access entry" /\ e.cluster = c /\ AwsPrincipal(e.arn) = principal

\* A principal of the account enters the clusters that name it and no other, whatever
\* groups their aws-auths share (mapAWSAuth, eks.Parse).
MappedWhereNamed ==
  \A c \in Clusters : \A a \in Principals :
    Reached(DrawnEdges, a) \cap Jewels(c) # {} => NamedBy(c, a)

\* What escalateReason's comment says: it returns "" when the role is benign.
BenignMeansBenign ==
  \A c \in Clusters : \A p \in ObjectsOf(c, "pod") :
    (IsListed(c, p) /\ \E rule \in RulesOf(c, p) : Gives(rule, rule.resources))
      => Reached(InCluster, Pod(c, p)) \cap Jewels(c) # {}

\* The routes drawn in and into clusters are those there are (k8s.Parse, eks.Parse).
RoutesAreReal == EscalationsAreDrawn /\ NoBorrowedPowers /\ MappedWhereNamed
=============================================================================
