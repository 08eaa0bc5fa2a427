------------------------- MODULE ResourceExposure --------------------------
(***************************************************************************)
(* Who of the internet gets into a function, an API, a bucket, a database  *)
(* or a machine, as the collectors decide it from the resource's own       *)
(* settings and policy, and what the graph says of it after one            *)
(* description and the next.                                               *)
(*                                                                         *)
(* A behaviour is of one resource.  Its owner changes it as he likes; each *)
(* description is of the settings it finds, and its properties are merged  *)
(* into the node's.                                                        *)
(***************************************************************************)
EXTENDS Naturals, FiniteSets

CONSTANTS
  SettingsOf    \* sort of resource -> the settings it may have

\* A policy the input left out has no statement the model could hold it to.
ASSUME ExposureAssumption ==
  /\ DOMAIN SettingsOf \subseteq {"function", "api", "bucket", "database", "machine"}
  /\ "function" \in DOMAIN SettingsOf =>
       \A f \in SettingsOf["function"] : f.policyIs # "known" => f.policy = {}

VARIABLES
  sort,       \* "function", "api", "bucket", "database" or "machine"
  settings,   \* as they were last described
  network,    \* network_exposed: "unsaid", "open" or "closed"
  claimed,    \* internet_exposed was said
  publicAccess,   \* public_access
  told        \* the source that decides has described these settings

exposureVars == <<sort, settings, network, claimed, publicAccess, told>>

---------------------------------------------------------------------------
(***************************************************************************)
(* Policies: sets of statements.  A condition compares a key with values:  *)
(* a key that says who the caller is or where he comes from may narrow.    *)
(***************************************************************************)

\* A wildcard, a policy variable or a range that AWS takes for everyone is not fixed.
FixedValue(v) == v \in {"exact", "range", "session"}
AllFixed(c) == c.values # {} /\ \A v \in c.values : FixedValue(v)

NarrowingOperator(op) == op = "equals"
NegatedOperator(op) == op \in {"notEquals", "notEqualsIfExists"}

Narrowed(s) == \E c \in s.conditions : c.key = "caller" /\ NarrowingOperator(c.op) /\ AllFixed(c)
HasConditions(s) == s.conditions # {}

DeniesOutside(s) ==
  ~s.allow /\ \E c \in s.conditions : c.key = "caller" /\ NegatedOperator(c.op) /\ AllFixed(c)

\* Holds only for calls through a function URL, of a type where it says one.
UrlOnly(s) == \E c \in s.conditions : c.key \in {"viaUrl", "urlNone", "urlIam"}
OtherUrlType(s, type) == \E c \in s.conditions : c.key \in {"urlNone", "urlIam"} /\ c.key # type

\* For a call through a URL of a type, or "direct".
Applies(s, type) ==
  /\ s.everyone /\ ~Narrowed(s)
  /\ UrlOnly(s) => type # "direct" /\ ~OtherUrlType(s, type)

\* Fault: a Deny closes what an Allow opens whatever its condition.
PublicUnlessDenied(policy, action, type) ==
  LET applying == {s \in policy : action \in s.actions /\ Applies(s, type)}
  IN applying # {} /\ \A s \in applying : s.allow

\* An Allow, and no unconditional Deny.
Public(policy, action, type) ==
  LET applying == {s \in policy : action \in s.actions /\ Applies(s, type)}
  IN /\ \E s \in applying : s.allow
     /\ \A s \in applying : ~s.allow => HasConditions(s)

Confined(policy, action) == \E s \in policy : DeniesOutside(s) /\ s.everyone /\ action \in s.actions

\* The policy that a Lambda permission adds a statement to, and that a plan's
\* aws_lambda_permission becomes.
Equals(key, values) == [key |-> key, op |-> "equals", values |-> values]
PermissionStatement(p) ==
  [allow |-> TRUE, everyone |-> p.principal = "*", actions |-> {p.action},
   conditions |-> {Equals("caller", {"exact"}) : x \in {y \in {p.source} : y # "none"}}
                  \cup {Equals(p.url, {"exact"}) : x \in {y \in {p.url} : y # "none"}}]

---------------------------------------------------------------------------
(***************************************************************************)
(* What each collector decides.                                            *)
(***************************************************************************)

\* lambda.exposure: without a policy in the input the URL alone is the answer.
FunctionOpen(f) ==
  LET policy == IF f.policyIs = "known" THEN f.policy ELSE {}
      direct == Public(policy, "invoke", "direct")
      through == /\ f.url = "urlNone"
                 /\ \/ f.policyIs # "known"
                    \/ /\ Public(policy, "invokeUrl", "urlNone")
                       /\ f.recent => Public(policy, "invoke", "urlNone")
  IN direct \/ through

OpenRoutes(a) == {r \in a.routes : ~r.asks}

\* What stands before every route of an API.
ApiGated(a) ==
  \/ ~a.staged
  \/ a.type = "rest" /\ a.private
  \/ /\ a.type = "rest" /\ a.policyIs = "known" /\ ~a.private
     /\ ~Public(a.policy, "invoke", "direct") \/ Confined(a.policy, "invoke")

ApiOpen(a) == ~ApiGated(a) /\ OpenRoutes(a) # {}

\* Block Public Access, of the bucket and of its account.
Blocks(b) == b.blocks \cup b.accountBlocks

AclGrants(b) == b.acl # "none" /\ "IgnorePublicAcls" \notin Blocks(b)
PolicyGrants(b, action) == Public(b.policy, action, "direct") /\ "RestrictPublicBuckets" \notin Blocks(b)

BucketOpen(b) == AclGrants(b) \/ PolicyGrants(b, "read") \/ PolicyGrants(b, "write")
BucketReadable(b) == (b.acl = "read" /\ AclGrants(b)) \/ PolicyGrants(b, "read")

---------------------------------------------------------------------------
(***************************************************************************)
(* The descriptions.  Properties accumulate: what one does not write, it   *)
(* leaves.                                                                 *)
(***************************************************************************)

ExposureInit ==
  /\ sort \in DOMAIN SettingsOf
  /\ settings \in SettingsOf[sort]
  /\ network = "unsaid" /\ claimed = FALSE /\ publicAccess = FALSE
  /\ told = FALSE

\* Written either way.
Verdict(open) == IF open THEN "open" ELSE "closed"

Decides(open) ==
  /\ network' = Verdict(open)
  /\ claimed' = (claimed \/ open)
  /\ told' = TRUE

DescribeFunction(f) ==
  /\ sort = "function" /\ Decides(FunctionOpen(f)) /\ UNCHANGED publicAccess

DescribeApi(a) ==
  /\ sort = "api" /\ Decides(ApiOpen(a)) /\ UNCHANGED publicAccess

DescribeBucket(b) ==
  /\ sort = "bucket" /\ Decides(BucketOpen(b))
  /\ publicAccess' = BucketReadable(b)

\* Custodian says of these only that they are open.
Claims(open) ==
  /\ claimed' = (claimed \/ open)
  /\ UNCHANGED <<network, publicAccess>>

DescribeDatabase(d) ==
  /\ sort = "database" /\ Claims(d.public) /\ told' = TRUE

\* An instance with an address, whose groups and routes only the network feed knows.
ListMachine(m) ==
  /\ sort = "machine" /\ Claims(m.address)
  /\ told' = (told /\ m = settings)

DescribeMachine(m) ==
  /\ sort = "machine" /\ Decides(m.address /\ m.reached) /\ UNCHANGED publicAccess

ExposureNext ==
  /\ settings' \in SettingsOf[sort]
  /\ \/ DescribeFunction(settings') \/ DescribeApi(settings') \/ DescribeBucket(settings')
     \/ DescribeDatabase(settings') \/ ListMachine(settings') \/ DescribeMachine(settings')
  /\ UNCHANGED sort

ExposureSpec == ExposureInit /\ [][ExposureNext]_exposureVars

\* The network's verdict where there is one, or else what anybody said.
InternetExposed == IF network # "unsaid" THEN network = "open" ELSE claimed

\* Where an attack begins.
IsSeed == InternetExposed \/ publicAccess

---------------------------------------------------------------------------
(***************************************************************************)
(* Properties, against what AWS answers a stranger's call.  He is none of  *)
(* the callers a fixed condition names, and comes from elsewhere; any      *)
(* other condition he may meet or not, as he likes.                        *)
(***************************************************************************)

Meets(c, chosen, type) ==
  CASE c.key = "viaUrl" -> type # "direct"
    [] c.key \in {"urlNone", "urlIam"} -> c.key = type
    [] c.key = "caller" /\ AllFixed(c) /\ c.op = "equals" -> FALSE
    [] c.key = "caller" /\ AllFixed(c) /\ NegatedOperator(c.op) -> TRUE
    [] OTHER -> c \in chosen

MatchesCall(s, action, type, chosen) ==
  s.everyone /\ action \in s.actions /\ \A c \in s.conditions : Meets(c, chosen, type)

Admits(policy, action, type, chosen) ==
  /\ \E s \in policy : s.allow /\ MatchesCall(s, action, type, chosen)
  /\ \A s \in policy : ~s.allow => ~MatchesCall(s, action, type, chosen)

StrangersChoices(policy) == SUBSET UNION {s.conditions : s \in policy}

GetsIntoFunction(f) ==
  \E chosen \in StrangersChoices(f.policy) :
    \/ Admits(f.policy, "invoke", "direct", chosen)
    \/ /\ f.url = "urlNone" /\ Admits(f.policy, "invokeUrl", "urlNone", chosen)
       /\ f.recent => Admits(f.policy, "invoke", "urlNone", chosen)

GetsIntoApi(a) ==
  /\ a.staged /\ OpenRoutes(a) # {}
  /\ a.type = "rest" =>
       /\ ~a.private
       /\ a.policyIs = "known" => \E chosen \in StrangersChoices(a.policy) : Admits(a.policy, "invoke", "direct", chosen)

GetsIntoBucket(b) ==
  \/ b.acl # "none" /\ \A s \in {"IgnorePublicAcls"} : s \notin b.blocks /\ s \notin b.accountBlocks
  \/ /\ "RestrictPublicBuckets" \notin b.blocks \cup b.accountBlocks
     /\ \E chosen \in StrangersChoices(b.policy), a \in {"read", "write"} : Admits(b.policy, a, "direct", chosen)

GetsIn ==
  CASE sort = "function" -> GetsIntoFunction(settings)
    [] sort = "api" -> GetsIntoApi(settings)
    [] sort = "bucket" -> GetsIntoBucket(settings)
    [] sort = "database" -> settings.public
    [] sort = "machine" -> settings.address /\ settings.reached

PolicyIn == IF sort \in {"function", "api", "bucket"} THEN settings.policy ELSE {}

\* A Deny of everyone elsewhere that holds only under a further condition.
KeepsOut(c) == c.key = "caller" /\ NegatedOperator(c.op) /\ AllFixed(c)
HalfConfining == \E s \in PolicyIn : DeniesOutside(s) /\ \E c \in s.conditions : ~KeepsOut(c)

\* What a stranger gets into is where attacks begin, whatever else its policy says and
\* whatever was described before: a statement for the URL only opens the URL only, a
\* Deny he can step around closes nothing, a setting of the account closes what it
\* closes and nothing else (ResourcePolicy.Public, lambda.exposure, apigateway.Parse,
\* custodian.bucket).
OpenDoorsAreSeen == told /\ GetsIn /\ ~HalfConfining => IsSeed

\* What nobody gets into is no longer where attacks begin, once the source that decides
\* has described it: whatever was said when it was open, and by whichever source
\* (PropNetworkExposed).  A Deny under a condition is not held against an Allow, a
\* function whose policy is missing is taken for open, and a database is claimed open
\* for good.
ClosedDoorsAreForgotten ==
  /\ told /\ ~GetsIn
  /\ \A s \in PolicyIn : ~s.allow => ~HasConditions(s)
  /\ sort # "database" /\ (sort = "function" => settings.policyIs = "known")
  => ~IsSeed

\* What DeniesOutside's comment says: a Deny that holds for every caller outside a fixed
\* set, one an attacker on the internet cannot step around.
ConfinedMeansConfined == told /\ GetsIn => IsSeed

\* A resource is where attacks begin when, and as long as, a stranger gets in
\* (ParseResourcePolicy, public, Confined and the collectors that ask them).
DoorsAreToldApart == OpenDoorsAreSeen /\ ClosedDoorsAreForgotten
=============================================================================
