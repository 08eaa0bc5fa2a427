----------------------------- MODULE IamAccess -----------------------------
(***************************************************************************)
(* What the IAM collector concludes of one principal: whether it is, or    *)
(* can make itself, administrator of the account, how sure that is, and,   *)
(* of a role, who from outside can assume it.                              *)
(*                                                                         *)
(* An action pattern is the set of actions it matches, the pattern "*" all *)
(* of them.  A statement is read at a time, and every prefix of an account *)
(* is an account, so every state is a verdict to compare with what AWS     *)
(* would answer.                                                           *)
(***************************************************************************)
EXTENDS Naturals, FiniteSets

CONSTANTS
  AllActions,      \* the actions, some of which no technique needs
  Techniques,      \* primitives: the actions a technique needs, and whether only
                   \* a user can turn it on itself
  Targets,         \* the resources of the account
  IdentityStatements, BoundaryStatements, TrustStatements,  \* what documents may hold
  MaxIdentity,     \* bound: statements of the identity policies
  MaxBoundary      \* bound: statements of the boundary

\* Of a statement that covers everything, every resource is covered; a technique
\* needs some action.
ASSUME IamAssumption ==
  /\ \A st \in IdentityStatements \cup BoundaryStatements :
       /\ st.effect \in {"Allow", "Deny"}
       /\ st.condition \in {"none", "ifexists", "key"}
       /\ st.resource = "star" => Targets \subseteq st.covers
  /\ \A st \in IdentityStatements : st.document \in {"here", "awsKnown", "awsOther", "later"}
  /\ \A t \in Techniques : t.needs # {} /\ t.needs \subseteq AllActions

VARIABLES
  feed,        \* "live", or "plan" for the feed a Terraform plan is turned into
  principal,   \* "user" or "role"
  attached,    \* the statements of its policies
  identity,    \* actionSet: what was read of them
  bound,       \* "none", "unresolved" or "read"
  boundary,    \* the statements of the boundary that was read
  cap,         \* its action set
  trust,       \* the statements of a role's trust policy
  noted        \* the plan's feed says that something could not be read

iamVars == <<feed, principal, attached, identity, bound, boundary, cap, trust, noted>>

ActionSet(granted, denied, unsettled) == [grants |-> granted, denies |-> denied, conditional |-> unsettled]
Nothing == ActionSet({}, {}, {})

IamInit ==
  /\ feed \in {"live", "plan"}
  /\ principal \in {"user", "role"}
  /\ attached = {} /\ identity = Nothing
  /\ bound = "none" /\ boundary = {} /\ cap = Nothing
  /\ trust = {}
  /\ noted = FALSE

---------------------------------------------------------------------------
(***************************************************************************)
(* allowedActions, a statement at a time.                                  *)
(***************************************************************************)

\* Resource "*", or anything with a wildcard in it, or all but something.
Broad(st) == st.resource \in {"star", "wild", "not"}

Matched(st) == IF st.notAction THEN AllActions \ st.actions ELSE st.actions

Grant(set, st, star) ==
  ActionSet(set.grants \cup {[actions |-> Matched(st), broad |-> Broad(st), star |-> star]}, set.denies, set.conditional)

\* Fault: an Allow written with NotAction is not read.
AllowedBarNotAction(set, st) ==
  IF st.notAction THEN set ELSE Grant(set, st, st.actions = AllActions)

Allowed(set, st) == Grant(set, st, ~st.notAction /\ st.actions = AllActions)

\* Only a Deny over the whole account counts; one under a condition is remembered.
Denied(set, st) ==
  IF ~Broad(st) \/ st.resource = "not" \/ st.notAction THEN set
  ELSE IF st.condition = "none" THEN ActionSet(set.grants, set.denies \cup {st.actions}, set.conditional)
  ELSE ActionSet(set.grants, set.denies, set.conditional \cup {st.actions})

Read(set, st) == IF st.effect = "Allow" THEN Allowed(set, st) ELSE Denied(set, st)

---------------------------------------------------------------------------
(***************************************************************************)
(* What the action sets say.                                               *)
(***************************************************************************)

IsDenied(set, a) == \E d \in set.denies : a \in d
Grants(set, a) == ~IsDenied(set, a) /\ \E g \in set.grants : a \in g.actions
GrantsBroadly(set, a) == ~IsDenied(set, a) /\ \E g \in set.grants : g.broad /\ a \in g.actions
Blanket(set) == AllActions \notin set.denies /\ \E g \in set.grants : g.star /\ g.broad

Capped == bound = "read"

Allows(a) == Grants(identity, a) /\ (Capped => Grants(cap, a))
BroadlyAllows(a) == GrantsBroadly(identity, a) /\ (Capped => GrantsBroadly(cap, a))
IsAdmin == Blanket(identity) /\ (Capped => Blanket(cap))

ConditionalDenies == identity.conditional \cup (IF Capped THEN cap.conditional ELSE {})

\* A role has no user and no group to turn a technique on.
AppliesTo(t) == t.userOnly => principal = "user"

DetectPrivesc == {t \in Techniques : AppliesTo(t) /\ \A a \in t.needs : Allows(a)}

ScopedOnly(t) == \E a \in t.needs : ~BroadlyAllows(a)
Conditional(t) == \E a \in t.needs, d \in ConditionalDenies : a \in d

---------------------------------------------------------------------------
(***************************************************************************)
(* The edge to account-admin: its probability in hundredths, 0 for none,   *)
(* and what it says of itself.                                             *)
(***************************************************************************)

LeastOf(a, b) == IF a < b THEN a ELSE b
NoteBoundary(p) == IF bound = "unresolved" THEN LeastOf(p, 50) ELSE p
NoteCondition(p, unsettled) == IF unsettled THEN LeastOf(p, 50) ELSE p

AllConditional(matches) == \A t \in matches : Conditional(t)
AllScoped(matches) == \A t \in matches : ScopedOnly(t)

Escalates == IsAdmin \/ DetectPrivesc # {}
ResourceScoped == ~IsAdmin /\ DetectPrivesc # {} /\ AllScoped(DetectPrivesc)
DenyUnevaluated ==
  IF IsAdmin THEN AllActions \in ConditionalDenies
  ELSE DetectPrivesc # {} /\ AllConditional(DetectPrivesc)

Escalation ==
  IF ~Escalates THEN 0
  ELSE LET p == IF IsAdmin THEN 99 ELSE IF ResourceScoped THEN 50 ELSE 90
       IN NoteCondition(NoteBoundary(p), DenyUnevaluated)

---------------------------------------------------------------------------
(***************************************************************************)
(* Trust: anyone, a federated issuer whose users are strangers, a peer of  *)
(* the account.                                                            *)
(***************************************************************************)

\* The subject patterns of a trust, a set for each operator that restricts; an
\* operator that only excludes pins nothing.
SubjectPatterns(st) == UNION st.subjects
SubjectPinned(pattern) == pattern = "owner"

\* A federated trust is open unless every subject it accepts names an owner.
FederatedOpen(st) == SubjectPatterns(st) = {} \/ \E s \in SubjectPatterns(st) : ~SubjectPinned(s)

\* The role takes anyone in, under a condition or without.
TrustsEveryone == \E st \in trust : st.effect = "Allow" /\ st.who = "everyone"

OpenFederations ==
  {st \in trust : st.effect = "Allow" /\ st.who = "issuer" /\ st.webIdentity /\ FederatedOpen(st)}

\* What seeds a route at this role: its own exposure, or an open identity provider
\* with an edge to it.
EntryByTrust == TrustsEveryone \/ OpenFederations # {}

---------------------------------------------------------------------------
(***************************************************************************)
(* Reading.                                                                *)
(***************************************************************************)

\* A live read has every document.  The plan's feed has the documents the plan
\* knows and those of a few AWS policies; one known only after apply is noted, an
\* AWS policy it has no text of grants nothing.
Readable(st) == feed = "live" \/ st.document \in {"here", "awsKnown"}

ReadStatement(st) ==
  /\ Cardinality(attached) < MaxIdentity /\ st \notin attached
  /\ attached' = attached \cup {st}
  /\ identity' = IF Readable(st) THEN Read(identity, st) ELSE identity
  /\ noted' = (noted \/ (feed = "plan" /\ st.document = "later"))
  /\ UNCHANGED <<feed, principal, bound, boundary, cap, trust>>

\* capByBoundary: the boundary's document may not be in the input.
AttachBoundary(st) ==
  /\ bound \in {"none", "read"} /\ Cardinality(boundary) < MaxBoundary /\ st \notin boundary
  /\ bound' = "read"
  /\ boundary' = boundary \cup {st}
  /\ cap' = Read(cap, st)
  /\ UNCHANGED <<feed, principal, attached, identity, trust, noted>>

AttachUnreadBoundary ==
  /\ bound = "none"
  /\ bound' = "unresolved"
  /\ UNCHANGED <<feed, principal, attached, identity, boundary, cap, trust, noted>>

ReadTrust(st) ==
  /\ principal = "role" /\ trust = {} /\ attached = {}
  /\ trust' \in {{st}} \cup {{st, u} : u \in TrustStatements}
  /\ UNCHANGED <<feed, principal, attached, identity, bound, boundary, cap, noted>>

IamNext ==
  \/ \E st \in IdentityStatements : ReadStatement(st)
  \/ \E st \in BoundaryStatements : AttachBoundary(st)
  \/ AttachUnreadBoundary
  \/ \E st \in TrustStatements : ReadTrust(st)

IamSpec == IamInit /\ [][IamNext]_iamVars

---------------------------------------------------------------------------
(***************************************************************************)
(* What AWS answers.                                                       *)
(***************************************************************************)

\* Some request is permitted the action on the resource: one that meets the
\* conditions of the Allows and none of the Denies'.
Satisfiable(docs, a, r) ==
  LET Names(st) == a \in Matched(st) /\ r \in st.covers
  IN /\ \E st \in docs : st.effect = "Allow" /\ Names(st)
     /\ ~\E st \in docs : st.effect = "Deny" /\ st.condition = "none" /\ Names(st)

\* The actions of some technique can each be performed on some resource.
CanEscalate ==
  \E t \in Techniques :
    /\ AppliesTo(t)
    /\ \A a \in t.needs : \E r \in Targets :
         Satisfiable(attached, a, r) /\ (Capped => Satisfiable(boundary, a, r))

\* A stranger is taken in: by name of everyone, or with a token of the issuer whose
\* subject every operator accepts.
StrangerAssumes ==
  /\ ~\E st \in trust : st.effect = "Deny" /\ st.condition = "none" /\ st.who = "everyone"
  /\ \E st \in trust :
       /\ st.effect = "Allow"
       /\ \/ st.who = "everyone"
          \/ st.who = "issuer" /\ st.webIdentity
               /\ \A patterns \in st.subjects : \E s \in patterns : s # "owner"

\* A Deny whose Resource has a wildcard is taken for one over the whole account.
WildDeny == \E st \in attached \cup boundary : st.effect = "Deny" /\ st.resource = "wild"

\* An AWS policy the plan's feed has no text of.
SilentlyUnread == feed = "plan" /\ \E st \in attached : st.document = "awsOther"

---------------------------------------------------------------------------
(***************************************************************************)
(* Properties.                                                             *)
(***************************************************************************)

\* The collector errs toward reporting: whenever some request would let the
\* principal escalate, an edge to account-admin is drawn or the feed says that
\* something could not be read, and whenever a stranger can assume the role there
\* is a way in.  Left aside are a Deny on a partial wildcard and AWS policies a
\* plan has no text of (allowedActions, capByBoundary, detectPrivesc,
\* trustsEveryone, federatedTrusts).
NothingIsMissed ==
  /\ CanEscalate /\ ~WildDeny /\ ~SilentlyUnread => Escalation > 0 \/ noted
  /\ StrangerAssumes => EntryByTrust

\* One more Allow never lowers the score, and neither a Deny nor a boundary ever
\* raises it, although every part of the score is a vote over the techniques that
\* match (escalation, noteBoundary, noteCondition).
ScoreFollowsThePermissions ==
  /\ (\A st \in attached' \ attached : st.effect = "Allow") /\ bound' = bound /\ boundary' = boundary
       => Escalation' >= Escalation
  /\ (\A st \in attached' \ attached : st.effect = "Deny")
       /\ (boundary' # boundary => boundary = {} \/ \A st \in boundary' \ boundary : st.effect = "Deny")
       => Escalation' <= Escalation

\* Nothing is missed, and each statement moves the score the way it moves the permissions.
ScoresAreSound == [][NothingIsMissed' /\ ScoreFollowsThePermissions]_iamVars

\* What the package comment says of its simplifications: "Each of these errs toward
\* reporting an escalation rather than missing one".
ErrsTowardReporting == feed = "live" /\ CanEscalate => Escalation > 0
=============================================================================
