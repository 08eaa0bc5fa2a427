-------------------------- MODULE EscalationAudit --------------------------
(***************************************************************************)
(* The red-team harness: what the engine claims of a principal is put to   *)
(* AWS's own policy simulation.  An answer is kept, a failed call is not;  *)
(* a path's verdict is made of its hops' answers, the audit counts the     *)
(* settled escalation claims, and -compare grades the engine against AWS.  *)
(***************************************************************************)
EXTENDS IamAccess

CONSTANTS
  ScpDenies,    \* what a service control policy may deny; the engine reads none
  MaxAsks,      \* bound: questions put to the oracle
  MaxBlips      \* bound: simulations that fail

VARIABLES
  scp,      \* the actions the organisation denies
  memo,     \* resource -> the oracle's settled answer
  record,   \* the verdict on a path, and its escalation hop's answer
  tally,    \* the audit of the escalation claims
  graded,   \* the engine's claim next to AWS's answer
  asks, blips

auditingVars == <<scp, memo, record, tally, graded, asks, blips>>

Anywhere == "*"   \* a simulation that names no resource

EscalationAuditInit ==
  /\ IamInit
  /\ scp \in ScpDenies
  /\ memo = [r \in {} |-> ""]
  /\ record = [outcome |-> "none", settled |-> ""]
  /\ tally = [confirmed |-> 0, refuted |-> 0, unsettled |-> 0]
  /\ graded = "none"
  /\ asks = 0 /\ blips = 0

---------------------------------------------------------------------------
(***************************************************************************)
(* SimulatePrincipalPolicy, given no request context: a condition on a key *)
(* is not met and the key is reported missing; an IfExists one is met.  A  *)
(* permit that no condition touches is reported clean.                     *)
(***************************************************************************)

Simulated(docs, a, r) ==
  LET Applies(st) == /\ a \in Matched(st)
                     /\ r \in st.covers \/ (r = Anywhere /\ st.resource \in {"star", "not"})
                     /\ st.condition \in {"none", "ifexists"}
  IN /\ \E st \in docs : st.effect = "Allow" /\ Applies(st)
     /\ ~\E st \in docs : st.effect = "Deny" /\ Applies(st)

Documents == attached \cup boundary
KeysAbout(a) == \E st \in Documents : st.condition = "key" /\ st.effect = "Deny" /\ a \in Matched(st)

Decision(a, r) == a \notin scp /\ Simulated(attached, a, r) /\ (bound = "read" => Simulated(boundary, a, r))
MissingContext(a, r) == IF Decision(a, r) THEN KeysAbout(a) ELSE \E st \in Documents : st.condition = "key"

---------------------------------------------------------------------------
(***************************************************************************)
(* The oracle.                                                             *)
(***************************************************************************)

EvaluatedAllowed(a, r) == Decision(a, r) /\ ~MissingContext(a, r)

Asked == UNION {t.needs : t \in {u \in Techniques : AppliesTo(u)}}

\* Fault: a decision is read without the context it lacked.
CheckEscalationDespiteContext(r) ==
  IF \E t \in Techniques : AppliesTo(t) /\ \A a \in t.needs : EvaluatedAllowed(a, r) THEN "allowed"
  ELSE "denied"

\* Some technique holds outright; or AWS lacked context, which is no refusal.
CheckEscalation(r) ==
  IF \E t \in Techniques : AppliesTo(t) /\ \A a \in t.needs : EvaluatedAllowed(a, r) THEN "allowed"
  ELSE IF \E a \in Asked : MissingContext(a, r) THEN "inconclusive"
  ELSE "denied"

\* An answer from the memo, from AWS, or none because the call failed.
Answer(r, fails) ==
  IF r \in DOMAIN memo THEN memo[r] ELSE IF fails THEN "inconclusive" ELSE CheckEscalation(r)

\* Check: only what was settled is kept.
Check(r, fails) ==
  /\ asks < MaxAsks /\ asks' = asks + 1
  /\ fails => blips < MaxBlips /\ r \notin DOMAIN memo
  /\ blips' = blips + (IF fails THEN 1 ELSE 0)
  /\ memo' = IF Answer(r, fails) = "inconclusive" THEN memo
             ELSE [x \in DOMAIN memo \cup {r} |-> IF x = r THEN Answer(r, fails) ELSE memo[x]]

---------------------------------------------------------------------------
(***************************************************************************)
(* What is made of the answers.                                            *)
(***************************************************************************)

\* A path's other hops: none, a hop of the network or an exploit, which no policy
\* settles, or a role assumed, which AWS allows, denies or cannot tell.
OtherHops == {"none", "untestable", "allowed", "denied", "inconclusive"}

Aggregate(escalation, other) ==
  IF "denied" \in {escalation, other} THEN "refuted"
  ELSE IF escalation = "allowed" /\ other \in {"none", "allowed"} THEN "confirmed"
  ELSE "partial"

\* AuditEscalations counts every claim, settled or not; a claim whose principal the
\* graph has no ARN of is not put to AWS.
Counted(escalation) ==
  [confirmed |-> tally.confirmed + (IF escalation = "allowed" THEN 1 ELSE 0),
   refuted |-> tally.refuted + (IF escalation = "denied" THEN 1 ELSE 0),
   unsettled |-> tally.unsettled + (IF escalation \in {"allowed", "denied"} THEN 0 ELSE 1)]

\* Attempt and AuditEscalations, of a path that ends in this principal's claim.
AttemptPath(named, other, fails) ==
  /\ Escalates
  /\ named \/ ~fails
  /\ IF named THEN Check(Anywhere, fails) ELSE UNCHANGED <<memo, blips>> /\ asks < MaxAsks /\ asks' = asks + 1
  /\ LET e == IF named THEN Answer(Anywhere, fails) ELSE "untestable" IN
       /\ record' = [outcome |-> Aggregate(e, other), settled |-> e]
       /\ tally' = Counted(e)
  /\ UNCHANGED <<iamVars, scp, graded>>

\* grade: not collected, unsettled, a question the engine was not asked, or a verdict.
Grade(collected, d) ==
  IF \/ ~collected \/ d = "inconclusive"
     \/ ResourceScoped /\ d = "denied"
     \/ DenyUnevaluated /\ d = "denied"
  THEN "unsettled"
  ELSE IF Escalates = (d = "allowed") THEN "agree" ELSE "disagree"

CompareEngineToAWS(collected, fails) ==
  /\ Check(Anywhere, fails)
  /\ graded' = Grade(collected, Answer(Anywhere, fails))
  /\ UNCHANGED <<iamVars, scp, record, tally>>

\* redteam -resource.
SettleOver(r, fails) ==
  /\ Check(r, fails)
  /\ UNCHANGED <<iamVars, scp, record, tally, graded>>

EscalationAuditNext ==
  \/ asks = 0 /\ IamNext /\ UNCHANGED auditingVars
  \/ \E fails \in BOOLEAN :
       \/ \E named \in BOOLEAN, other \in OtherHops : AttemptPath(named, other, fails)
       \/ \E collected \in BOOLEAN : CompareEngineToAWS(collected, fails)
       \/ \E r \in Targets : SettleOver(r, fails)

EscalationAuditSpec == EscalationAuditInit /\ [][EscalationAuditNext]_<<iamVars, auditingVars>>

---------------------------------------------------------------------------
(***************************************************************************)
(* Properties.                                                             *)
(***************************************************************************)

\* What AWS permits some request over the whole account, or over a resource.
PermittedOver(r) ==
  LET Names(st, a) == a \in Matched(st) /\ (r \in st.covers \/ (r = Anywhere /\ st.resource \in {"star", "not"}))
      May(docs, a) == /\ \E st \in docs : st.effect = "Allow" /\ Names(st, a)
                      /\ ~\E st \in docs : st.effect = "Deny" /\ st.condition = "none" /\ Names(st, a)
  IN \E t \in Techniques :
       /\ AppliesTo(t)
       /\ \A a \in t.needs : a \notin scp /\ May(attached, a) /\ (bound = "read" => May(boundary, a))

NoIfExists == \A st \in Documents : st.condition # "ifexists"

\* Whatever the harness keeps of an answer is reality's: a refusal in the memo, and
\* the record of a path refuted by its escalation hop, mean that no request is
\* permitted a technique there, a permit means that one is; a call that failed, a
\* principal without an ARN and a condition nobody supplied leave no such trace.
\* An IfExists condition, which the simulation takes for met, is left aside
\* (AWSOracle.Check, checkEscalation, Attempt, AuditEscalations).
AnswersAreReality ==
  /\ \A r \in DOMAIN memo :
       /\ memo[r] = "allowed" => PermittedOver(r)
       /\ memo[r] = "denied" /\ NoIfExists => ~PermittedOver(r)
  /\ record.settled \in {"allowed", "denied"} => record.settled = memo[Anywhere]
  /\ tally.confirmed > 0 => PermittedOver(Anywhere)
  /\ tally.refuted > 0 /\ NoIfExists => ~PermittedOver(Anywhere)

\* What compareEngineToAWS says of a disagreement: "a real finding either way - the
\* engine over-reporting (a false positive) or under-reporting (a miss)".  An
\* escalation the engine claims and AWS is said to refuse is none.
DisagreementsAreReal ==
  graded = "disagree" /\ Escalates => ~(CanEscalate /\ \A t \in Techniques : t.needs \cap scp = {})
=============================================================================
