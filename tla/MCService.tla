------------------------------ MODULE MCService ----------------------------
(***************************************************************************)
(* Small instances of what stands around the graph: who is let in, what a  *)
(* signed request counts for, how often anyone may ask, the merge gate,    *)
(* the pull requests it comments on and opens, the pulls of a schedule,    *)
(* and the threat feeds.  A behaviour is of one of them, and leaves the    *)
(* others' variables alone.                                                *)
(***************************************************************************)
EXTENDS ApiDoor, IngestDoor, RateLimiter, MergeGate, PullRequests, Collection, ThreatIntel, TLC

CONSTANTS
  Subjects,   \* which of "lockouts", "keys", "signatures", "limiter", "gate", "forge",
              \* "pulls" and "intel" are run
  p1, p2,     \* processes of the API
  x1, x2,     \* addresses
  k1, k2      \* signing keys of the identity provider

VARIABLE subject

vars == <<doorVars, postVars, limiterVars, gateVars, forgeVars, pullVars, intelVars, subject>>

\* No two processes, and no two addresses, are told apart.
Alike == Permutations({p1, p2}) \cup Permutations({x1, x2})

---------------------------------------------------------------------------
(***************************************************************************)
(* The API: no credential, a token and a wrong one, and JWTs signed with a *)
(* published key and with one to come.  A behaviour is about failed logins *)
(* or about keys, one process then and one request at a time.              *)
(***************************************************************************)

Tokens1 == [t |-> [role |-> 2, expiry |-> 2]]
Groups1 == [g |-> 3]
Jwt(key, groups, tenant) == [kind |-> "jwt", key |-> key, role |-> 0, groups |-> groups, tenant |-> tenant]
Presented ==
  {[kind |-> "none"], [kind |-> "token", id |-> "t"], [kind |-> "token", id |-> "wrong"],
   Jwt(k1, {"g"}, TRUE), Jwt(k2, {"g"}, TRUE), Jwt(k2, {}, TRUE), Jwt(k2, {"g"}, FALSE)}

LockoutsNext ==
  /\ DoorNext
  /\ published' = published
  /\ \A c \in Requesters : call'[c].at = "store" => call'[c].cred = [kind |-> "token", id |-> "wrong"]

KeysNext ==
  /\ DoorNext
  /\ \A c \in Requesters : call'[c].at = "store" => call'[c].cred.kind = "jwt"
  /\ Cardinality({c \in Requesters : call'[c] # Waiting}) <= 1
  /\ Cardinality({p \in Procs : keysAt'[p] # None \/ failures'[p] # NoFailures \/ viewedAt'[p] > 0}) <= 1
  /\ \A c \in Requesters : call'[c].at = "store" => alerted = [p \in Procs |-> NoTimes]

---------------------------------------------------------------------------
(***************************************************************************)
(* Two senders of one report, one of them with a clock that is fast.       *)
(***************************************************************************)

Posted(name, readable) ==
  [name |-> name, source |-> "trivy", known |-> TRUE, readable |-> readable, vocabulary |-> TRUE, large |-> FALSE,
   pr |-> FALSE, param |-> ""]
Reports == [s1 |-> Posted("a", TRUE), s2 |-> Posted("a", TRUE)]
Skews == [s1 |-> 2, s2 |-> 0]
Signings == [s1 |-> "v2", s2 |-> "v2"]

---------------------------------------------------------------------------
(***************************************************************************)
(* The gate on engines that compare, that cannot, that track no batches,   *)
(* with no report to send, and on its own.                                 *)
(***************************************************************************)

ByCommit ==
  [attribution |-> "commit", report |-> TRUE, compares |-> TRUE, tracked |-> TRUE, persist |-> FALSE, local |-> FALSE,
   unknown |-> FALSE, allowUnknown |-> FALSE]
ByDiff == [ByCommit EXCEPT !.attribution = "diff"]
WaysToGate ==
  {ByCommit, [ByDiff EXCEPT !.persist = TRUE], [ByDiff EXCEPT !.compares = FALSE], [ByCommit EXCEPT !.tracked = FALSE],
   [ByCommit EXCEPT !.report = FALSE], [ByDiff EXCEPT !.local = TRUE],
   [ByCommit EXCEPT !.local = TRUE, !.unknown = TRUE], [ByDiff EXCEPT !.unknown = TRUE, !.allowUnknown = TRUE]}

\* The route is all of the report or none of it; before an engine that compares nothing or
\* tracks no batches, there is one.  A gate that has answered is done.
SomeGate ==
  /\ GateInit
  /\ route \in {{}, Messages}
  /\ ~setting.tracked \/ ~setting.compares => leg /\ route = Messages
OneGate == GateNext /\ gate.at # "exit"

---------------------------------------------------------------------------
(***************************************************************************)
(* Two requests for a fix, of two files and of one; the feeds of four      *)
(* connectors; and what a score lifts.                                     *)
(***************************************************************************)

Fixes == [q1 |-> {"f", "g"}, q2 |-> {"h"}]

Feeds == <<"net", "eks", "k8s", "az">>
FeedConnector == [net |-> "aws", eks |-> "aws", k8s |-> "kubernetes", az |-> "azure"]
FeedKinds == [net |-> {"sg", "lb"}, eks |-> {"pid"}, k8s |-> {"pod", "sa"}, az |-> {"vnet"}]
FeedItems == [sg |-> {"g1"}, lb |-> {"l1"}, pid |-> {"a1"}, pod |-> {"p1"}, sa |-> {"s1"}, vnet |-> {}]

\* One of the engines takes the scans; the holdout runs on both.
OneScans == IntelNext /\ \A r \in Engines \ {"e1"} : asker'[r]["normalizer"] = Idling

Lifts == [level \in {0, 50} |-> IF level = 50 THEN 60 ELSE 0]

---------------------------------------------------------------------------

DoorIdle ==
  /\ failures = [p \in Procs |-> NoFailures] /\ alerted = [p \in Procs |-> NoTimes] /\ sweptAt = [p \in Procs |-> 0]
  /\ lockouts = NoTimes /\ view = [p \in Procs |-> NoTimes] /\ viewedAt = [p \in Procs |-> 0]
  /\ published = {k1} /\ withdrawn = [k \in SigningKeys |-> None]
  /\ keys = [p \in Procs |-> {}] /\ keysAt = [p \in Procs |-> None]
  /\ call = [c \in Requesters |-> Waiting] /\ verdict = Unasked /\ clock = 0 /\ calls = 0 /\ outages = 0
GateIdle ==
  /\ setting = ByCommit /\ route = {} /\ leg = FALSE
  /\ inFlight = {} /\ applied = {} /\ marked = [m \in Messages |-> Never]
  /\ reading = [r \in Replicas |-> NoPass] /\ latest = [r \in Replicas |-> NoPass]
  /\ gate = [at |-> "start"] /\ answer = NoAnswer /\ gateClock = 0 /\ lapses = 0
ForgeIdle ==
  /\ says = [p \in CommentedPaths |-> ""] /\ comments = << >> /\ leads = ""
  /\ landed = [r \in Commenters |-> [p \in CommentedPaths |-> ""]] /\ post = [r \in Commenters |-> Nothing]
  /\ shown = [p \in CommentedPaths |-> {}] /\ excused = FALSE /\ branch = NoBranch /\ opened = {}
  /\ fix = [q \in FixRequests |-> [at |-> "none"]] /\ chat = 0 /\ reposts = 0 /\ forgeFaults = 0
PullsIdle ==
  /\ world = {} /\ lead = "" /\ account = [r \in Collectors |-> "unasked"] /\ pull = [r \in Collectors |-> Resting]
  /\ missed = [r \in Collectors |-> {}] /\ unread = [r \in Collectors |-> {}]
  /\ held = {} /\ health = [r \in Collectors |-> [c \in ConnectorsRun |-> "never"]]
  /\ pulls = 0 /\ moves = 0 /\ mishaps = 0
IntelIdle ==
  /\ intelClock = 1 /\ news = 0 /\ asks = 0 /\ feedsDown = 0
  /\ listed = [c \in Vulns |-> 0] /\ scores = [c \in Vulns |-> 0]
  /\ kev = [r \in Engines |-> [of |-> {}, got |-> 0]]
  /\ epss = [r \in Engines |-> [c \in Vulns |-> 0]] /\ epssAt = [r \in Engines |-> [c \in Vulns |-> 0]]
  /\ asker = [r \in Engines |-> [p \in Callers |-> Idling]] /\ edges = [c \in Vulns |-> NoEdge]
  /\ store = "file" /\ sealed = {} /\ disk = {} /\ graded = {}

ServiceInit ==
  /\ subject \in Subjects
  /\ IF subject \in {"lockouts", "keys"} THEN DoorInit /\ published = {k1} ELSE DoorIdle
  /\ PostInit
  /\ LimiterInit
  /\ IF subject = "gate" THEN SomeGate ELSE GateIdle
  /\ IF subject = "forge" THEN ForgeInit ELSE ForgeIdle
  /\ IF subject = "pulls" THEN CollectionInit ELSE PullsIdle
  /\ IF subject = "intel" THEN IntelInit ELSE IntelIdle

ServiceNext ==
  /\ UNCHANGED subject
  /\ \/ /\ \/ subject = "lockouts" /\ LockoutsNext
           \/ subject = "keys" /\ KeysNext
        /\ UNCHANGED <<postVars, limiterVars, gateVars, forgeVars, pullVars, intelVars>>
     \/ subject = "signatures" /\ PostNext /\ UNCHANGED <<doorVars, limiterVars, gateVars, forgeVars, pullVars, intelVars>>
     \/ subject = "limiter" /\ LimiterNext /\ UNCHANGED <<doorVars, postVars, gateVars, forgeVars, pullVars, intelVars>>
     \/ subject = "gate" /\ OneGate /\ UNCHANGED <<doorVars, postVars, limiterVars, forgeVars, pullVars, intelVars>>
     \/ subject = "forge" /\ ForgeNext /\ UNCHANGED <<doorVars, postVars, limiterVars, gateVars, pullVars, intelVars>>
     \/ subject = "pulls" /\ CollectionNext /\ UNCHANGED <<doorVars, postVars, limiterVars, gateVars, forgeVars, intelVars>>
     \/ subject = "intel" /\ OneScans /\ UNCHANGED <<doorVars, postVars, limiterVars, gateVars, forgeVars, pullVars>>

ServiceSpec == ServiceInit /\ [][ServiceNext]_vars
=============================================================================
