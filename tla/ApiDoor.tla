------------------------------ MODULE ApiDoor ------------------------------
(***************************************************************************)
(* The door of the API: RequireRole on every replica.  An address that     *)
(* presented too many wrong credentials is locked out for a while, in the  *)
(* memory of the replica that saw it and, through a table each replica     *)
(* reads now and then, everywhere; credentials are static tokens, or JWTs  *)
(* under keys fetched from the identity provider; no credential may be a   *)
(* role of its own.                                                        *)
(***************************************************************************)
EXTENDS Integers, FiniteSets, Sequences

CONSTANTS
  Procs,          \* replicas
  Requesters,     \* requests handled at once
  Addresses,      \* what clientip resolves requests to
  Credentials,    \* what requests present: see Authenticate
  Tokens,         \* static token -> its role and the time it expires
  GroupRoles,     \* directory group -> role
  DefaultRole,    \* the role of a JWT that names none
  AnonymousRole,  \* the role of a request without a credential
  RequireTenant,  \* a JWT must name a tenant
  MinRole,        \* what the route asks for
  Threshold, Window, Cooldown, MaxKeys,  \* of the lockout
  RefreshEvery,   \* how long a replica's view of the table is used
  JwksTTL, MinRefetch,
  SigningKeys,    \* the keys of the identity provider, in any order
  MaxDoorTime,    \* bound: ticks
  MaxCalls,       \* bound: requests
  MaxOutages      \* bound: failing calls and restarts

ASSUME AccessAssumption ==
  /\ Cooldown \in Nat /\ RefreshEvery \in Nat /\ JwksTTL \in Nat /\ MinRefetch \in Nat
  /\ MinRole \in Nat \ {0}

VARIABLES
  failures,    \* replica -> address -> when it failed, inside the window
  alerted,     \* replica -> address -> when it was last locked out
  sweptAt,     \* replica -> when its failures were last swept
  lockouts,    \* the table: address -> locked until
  view, viewedAt,   \* replica -> its copy of the table, and when it was taken
  published,   \* the keys the provider publishes
  withdrawn,   \* key -> when it was withdrawn (observation only)
  keys, keysAt,     \* replica -> the keys it holds, and when it fetched them
  call,        \* request -> where it is
  verdict,     \* the last answer of Authenticate's door (observation only)
  clock, calls, outages

doorVars == <<failures, alerted, sweptAt, lockouts, view, viewedAt, published, withdrawn, keys, keysAt,
              call, verdict, clock, calls, outages>>
watchVars == <<failures, alerted, sweptAt>>
viewVars == <<view, viewedAt>>
keyVars == <<published, withdrawn, keys, keysAt>>

None == -1
NoFailures == [a \in Addresses |-> << >>]
NoTimes == [a \in Addresses |-> None]
Waiting == [at |-> "idle"]
Unasked == [answer |-> "none"]

DoorInit ==
  /\ failures = [p \in Procs |-> NoFailures]
  /\ alerted = [p \in Procs |-> NoTimes]
  /\ sweptAt = [p \in Procs |-> 0]
  /\ lockouts = NoTimes
  /\ view = [p \in Procs |-> NoTimes] /\ viewedAt = [p \in Procs |-> 0]
  /\ published \in {{k} : k \in SigningKeys}
  /\ withdrawn = [k \in SigningKeys |-> None]
  /\ keys = [p \in Procs |-> {}] /\ keysAt = [p \in Procs |-> None]
  /\ call = [c \in Requesters |-> Waiting]
  /\ verdict = Unasked
  /\ clock = 0 /\ calls = 0 /\ outages = 0

Outage == outages < MaxOutages /\ outages' = outages + 1
NoOutage == UNCHANGED outages

---------------------------------------------------------------------------
(***************************************************************************)
(* Watcher.Observe: a wrong credential counts against its address.         *)
(***************************************************************************)

Recent(evs) == SelectSeq(evs, LAMBDA t : t > clock - Window)

Held(evs) == {a \in Addresses : evs[a] # << >>}

\* sweepLocked: addresses with nothing inside the window, alerts past their cooldown.
Swept(evs) == [a \in Addresses |-> IF Recent(evs[a]) = << >> THEN << >> ELSE evs[a]]
Cooled(alerts) == [a \in Addresses |-> IF alerts[a] # None /\ clock - alerts[a] >= Cooldown THEN None ELSE alerts[a]]

\* evictOldestLocked: the least recently seen go, lockouts included; ties fall any way.
Evictable(evs) ==
  {s \in SUBSET Held(evs) :
     /\ Cardinality(s) = Cardinality(Held(evs)) - (MaxKeys * 3) \div 4
     /\ \A a \in s, b \in Held(evs) \ s : evs[a][Len(evs[a])] <= evs[b][Len(evs[b])]}

Forgotten(f, s, nothing) == [a \in Addresses |-> IF a \in s THEN nothing ELSE f[a]]

\* One failure of a, of request c on replica p.  A trip goes on to the table.
Observe(c, p, a) ==
  LET counted == [failures[p] EXCEPT ![a] = Append(Recent(@), clock)]
      sweeps == clock - sweptAt[p] >= Window \/ Cardinality(Held(counted)) > MaxKeys
      tidy == IF sweeps THEN Swept(counted) ELSE counted
      cooled == IF sweeps THEN Cooled(alerted[p]) ELSE alerted[p]
  IN \E s \in IF Cardinality(Held(tidy)) > MaxKeys THEN Evictable(tidy) ELSE {{}} :
       LET left == Forgotten(cooled, s, None)
           trips == Len(counted[a]) >= Threshold /\ (left[a] = None \/ clock - left[a] >= Cooldown)
       IN /\ failures' = [failures EXCEPT ![p] = Forgotten(tidy, s, << >>)]
          /\ alerted' = [alerted EXCEPT ![p] = IF trips THEN [left EXCEPT ![a] = clock] ELSE left]
          /\ sweptAt' = [sweptAt EXCEPT ![p] = IF sweeps THEN clock ELSE @]
          /\ call' = [call EXCEPT ![c] =
               IF trips THEN [at |-> "trip", proc |-> p, addr |-> a, until |-> clock + Cooldown] ELSE Waiting]

\* A trip is written while the watcher is locked.
WatcherFree(p) == \A c \in Requesters : call[c].at \in {"trip", "remember"} => call[c].proc # p

---------------------------------------------------------------------------
(***************************************************************************)
(* PGTrips: the table, and a replica's view of it.                         *)
(***************************************************************************)

\* An unreachable table leaves the lockout to this replica's memory.
PersistTrip(c) ==
  /\ call[c].at = "trip"
  /\ \/ /\ lockouts' = [lockouts EXCEPT ![call[c].addr] = IF call[c].until > @ THEN call[c].until ELSE @]
        /\ call' = [call EXCEPT ![c] = [at |-> "remember", proc |-> @.proc, addr |-> @.addr, until |-> @.until]]
        /\ NoOutage
     \/ Outage /\ call' = [call EXCEPT ![c] = Waiting] /\ UNCHANGED lockouts
  /\ UNCHANGED <<watchVars, viewVars, keyVars, verdict, clock, calls>>

RememberTrip(c) ==
  /\ call[c].at = "remember"
  /\ view' = [view EXCEPT ![call[c].proc][call[c].addr] = IF call[c].until > @ THEN call[c].until ELSE @]
  /\ call' = [call EXCEPT ![c] = Waiting]
  /\ UNCHANGED <<watchVars, lockouts, viewedAt, keyVars, verdict, clock, calls, outages>>

Expired(rows) == {a \in Addresses : rows[a] # None /\ rows[a] < clock}

\* A lockout in force according to a view; None is before every time.
LockedIn(rows, a) == clock < rows[a]

Proceeds(c, rows) ==
  call' = [call EXCEPT ![c] =
    IF LockedIn(rows, @.addr) THEN Waiting
    ELSE [at |-> "authenticate", proc |-> @.proc, addr |-> @.addr, cred |-> @.cred]]

\* Fault: a failed refresh counts as one.
ConsultRefreshingAnyhow(c) ==
  /\ call[c].at = "store"
  /\ LET p == call[c].proc IN
       \/ clock - viewedAt[p] <= RefreshEvery /\ Proceeds(c, view[p]) /\ NoOutage /\ UNCHANGED <<lockouts, viewedAt>>
       \/ clock - viewedAt[p] > RefreshEvery /\ Outage /\ Proceeds(c, view[p])
            /\ viewedAt' = [viewedAt EXCEPT ![p] = clock] /\ UNCHANGED lockouts
  /\ UNCHANGED <<watchVars, view, keyVars, verdict, clock, calls>>

\* Locked: from the view, or from a fresh one when it has aged; a refresh that fails
\* leaves the view in use.
Consult(c) ==
  /\ call[c].at = "store"
  /\ LET p == call[c].proc IN
       \/ clock - viewedAt[p] <= RefreshEvery /\ Proceeds(c, view[p]) /\ NoOutage /\ UNCHANGED lockouts
       \/ clock - viewedAt[p] > RefreshEvery /\ Outage /\ Proceeds(c, view[p]) /\ UNCHANGED lockouts
       \/ /\ clock - viewedAt[p] > RefreshEvery /\ NoOutage
          /\ lockouts' = Forgotten(lockouts, Expired(lockouts), None)
          /\ call' = [call EXCEPT ![c] = [at |-> "selected", proc |-> p, addr |-> call[c].addr,
                                          cred |-> call[c].cred, rows |-> lockouts']]
  /\ UNCHANGED <<watchVars, viewVars, keyVars, verdict, clock, calls>>

\* The rows read replace the view, and what was remembered meanwhile.
Refreshed(c) ==
  /\ call[c].at = "selected"
  /\ view' = [view EXCEPT ![call[c].proc] = call[c].rows]
  /\ viewedAt' = [viewedAt EXCEPT ![call[c].proc] = clock]
  /\ Proceeds(c, call[c].rows)
  /\ UNCHANGED <<watchVars, lockouts, keyVars, verdict, clock, calls, outages>>

---------------------------------------------------------------------------
(***************************************************************************)
(* Authenticate.                                                           *)
(***************************************************************************)

Highest(roles) == CHOOSE r \in roles : \A s \in roles : s <= r

RoleFrom(cred) ==
  Highest({DefaultRole, cred.role} \cup {GroupRoles[g] : g \in cred.groups \cap DOMAIN GroupRoles})

\* The keys a JWT is verified against, when the provider had to be asked or not.
KeysAfter(p, fetched) ==
  CASE fetched = "failed" -> {}
    [] fetched = "ok" -> published
    [] OTHER -> IF clock - keysAt[p] > JwksTTL THEN {} ELSE keys[p]

HasKey(p, key) == keysAt[p] # None /\ clock - keysAt[p] <= JwksTTL /\ key \in keys[p]
FetchedRecently(p) == keys[p] # {} /\ clock - keysAt[p] <= MinRefetch

\* refreshOnce: a missing key is asked for, though not soon after the last fetch.
Fetches(p, cred) ==
  IF cred.kind # "jwt" \/ HasKey(p, cred.key) \/ FetchedRecently(p) THEN {"none"} ELSE {"ok", "failed"}

NoOne == [role |-> 0, who |-> "nobody"]

\* The chain: static tokens, JWTs, and nobody's role, which no credential falls back on.
Authenticated(p, cred, fetched) ==
  CASE cred.kind = "token" /\ cred.id \in DOMAIN Tokens /\ clock < Tokens[cred.id].expiry ->
         [role |-> Tokens[cred.id].role, who |-> "token"]
    [] cred.kind = "jwt" /\ cred.key \in KeysAfter(p, fetched) /\ (RequireTenant => cred.tenant) ->
         [role |-> RoleFrom(cred), who |-> "jwt"]
    [] cred.kind = "none" /\ AnonymousRole > 0 -> [role |-> AnonymousRole, who |-> "anonymous"]
    [] OTHER -> NoOne

\* An address locked out in this replica's memory is turned away; the others are
\* looked up in the table.
Arrive(c, p, a, cred) ==
  /\ call[c] = Waiting /\ calls < MaxCalls
  /\ WatcherFree(p)
  /\ calls' = calls + 1
  /\ call' = [call EXCEPT ![c] =
       IF alerted[p][a] # None /\ clock - alerted[p][a] < Cooldown THEN Waiting
       ELSE [at |-> "store", proc |-> p, addr |-> a, cred |-> cred]]
  /\ UNCHANGED <<watchVars, lockouts, viewVars, keyVars, verdict, clock, outages>>

\* The rest of RequireRole: only a credential that was presented and refused counts
\* against its address; one with too small a role does not.
Enter(c) ==
  /\ call[c].at = "authenticate"
  /\ LET p == call[c].proc
         cred == call[c].cred
     IN \E fetched \in Fetches(p, cred) :
          LET got == Authenticated(p, cred, fetched) IN
            /\ IF fetched = "ok" THEN keys' = [keys EXCEPT ![p] = published] /\ keysAt' = [keysAt EXCEPT ![p] = clock]
               ELSE UNCHANGED <<keys, keysAt>>
            /\ IF fetched = "failed" THEN Outage ELSE NoOutage
            /\ verdict' = [answer |-> IF got.role >= MinRole THEN "admitted" ELSE "denied",
                           cred |-> cred, got |-> got, fetched |-> fetched, proc |-> p, time |-> clock]
            /\ IF got = NoOne /\ cred.kind # "none"
               THEN WatcherFree(p) /\ Observe(c, p, call[c].addr)
               ELSE call' = [call EXCEPT ![c] = Waiting] /\ UNCHANGED watchVars
  /\ UNCHANGED <<lockouts, viewVars, published, withdrawn, clock, calls>>

---------------------------------------------------------------------------
(***************************************************************************)
(* The world.                                                              *)
(***************************************************************************)

\* The provider signs with another key, keeping the old one or withdrawing it.
Rotate(k, keep) ==
  /\ k \notin published /\ withdrawn[k] = None
  /\ published' = IF keep THEN published \cup {k} ELSE {k}
  /\ withdrawn' = [j \in SigningKeys |-> IF j \in published \ published' THEN clock ELSE withdrawn[j]]
  /\ UNCHANGED <<watchVars, lockouts, viewVars, keys, keysAt, call, verdict, clock, calls, outages>>

\* A replica starts again: it counts from nothing, and reads the table before it serves.
RestartDoor(p) ==
  /\ Outage
  /\ failures' = [failures EXCEPT ![p] = NoFailures]
  /\ alerted' = [alerted EXCEPT ![p] = NoTimes]
  /\ sweptAt' = [sweptAt EXCEPT ![p] = clock]
  /\ lockouts' = Forgotten(lockouts, Expired(lockouts), None)
  /\ view' = [view EXCEPT ![p] = lockouts'] /\ viewedAt' = [viewedAt EXCEPT ![p] = clock]
  /\ keys' = [keys EXCEPT ![p] = {}] /\ keysAt' = [keysAt EXCEPT ![p] = None]
  /\ call' = [c \in Requesters |-> IF call[c] # Waiting /\ call[c].proc = p THEN Waiting ELSE call[c]]
  /\ UNCHANGED <<published, withdrawn, verdict, clock, calls>>

\* No request stays in the table's hands over a tick: its calls have short timeouts.
DoorTick ==
  /\ clock < MaxDoorTime
  /\ \A c \in Requesters : call[c].at \notin {"selected", "trip", "remember"}
  /\ clock' = clock + 1
  /\ UNCHANGED <<watchVars, lockouts, viewVars, keyVars, call, verdict, calls, outages>>

DoorNext ==
  \/ \E c \in Requesters :
       \/ \E p \in Procs, a \in Addresses, cred \in Credentials : Arrive(c, p, a, cred)
       \/ Consult(c) \/ Refreshed(c) \/ Enter(c) \/ PersistTrip(c) \/ RememberTrip(c)
  \/ \E k \in SigningKeys, keep \in BOOLEAN : Rotate(k, keep)
  \/ \E p \in Procs : RestartDoor(p)
  \/ DoorTick

DoorSpec == DoorInit /\ [][DoorNext]_doorVars

---------------------------------------------------------------------------
(***************************************************************************)
(* Properties.                                                             *)
(***************************************************************************)

\* A lockout in the table keeps its address out of every replica from RefreshEvery
\* after it was set, whichever replica set it, through restarts, evictions of the
\* counters and refreshes that race a trip; only a replica whose refreshes fail goes
\* by what it read before (PGTrips.Locked, Trip, refresh, Watcher.Tripped).
LockoutsSpread ==
  \A c \in Requesters :
    call[c].at # "authenticate" /\ call'[c].at = "authenticate" =>
      LET a == call[c].addr IN
        \/ lockouts'[a] <= clock
        \/ clock - (lockouts'[a] - Cooldown) <= RefreshEvery
        \/ clock - viewedAt'[call[c].proc] > RefreshEvery

\* Whoever is let in holds something that grants it: a token that has not expired, a
\* JWT under a key the provider still published when the keys in use were young, or,
\* presenting nothing, the role of everyone; a refused credential is never taken for
\* none.  And a JWT under a published key is refused only for its claims, soon after
\* the last fetch, or because the provider is out of reach (Chain, TokenStore,
\* JWTAuthenticator, jwksCache, Anonymous).
CredentialsCount ==
  LET v == verdict
      c == v.cred
  IN v # Unasked =>
       /\ v.answer = "admitted" =>
            \/ c.kind = "token" /\ c.id \in DOMAIN Tokens /\ v.time < Tokens[c.id].expiry
                 /\ v.got.role = Tokens[c.id].role
            \/ c.kind = "jwt" /\ (withdrawn[c.key] = None \/ v.time - withdrawn[c.key] <= JwksTTL)
                 /\ v.got.role = RoleFrom(c)
            \/ c.kind = "none" /\ v.got.role = AnonymousRole
       /\ v.answer = "denied" /\ c.kind = "jwt" /\ c.key \in published /\ RoleFrom(c) >= MinRole =>
            \/ RequireTenant /\ ~c.tenant
            \/ v.fetched = "failed"
            \/ v.time - keysAt[v.proc] <= MinRefetch
            \/ v.time < clock \/ keysAt[v.proc] = None

\* Nobody is let in without a reason, and nobody locked out anywhere is let try
\* elsewhere for long (RequireRole).
DoorIsKept == [][CredentialsCount' /\ LockoutsSpread]_doorVars
=============================================================================
