---------------------------- MODULE RateLimiter ----------------------------
(***************************************************************************)
(* The limiter in front of the ingestion endpoint and the API: one token   *)
(* bucket per address, as many as a table holds, and one for the rest.     *)
(***************************************************************************)
EXTENDS Integers, FiniteSets, Sequences

CONSTANTS
  Clients,        \* what clientip resolves requests to
  Rate,           \* tokens a tick
  PerRequest,     \* tokens a request costs
  Burst, BucketTTL, MaxClients,
  MaxLimiterTime, \* bound: ticks
  MaxRequests     \* bound: requests

\* New is called with a burst of at least one request, and ten minutes of any rate in
\* use refill a bucket: an idle one that is dropped is full.
ASSUME LimiterAssumption ==
  /\ Rate \in Nat /\ PerRequest \in Nat /\ Burst \in Nat /\ BucketTTL \in Nat /\ MaxClients \in Nat
  /\ Burst >= PerRequest /\ Rate * BucketTTL >= Burst

VARIABLES
  buckets,      \* address -> its bucket, for those in the table
  overflow,     \* the bucket of the others
  lastGC,
  admitted,     \* admissions on an address's own bucket (observation only)
  limiterClock, requests

limiterVars == <<buckets, overflow, lastGC, admitted, limiterClock, requests>>

FullBucket == [tokens |-> Burst, last |-> limiterClock, used |-> limiterClock]

LimiterInit ==
  /\ limiterClock = 0 /\ requests = 0
  /\ buckets = << >> /\ overflow = FullBucket /\ lastGC = 0
  /\ admitted = << >>

---------------------------------------------------------------------------
\* A bucket (golang.org/x/time/rate) fills with time up to its burst.
Filled(b) ==
  LET tokens == b.tokens + Rate * (limiterClock - b.last)
  IN [tokens |-> IF tokens > Burst THEN Burst ELSE tokens, last |-> limiterClock, used |-> b.used]

Has(b) == Filled(b).tokens >= PerRequest
Drawn(b) == IF Has(b) THEN [Filled(b) EXCEPT !.tokens = @ - PerRequest] ELSE b

GCDue == limiterClock - lastGC > BucketTTL

\* The buckets a sweep leaves: the rest have been idle for long.
Kept == [a \in {c \in DOMAIN buckets : GCDue => limiterClock - buckets[c].used <= BucketTTL} |-> buckets[a]]

\* Fault: the table takes one address more.
FullPastTheCap(table) == Cardinality(DOMAIN table) > MaxClients

Full(table) == Cardinality(DOMAIN table) >= MaxClients

\* A new address is given a bucket while there is room, and shares one otherwise.
Allow(a) ==
  /\ requests < MaxRequests /\ requests' = requests + 1
  /\ UNCHANGED limiterClock
  /\ LET shared == a \notin DOMAIN Kept /\ Full(Kept)
         own == IF a \in DOMAIN Kept THEN Kept[a] ELSE FullBucket
     IN /\ lastGC' = IF GCDue THEN limiterClock ELSE lastGC
        /\ IF shared
           THEN buckets' = Kept /\ overflow' = Drawn(overflow) /\ UNCHANGED admitted
           ELSE /\ buckets' = [c \in DOMAIN Kept \cup {a} |->
                                 IF c = a THEN [Drawn(own) EXCEPT !.used = limiterClock] ELSE Kept[c]]
                /\ admitted' = IF Has(own) THEN Append(admitted, [addr |-> a, at |-> limiterClock]) ELSE admitted
                /\ UNCHANGED overflow

LimiterTick ==
  /\ limiterClock < MaxLimiterTime /\ limiterClock' = limiterClock + 1
  /\ UNCHANGED <<buckets, overflow, lastGC, admitted, requests>>

LimiterNext == LimiterTick \/ \E a \in Clients : Allow(a)

LimiterSpec == LimiterInit /\ [][LimiterNext]_limiterVars

---------------------------------------------------------------------------
(***************************************************************************)
(* Properties.                                                             *)
(***************************************************************************)

\* No address is admitted faster on its own bucket than the budget says, over any
\* interval and through evictions from the table, which never outgrows its cap
\* (Limiter.allow).
BudgetsHold ==
  /\ Cardinality(DOMAIN buckets) <= MaxClients
  /\ \A i, j \in DOMAIN admitted :
       i <= j /\ admitted[i].addr = admitted[j].addr =>
         LET between == {k \in i..j : admitted[k].addr = admitted[i].addr}
         IN PerRequest * Cardinality(between) <= Burst + Rate * (admitted[j].at - admitted[i].at)
=============================================================================
