---------------------------- MODULE IngestDoor ----------------------------
(***************************************************************************)
(* The ingestion endpoint of one process and the senders that post to it:  *)
(* a budget per address (RateLimiter; here it refuses or not), a signature *)
(* that is accepted once, the collector, the snapshot declaration and the  *)
(* bus.  Senders sign each attempt anew; the network loses, delays and     *)
(* doubles requests and answers.                                           *)
(*                                                                         *)
(* The clock runs in half seconds; signatures carry whole seconds.         *)
(***************************************************************************)
EXTENDS Integers, FiniteSets, Sequences

CONSTANTS
  Senders,
  ReportOf,       \* sender -> what it posts: see Handled
  Skew,           \* sender -> its clock less the server's
  Signing,        \* sender -> "v2", "v1", or "wrong" with another secret
  AcceptV1,       \* INGEST_HMAC_ACCEPT_V1
  Handlers,       \* requests handled at once
  SignatureWindow, SweepEvery,
  Retries,
  MaxPostTime,    \* bound: ticks
  MaxDeliveries,  \* bound: requests that reach the endpoint
  MaxLosses       \* bound: refusals of the limiter, answers that do not arrive, failing publishes, restarts

ASSUME DoorAssumption ==
  Skew \in [Senders -> Int] /\ SignatureWindow \in Nat /\ SweepEvery \in Nat /\ Retries \in Nat

VARIABLES
  seen, seenSwept,             \* the signatures accepted, and until when each is kept
  handler,      \* handler -> the request it is at
  sender,       \* sender -> its attempt
  posted,       \* requests sent, any of which may arrive again
  takes,        \* acceptances of v2 signatures (observation only)
  refused,      \* the last refusal of a signature (observation only)
  postClock, deliveries, losses

postVars == <<seen, seenSwept, handler, sender, posted, takes, refused,
              postClock, deliveries, losses>>
signatureVars == <<seen, seenSwept, takes, refused>>

Seconds(t) == t \div 2
Signed(s) == [report |-> ReportOf[s], ts |-> Seconds(postClock + Skew[s]), with |-> Signing[s]]
Idle == [at |-> "idle"]

PostInit ==
  /\ seen = << >> /\ seenSwept = -SweepEvery - 1
  /\ handler = [h \in Handlers |-> Idle]
  /\ sender = [s \in Senders |-> [at |-> "sign", attempt |-> 0, wake |-> 0]]
  /\ posted = {}
  /\ takes = << >> /\ refused = [reason |-> "none"]
  /\ postClock = 0 /\ deliveries = 0 /\ losses = 0

Loses == losses < MaxLosses /\ losses' = losses + 1
Loss == UNCHANGED losses

---------------------------------------------------------------------------
(***************************************************************************)
(* The sender: perspectivegraph ingest.                                    *)
(***************************************************************************)

\* Each attempt is signed afresh.
SendReport(s) ==
  /\ sender[s].at = "sign" /\ postClock >= sender[s].wake
  /\ LET m == [from |-> s, attempt |-> sender[s].attempt, sig |-> Signed(s)] IN
       /\ posted' = posted \cup {m}
       /\ sender' = [sender EXCEPT ![s] = [at |-> "wait", attempt |-> @.attempt, request |-> m]]
  /\ UNCHANGED <<signatureVars, handler, postClock, deliveries, losses>>

\* Whole seconds, doubling up to eight.
Pause(attempt) ==
  CASE attempt = 0 -> 2 [] attempt = 1 -> 4 [] attempt = 2 -> 8 [] OTHER -> 16

Retryable(status) == status \in {429, 502, 0}

\* What a sender makes of an answer; 0 is none.
Answered(state, status) ==
  IF status = 202 THEN [at |-> "done", attempt |-> state.attempt]
  ELSE IF ~Retryable(status) \/ state.attempt >= Retries THEN [at |-> "failed", attempt |-> state.attempt]
  ELSE [at |-> "sign", attempt |-> state.attempt + 1, wake |-> postClock + Pause(state.attempt)]

\* The answer reaches the sender if it still waits for it.
Reply(m, status) ==
  sender' = [sender EXCEPT ![m.from] = IF @.at = "wait" /\ @.request = m THEN Answered(@, status) ELSE @]

TimesOut(s) ==
  /\ sender[s].at = "wait" /\ Loses
  /\ sender' = [sender EXCEPT ![s] = Answered(@, 0)]
  /\ UNCHANGED <<signatureVars, handler, posted, postClock, deliveries>>

---------------------------------------------------------------------------
(***************************************************************************)
(* HMACVerifier.Require.                                                   *)
(***************************************************************************)

\* Signatures that are turned away for what they are.
Refuses(sig, age) ==
  \/ sig.with = "wrong"
  \/ sig.with = "v1" /\ ~AcceptV1
  \/ sig.with = "v2" /\ (age > SignatureWindow \/ age < -SignatureWindow)

\* A request arrives, for the first time or again; its timestamp is judged by the
\* clock read here.
Deliver(h, m) ==
  /\ handler[h] = Idle /\ m \in posted /\ deliveries < MaxDeliveries
  /\ deliveries' = deliveries + 1
  /\ LET age == postClock - 2 * m.sig.ts
     IN \/ Loses /\ Reply(m, 429) /\ UNCHANGED handler
        \/ /\ Loss /\ Refuses(m.sig, age)
           /\ Reply(m, 401) /\ UNCHANGED handler
        \/ /\ Loss /\ ~Refuses(m.sig, age)
           /\ handler' = [handler EXCEPT ![h] = IF m.sig.with = "v1" THEN [at |-> "parse", request |-> m]
                                                ELSE [at |-> "verify", request |-> m, now |-> postClock]]
           /\ UNCHANGED sender
  /\ UNCHANGED <<signatureVars, posted, postClock>>

\* Fault: a signature is kept for the window from when it came.
KeptUntilFromNow(now, sig) == now + SignatureWindow

KeptUntil(now, sig) == 2 * sig.ts + SignatureWindow

\* The signatures are looked through under their lock, with the clock read before it.
VerifyV2(h) ==
  /\ handler[h].at = "verify"
  /\ LET m == handler[h].request
         now == handler[h].now
         sweeps == now - seenSwept > SweepEvery
         left == [g \in {x \in DOMAIN seen : sweeps => now <= seen[x]} |-> seen[g]]
     IN /\ seenSwept' = IF sweeps THEN now ELSE seenSwept
        /\ IF m.sig \in DOMAIN left
           THEN /\ seen' = left
                /\ refused' = [reason |-> "replayed", request |-> m]
                /\ handler' = [handler EXCEPT ![h] = Idle]
                /\ Reply(m, 401)
                /\ UNCHANGED takes
           ELSE /\ seen' = [g \in DOMAIN left \cup {m.sig} |-> IF g = m.sig THEN KeptUntil(now, m.sig) ELSE left[g]]
                /\ takes' = Append(takes, [request |-> m, at |-> postClock])
                /\ handler' = [handler EXCEPT ![h] = [at |-> "parse", request |-> m]]
                /\ UNCHANGED <<sender, refused>>
  /\ UNCHANGED <<posted, postClock, deliveries, losses>>

---------------------------------------------------------------------------
(***************************************************************************)
(* handleTool, handleEvents and publishAll.                                *)
(***************************************************************************)

\* What the report itself makes of the request: 0 goes on to the bus.
Handled(r) ==
  CASE ~r.known -> 404
    [] ~r.readable \/ r.param = "malformed" \/ (r.param \notin {"", "none"} /\ r.pr) \/ ~r.vocabulary -> 400
    [] r.large -> 413
    [] OTHER -> 0

Handle(h) ==
  /\ handler[h].at = "parse"
  /\ handler' = [handler EXCEPT ![h] = Idle]
  /\ LET m == handler[h].request
         r == m.sig.report
     IN \/ Handled(r) # 0 /\ Reply(m, Handled(r)) /\ Loss
        \/ Handled(r) = 0 /\ Reply(m, 502) /\ Loses
        \/ Handled(r) = 0 /\ Reply(m, 202) /\ Loss
  /\ UNCHANGED <<signatureVars, posted, postClock, deliveries>>

---------------------------------------------------------------------------

\* The process starts again, having seen nothing.
RestartEndpoint ==
  /\ Loses
  /\ seen' = << >> /\ seenSwept' = -SweepEvery - 1
  /\ handler' = [h \in Handlers |-> Idle]
  /\ takes' = << >> /\ refused' = [reason |-> "none"]
  /\ UNCHANGED <<sender, posted, postClock, deliveries>>

PostTick ==
  /\ postClock < MaxPostTime /\ postClock' = postClock + 1
  /\ UNCHANGED <<signatureVars, handler, sender, posted, deliveries, losses>>

PostNext ==
  \/ \E s \in Senders : SendReport(s) \/ TimesOut(s)
  \/ \E h \in Handlers : VerifyV2(h) \/ Handle(h) \/ \E m \in posted : Deliver(h, m)
  \/ RestartEndpoint
  \/ PostTick

PostSpec == PostInit /\ [][PostNext]_postVars

---------------------------------------------------------------------------
(***************************************************************************)
(* Properties.                                                             *)
(***************************************************************************)

\* However often a signed request arrives, and however far its sender's clock is off,
\* a process accepts its signature once; the one exception is a request whose own
\* verification, begun in time, ends after its signature has run out, and been swept
\* (verifyV2, SignatureWindow).
AcceptedOnce ==
  \A i, j \in DOMAIN takes :
    LET sig == takes[j].request.sig
    IN i < j /\ takes[i].request.sig = sig => takes[j].at > 2 * sig.ts + SignatureWindow

\* A sender that tries again, after an answer that was lost or a publish that failed,
\* is not taken for a replay of itself: what is refused as one is another copy of the
\* request that was accepted, or was signed in the same second by another sender of the
\* same report (the pause of runIngest, verifyV2).
RetriesAreNotReplays ==
  refused.reason = "replayed" =>
    \E i \in DOMAIN takes :
      LET taken == takes[i].request IN
        /\ taken.sig = refused.request.sig
        /\ taken = refused.request \/ taken.from # refused.request.from

\* A request counts once, and only a copy of one that counted is refused as such.
CountsOnce == AcceptedOnce /\ RetriesAreNotReplays
=============================================================================
