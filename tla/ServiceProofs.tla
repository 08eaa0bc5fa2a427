---------------------------- MODULE ServiceProofs -------------------------
(***************************************************************************)
(* Proofs about what stands around the graph: the signed requests of       *)
(* IngestDoor, the budgets of RateLimiter, the verdicts of MergeGate, the  *)
(* comments and fixes of PullRequests, what Collection retracts, what      *)
(* ThreatIntel grades, and whom ApiDoor lets in.                           *)
(***************************************************************************)
EXTENDS IngestDoor, RateLimiter, MergeGate, PullRequests, Collection, ThreatIntel,
        ApiDoor, FiniteSetTheorems, SequenceTheorems, TLAPS

---------------------------------------------------------------------------
(***************************************************************************)
(* A signed request counts once, and a sender that tries again is not      *)
(* taken for a replay of itself: for any number of senders, however far    *)
(* their clocks are off, and any handlers, losses, delays and restarts.    *)
(***************************************************************************)

Sigs == [report : {ReportOf[s] : s \in Senders}, ts : Int, with : {Signing[s] : s \in Senders}]
Requests == [from : Senders, attempt : Nat, sig : Sigs]
Takes == [request : Requests, at : Int]
SenderStates ==
  [at : {"sign"}, attempt : Nat, wake : Int]
    \cup [at : {"wait"}, attempt : Nat, request : Requests]
    \cup [at : {"done", "failed"}, attempt : Nat]
Handlings ==
  {Idle} \cup [at : {"parse"}, request : Requests] \cup [at : {"verify"}, request : Requests, now : Int]

PostTyped ==
  /\ postClock \in Int
  /\ posted \in SUBSET Requests
  /\ takes \in Seq(Takes)
  /\ sender \in [Senders -> SenderStates]
  /\ handler \in [Handlers -> Handlings]

RunsOut(sig) == 2 * sig.ts + SignatureWindow

\* What is under way was sent, and was begun by now.
HandlersBehind ==
  \A h \in Handlers :
    /\ handler[h].at \in {"verify", "parse"} => handler[h].request \in posted
    /\ handler[h].at = "verify" => handler[h].now <= postClock

TakesPosted == \A i \in DOMAIN takes : takes[i].request \in posted

\* A signature that is kept was taken, and is kept until it runs out.
SeenWasTaken ==
  \A g \in DOMAIN seen :
    seen[g] = RunsOut(g) /\ \E i \in DOMAIN takes : takes[i].request.sig = g

\* A signature that was taken is kept, or has run out.
TakenIsSeen ==
  \A i \in DOMAIN takes :
    LET g == takes[i].request.sig IN g \in DOMAIN seen \/ postClock > RunsOut(g)

\* A sender that is to sign again does so in a later second than it ever did.
SignsLater ==
  \A m \in posted :
    /\ m.sig.ts <= Seconds(postClock + Skew[m.from])
    /\ sender[m.from].at = "sign" => m.sig.ts < Seconds(sender[m.from].wake + Skew[m.from])

SignedOnce == \A m, n \in posted : m.from = n.from /\ m.sig = n.sig => m = n

PostInv ==
  /\ PostTyped /\ HandlersBehind /\ TakesPosted
  /\ SeenWasTaken /\ TakenIsSeen
  /\ SignsLater /\ SignedOnce
  /\ CountsOnce

---------------------------------------------------------------------------
LEMMA LaterSecond ==
  ASSUME NEW a \in Int, NEW b \in Int
  PROVE  /\ Seconds(a) \in Int
         /\ a <= b => Seconds(a) <= Seconds(b)
         /\ a + 2 <= b => Seconds(a) < Seconds(b)
BY DEF Seconds

LEMMA PostInitially == PostInit => PostInv
<1> SUFFICES ASSUME PostInit PROVE PostInv
  OBVIOUS
<1>1. takes = << >> /\ posted = {} /\ seen = << >> /\ postClock = 0 /\ refused.reason = "none"
  BY DEF PostInit
<1>2. DOMAIN takes = {} /\ takes \in Seq(Takes) /\ DOMAIN seen = {}
  BY <1>1
<1>3. \A h \in Handlers : handler[h] = Idle
  BY DEF PostInit
<1>4. handler \in [Handlers -> Handlings]
  BY DEF PostInit, Handlings
<1>5. sender \in [Senders -> SenderStates]
  BY DEF PostInit, SenderStates
<1>6. PostTyped
  BY <1>1, <1>2, <1>4, <1>5 DEF PostTyped
<1>7. HandlersBehind
  BY <1>3 DEF HandlersBehind, Idle
<1>8. CountsOnce
  BY <1>1, <1>2 DEF CountsOnce, AcceptedOnce, RetriesAreNotReplays
<1> QED
  BY <1>1, <1>2, <1>6, <1>7, <1>8 DEF PostInv, TakesPosted, SeenWasTaken, TakenIsSeen, SignsLater, SignedOnce

---------------------------------------------------------------------------
(***************************************************************************)
(* The senders.                                                            *)
(***************************************************************************)

SenderInv == sender \in [Senders -> SenderStates] /\ SignsLater

\* An answer sends a waiting sender to its end, or to a later second (runIngest).
LEMMA AnsweredSignsLater ==
  ASSUME PostInv, NEW s \in Senders, sender[s].at = "wait", NEW status,
         UNCHANGED <<posted, postClock>>,
         sender' = [sender EXCEPT ![s] = Answered(@, status)]
  PROVE  SenderInv'
<1> DEFINE new == Answered(sender[s], status)
<1>1. /\ sender[s].attempt \in Nat /\ DOMAIN sender = Senders /\ postClock \in Int
      /\ Skew[s] \in Int
  BY DoorAssumption DEF DoorAssumption, PostInv, PostTyped, SenderStates
<1>2. Pause(sender[s].attempt) \in {2, 4, 8, 16}
  BY DEF Pause
<1>3. \/ new \in [at : {"done", "failed"}, attempt : Nat]
      \/ /\ new \in [at : {"sign"}, attempt : Nat, wake : Int]
         /\ new.wake >= postClock + 2
  BY <1>1, <1>2 DEF Answered
<1>4. new \in SenderStates
  BY <1>3 DEF SenderStates
<1> HIDE DEF new
<1>5. sender' = [sender EXCEPT ![s] = new]
  BY DEF new
<1>6. sender' \in [Senders -> SenderStates]
  BY <1>4, <1>5 DEF PostInv, PostTyped
<1>7. ASSUME NEW m \in posted, sender'[m.from].at = "sign"
      PROVE  m.sig.ts < Seconds(sender'[m.from].wake + Skew[m.from])
  <2>1. m \in Requests /\ m.from \in Senders /\ m.sig.ts \in Int
    BY DEF PostInv, PostTyped, Requests, Sigs
  <2>2. CASE m.from = s
    <3>1. sender'[s] = new
      BY <1>1, <1>5
    <3>2. new.wake >= postClock + 2 /\ new.wake \in Int
      BY <1>3, <1>7, <2>2, <3>1
    <3>3. m.sig.ts <= Seconds(postClock + Skew[s])
      BY <2>2 DEF PostInv, SignsLater
    <3>4. /\ Seconds(postClock + Skew[s]) < Seconds(new.wake + Skew[s])
          /\ Seconds(postClock + Skew[s]) \in Int /\ Seconds(new.wake + Skew[s]) \in Int
      BY <1>1, <3>2, LaterSecond
    <3> QED
      BY <2>1, <2>2, <3>1, <3>3, <3>4
  <2>3. CASE m.from # s
    BY <1>1, <1>5, <1>7, <2>1, <2>3 DEF PostInv, SignsLater
  <2> QED
    BY <2>2, <2>3
<1> QED
  BY <1>6, <1>7 DEF SenderInv, PostInv, SignsLater

LEMMA ReplySignsLater ==
  ASSUME PostInv, NEW m \in posted, NEW status, Reply(m, status), UNCHANGED <<posted, postClock>>
  PROVE  SenderInv'
<1>1. m.from \in Senders
  BY DEF PostInv, PostTyped, Requests
<1>2. CASE sender[m.from].at = "wait" /\ sender[m.from].request = m
  <2>1. sender' = [sender EXCEPT ![m.from] = Answered(@, status)]
    BY <1>2 DEF Reply
  <2> QED
    BY <1>1, <1>2, <2>1, AnsweredSignsLater
<1>3. CASE ~(sender[m.from].at = "wait" /\ sender[m.from].request = m)
  <2>1. sender' = sender
    BY <1>1, <1>3 DEF Reply, PostInv, PostTyped
  <2> QED
    BY <2>1 DEF SenderInv, PostInv, PostTyped, SignsLater
<1> QED
  BY <1>2, <1>3

LEMMA TakesAreRequests ==
  ASSUME PostTyped, NEW i \in DOMAIN takes
  PROVE  takes[i].request \in Requests /\ takes[i].request.sig.ts \in Int /\ takes[i].at \in Int
<1>1. takes[i] \in Takes
  BY DEF PostTyped
<1>2. takes[i].request \in Requests /\ takes[i].at \in Int
  BY <1>1 DEF Takes
<1>3. takes[i].request.sig \in Sigs
  BY <1>2 DEF Requests
<1> QED
  BY <1>2, <1>3 DEF Sigs

\* What was taken and seen stands while nothing is verified.
LEMMA SignaturesStand ==
  ASSUME PostInv, UNCHANGED signatureVars, posted \subseteq posted', postClock <= postClock',
         PostTyped', HandlersBehind', SignsLater', SignedOnce'
  PROVE  PostInv'
<1>1. UNCHANGED <<seen, takes, refused>>
  BY DEF signatureVars
<1>2. TakesPosted' /\ SeenWasTaken'
  BY <1>1 DEF PostInv, TakesPosted, SeenWasTaken, RunsOut
<1>3. TakenIsSeen'
  <2> SUFFICES ASSUME NEW i \in DOMAIN takes, takes[i].request.sig \notin DOMAIN seen
               PROVE  postClock' > RunsOut(takes[i].request.sig)
    BY <1>1 DEF TakenIsSeen, RunsOut
  <2>1. takes[i].request.sig.ts \in Int
    BY TakesAreRequests DEF PostInv
  <2>2. postClock > RunsOut(takes[i].request.sig) /\ postClock \in Int /\ postClock' \in Int
    BY DEF PostInv, PostTyped, TakenIsSeen
  <2> QED
    BY <2>1, <2>2, DoorAssumption DEF DoorAssumption, RunsOut
<1>4. CountsOnce'
  BY <1>1 DEF PostInv, CountsOnce, AcceptedOnce, RetriesAreNotReplays
<1> QED
  BY <1>2, <1>3, <1>4 DEF PostInv

LEMMA SendReportKeeps == ASSUME PostInv, NEW s \in Senders, SendReport(s) PROVE PostInv'
<1> DEFINE m == [from |-> s, attempt |-> sender[s].attempt, sig |-> Signed(s)]
           new == [at |-> "wait", attempt |-> sender[s].attempt, request |-> m]
<1>1. /\ sender[s].at = "sign" /\ postClock >= sender[s].wake
      /\ posted' = posted \cup {m} /\ sender' = [sender EXCEPT ![s] = new]
      /\ UNCHANGED <<signatureVars, handler, postClock>>
  BY DEF SendReport
<1>2. sender[s].attempt \in Nat /\ sender[s].wake \in Int /\ Skew[s] \in Int /\ postClock \in Int
  BY <1>1, DoorAssumption DEF DoorAssumption, PostInv, PostTyped, SenderStates
<1>3. m.sig.ts = Seconds(postClock + Skew[s]) /\ m.sig.ts \in Int
  BY <1>2, LaterSecond DEF Signed
<1>4. m \in Requests
  BY <1>2, <1>3 DEF Requests, Sigs, Signed
<1>5. m.from = s
  OBVIOUS
<1>6. new \in SenderStates /\ new.at = "wait"
  BY <1>2, <1>4 DEF SenderStates
<1> HIDE DEF m, new
<1>7. PostTyped'
  BY <1>1, <1>4, <1>6 DEF PostInv, PostTyped, signatureVars
<1>8. HandlersBehind'
  BY <1>1 DEF PostInv, HandlersBehind
<1>9. sender'[s] = new /\ \A o \in Senders \ {s} : sender'[o] = sender[o]
  BY <1>1 DEF PostInv, PostTyped
<1>10. ASSUME NEW n \in posted, n.from = s PROVE n.sig.ts < m.sig.ts
  <2>1. n.sig.ts \in Int
    BY DEF PostInv, PostTyped, Requests, Sigs
  <2>2. n.sig.ts < Seconds(sender[s].wake + Skew[s])
    BY <1>1, <1>10 DEF PostInv, SignsLater
  <2>3. /\ Seconds(sender[s].wake + Skew[s]) <= Seconds(postClock + Skew[s])
        /\ Seconds(sender[s].wake + Skew[s]) \in Int
    BY <1>1, <1>2, LaterSecond
  <2> QED
    BY <1>3, <2>1, <2>2, <2>3
<1>11. SignedOnce'
  <2>1. \A n \in posted : n.from = s => n.sig # m.sig
    <3> SUFFICES ASSUME NEW n \in posted, n.from = s, n.sig = m.sig PROVE FALSE
      OBVIOUS
    <3>1. n.sig.ts < m.sig.ts /\ n.sig.ts = m.sig.ts
      BY <1>10
    <3> QED
      BY <1>3, <3>1
  <2> QED
    BY <1>1, <1>5, <2>1 DEF PostInv, SignedOnce
<1>12. SignsLater'
  <2> SUFFICES ASSUME NEW n \in posted'
               PROVE  /\ n.sig.ts <= Seconds(postClock + Skew[n.from])
                      /\ sender'[n.from].at = "sign" => n.sig.ts < Seconds(sender'[n.from].wake + Skew[n.from])
    BY <1>1 DEF SignsLater, Seconds
  <2>1. CASE n = m
    BY <1>3, <1>5, <1>6, <1>9, <2>1
  <2>2. CASE n \in posted
    <3>1. n.from \in Senders
      BY <2>2 DEF PostInv, PostTyped, Requests
    <3> QED
      BY <1>6, <1>9, <2>2, <3>1 DEF PostInv, SignsLater
  <2> QED
    BY <1>1, <2>1, <2>2
<1> QED
  BY <1>1, <1>2, <1>7, <1>8, <1>11, <1>12, SignaturesStand

\* The steps that answer a sender, and leave the signatures alone.
LEMMA AnswerKeeps ==
  ASSUME PostInv, SenderInv', UNCHANGED <<signatureVars, posted, postClock>>,
         handler' \in [Handlers -> Handlings],
         \A h \in Handlers : \/ handler'[h] = handler[h]
                             \/ handler'[h] = Idle
                             \/ /\ handler'[h].at \in {"parse", "verify"}
                                /\ handler'[h].request \in posted
                                /\ handler'[h].at = "verify" => handler'[h].now = postClock
  PROVE  PostInv'
<1>1. PostTyped'
  BY DEF PostInv, PostTyped, SenderInv, signatureVars
<1>2. postClock \in Int
  BY DEF PostInv, PostTyped
<1>3. HandlersBehind'
  BY <1>2 DEF PostInv, HandlersBehind, Idle
<1>4. SignedOnce'
  BY DEF PostInv, SignedOnce
<1>5. SignsLater'
  BY DEF SenderInv
<1> QED
  BY <1>1, <1>2, <1>3, <1>4, <1>5, SignaturesStand

LEMMA TimesOutKeeps == ASSUME PostInv, NEW s \in Senders, TimesOut(s) PROVE PostInv'
<1>1. /\ sender[s].at = "wait" /\ sender' = [sender EXCEPT ![s] = Answered(@, 0)]
      /\ UNCHANGED <<signatureVars, handler, posted, postClock>>
  BY DEF TimesOut
<1>2. SenderInv'
  BY <1>1, AnsweredSignsLater
<1> QED
  BY <1>1, <1>2, AnswerKeeps DEF PostInv, PostTyped

LEMMA SenderInvNow == ASSUME PostInv, UNCHANGED <<sender, posted, postClock>> PROVE SenderInv'
BY DEF PostInv, PostTyped, SenderInv, SignsLater

LEMMA DeliverKeeps ==
  ASSUME PostInv, NEW h \in Handlers, NEW m \in posted, Deliver(h, m)
  PROVE  PostInv'
<1>1. m \in Requests /\ postClock \in Int /\ UNCHANGED <<signatureVars, posted, postClock>>
  BY DEF PostInv, PostTyped, Deliver
<1>2. CASE handler' = handler /\ \E status \in {429, 401} : Reply(m, status)
  <2>1. SenderInv'
    BY <1>1, <1>2, ReplySignsLater
  <2> QED
    BY <1>1, <1>2, <2>1, AnswerKeeps DEF PostInv, PostTyped
<1>3. ASSUME NEW new \in {[at |-> "parse", request |-> m], [at |-> "verify", request |-> m, now |-> postClock]},
             handler' = [handler EXCEPT ![h] = new], sender' = sender
      PROVE  PostInv'
  <2>1. new \in Handlings /\ new.at \in {"parse", "verify"} /\ new.request = m
        /\ (new.at = "verify" => new.now = postClock)
    BY <1>1, <1>3 DEF Handlings
  <2>2. handler' \in [Handlers -> Handlings]
    BY <1>3, <2>1 DEF PostInv, PostTyped
  <2>3. handler'[h] = new /\ \A g \in Handlers \ {h} : handler'[g] = handler[g]
    BY <1>3 DEF PostInv, PostTyped
  <2>4. SenderInv'
    BY <1>1, <1>3, SenderInvNow
  <2> QED
    BY <1>1, <2>1, <2>2, <2>3, <2>4, AnswerKeeps
<1> QED
  BY <1>2, <1>3 DEF Deliver

LEMMA HandleKeeps == ASSUME PostInv, NEW h \in Handlers, Handle(h) PROVE PostInv'
<1> DEFINE m == handler[h].request
<1>1. /\ handler[h].at = "parse" /\ handler' = [handler EXCEPT ![h] = Idle]
      /\ UNCHANGED <<signatureVars, posted, postClock>>
  BY DEF Handle
<1>2. m \in posted
  BY <1>1 DEF PostInv, HandlersBehind
<1>3. PICK status : Reply(m, status)
  BY DEF Handle
<1>4. SenderInv'
  BY <1>1, <1>2, <1>3, ReplySignsLater
<1>5. handler' \in [Handlers -> Handlings]
  BY <1>1 DEF PostInv, PostTyped, Handlings
<1>6. \A g \in Handlers : handler'[g] = handler[g] \/ handler'[g] = Idle
  BY <1>1 DEF PostInv, PostTyped
<1> QED
  BY <1>1, <1>4, <1>5, <1>6, AnswerKeeps

---------------------------------------------------------------------------
(***************************************************************************)
(* The verification: the sweep drops what has run out, and nothing else.   *)
(***************************************************************************)

SweptPast(now, sweeps) == [g \in {x \in DOMAIN seen : sweeps => now <= seen[x]} |-> seen[g]]

\* What a sweep leaves is as it was, and what it drops has run out.
LEMMA SweepDropsTheStale ==
  ASSUME PostInv, NEW now \in Int, now <= postClock, NEW sweeps \in BOOLEAN
  PROVE  /\ DOMAIN SweptPast(now, sweeps) \subseteq DOMAIN seen
         /\ \A g \in DOMAIN SweptPast(now, sweeps) : SweptPast(now, sweeps)[g] = RunsOut(g)
         /\ \A i \in DOMAIN takes :
              LET g == takes[i].request.sig IN g \in DOMAIN SweptPast(now, sweeps) \/ postClock > RunsOut(g)
<1>1. \A g \in DOMAIN seen : seen[g] = RunsOut(g)
  BY DEF PostInv, SeenWasTaken
<1>2. DOMAIN SweptPast(now, sweeps) = {x \in DOMAIN seen : sweeps => now <= seen[x]}
  BY DEF SweptPast
<1>3. \A g \in DOMAIN SweptPast(now, sweeps) : SweptPast(now, sweeps)[g] = seen[g]
  BY DEF SweptPast
<1>4. ASSUME NEW i \in DOMAIN takes, takes[i].request.sig \notin DOMAIN SweptPast(now, sweeps)
      PROVE  postClock > RunsOut(takes[i].request.sig)
  <2> DEFINE g == takes[i].request.sig
  <2>1. g.ts \in Int /\ RunsOut(g) \in Int /\ postClock \in Int
    BY TakesAreRequests, DoorAssumption DEF DoorAssumption, RunsOut, PostInv, PostTyped
  <2> HIDE DEF g
  <2>2. CASE g \in DOMAIN seen
    <3>1. ~(now <= seen[g]) /\ seen[g] = RunsOut(g)
      BY <1>1, <1>2, <1>4, <2>2 DEF g
    <3> QED
      BY <2>1, <3>1 DEF g
  <2>3. CASE g \notin DOMAIN seen
    BY <2>3 DEF g, PostInv, TakenIsSeen
  <2> QED
    BY <2>2, <2>3
<1> QED
  BY <1>1, <1>2, <1>3, <1>4

\* A signature that was accepted is refused (verifyV2).
LEMMA ReplayKeeps ==
  ASSUME PostInv, NEW h \in Handlers, NEW now \in Int, now <= postClock, NEW sweeps \in BOOLEAN,
         handler[h].at = "verify", handler[h].request.sig \in DOMAIN SweptPast(now, sweeps),
         seen' = SweptPast(now, sweeps), refused' = [reason |-> "replayed", request |-> handler[h].request],
         handler' = [handler EXCEPT ![h] = Idle], Reply(handler[h].request, 401),
         UNCHANGED <<takes, posted, postClock>>
  PROVE  PostInv'
<1> DEFINE m == handler[h].request
<1>1. m \in posted
  BY DEF PostInv, HandlersBehind
<1>2. SenderInv'
  BY <1>1, ReplySignsLater
<1>3. handler' \in [Handlers -> Handlings] /\ \A g \in Handlers : handler'[g] \in {handler[g], Idle}
  BY DEF PostInv, PostTyped, Handlings
<1>4. PostTyped' /\ HandlersBehind' /\ TakesPosted' /\ SignsLater' /\ SignedOnce'
  BY <1>2, <1>3 DEF PostInv, PostTyped, SenderInv, HandlersBehind, Idle, TakesPosted, SignedOnce
<1>5. SeenWasTaken'
  <2> SUFFICES ASSUME NEW g \in DOMAIN seen'
               PROVE  seen'[g] = RunsOut(g) /\ \E i \in DOMAIN takes : takes[i].request.sig = g
    BY DEF SeenWasTaken, RunsOut
  <2> QED
    BY SweepDropsTheStale DEF PostInv, SeenWasTaken
<1>6. TakenIsSeen'
  BY SweepDropsTheStale DEF TakenIsSeen, RunsOut
<1>7. RetriesAreNotReplays'
  <2>1. m.sig \in DOMAIN seen
    BY SweepDropsTheStale
  <2>2. PICK i \in DOMAIN takes : takes[i].request.sig = m.sig
    BY <2>1 DEF PostInv, SeenWasTaken
  <2>3. takes[i].request = m \/ takes[i].request.from # m.from
    BY <1>1, <2>2 DEF PostInv, TakesPosted, SignedOnce
  <2>4. refused'.request = m
    OBVIOUS
  <2> QED
    BY <2>2, <2>3, <2>4 DEF RetriesAreNotReplays
<1>8. AcceptedOnce'
  BY DEF PostInv, CountsOnce, AcceptedOnce
<1> QED
  BY <1>4, <1>5, <1>6, <1>7, <1>8 DEF PostInv, CountsOnce

\* A signature that was not, or has run out since, is (verifyV2).
LEMMA AcceptKeeps ==
  ASSUME PostInv, NEW h \in Handlers, NEW now \in Int, now <= postClock, NEW sweeps \in BOOLEAN,
         handler[h].at = "verify", handler[h].request.sig \notin DOMAIN SweptPast(now, sweeps),
         seen' = [g \in DOMAIN SweptPast(now, sweeps) \cup {handler[h].request.sig} |->
                    IF g = handler[h].request.sig THEN KeptUntil(now, handler[h].request.sig)
                    ELSE SweptPast(now, sweeps)[g]],
         takes' = Append(takes, [request |-> handler[h].request, at |-> postClock]),
         handler' = [handler EXCEPT ![h] = [at |-> "parse", request |-> handler[h].request]],
         UNCHANGED <<sender, refused, posted, postClock>>
  PROVE  PostInv'
<1> DEFINE m == handler[h].request
           take == [request |-> m, at |-> postClock]
           last == Len(takes) + 1
<1>1. m \in posted /\ m \in Requests /\ postClock \in Int
  BY DEF PostInv, PostTyped, HandlersBehind
<1>2. take \in Takes /\ takes \in Seq(Takes)
  BY <1>1 DEF Takes, PostInv, PostTyped
<1>3. /\ takes' \in Seq(Takes) /\ Len(takes) \in Nat
      /\ DOMAIN takes = 1..Len(takes) /\ DOMAIN takes' = 1..last
      /\ \A i \in DOMAIN takes : takes'[i] = takes[i]
      /\ takes'[last] = take
  BY <1>2
<1>4. take.request = m /\ take.at = postClock
  OBVIOUS
<1>5. \A i \in DOMAIN takes' : i \in DOMAIN takes \/ i = last
  BY <1>3
<1>6. last \in DOMAIN takes' /\ \A i \in DOMAIN takes : i \in DOMAIN takes' /\ i < last
  BY <1>3
<1>7. m.sig.ts \in Int /\ RunsOut(m.sig) = KeptUntil(now, m.sig)
  BY <1>1 DEF Requests, Sigs, RunsOut, KeptUntil
<1> HIDE DEF take, last
<1>8. SenderInv'
  BY SenderInvNow
<1>9. handler' \in [Handlers -> Handlings]
  BY <1>1 DEF PostInv, PostTyped, Handlings
<1>10. PostTyped'
  BY <1>3, <1>8, <1>9 DEF PostInv, PostTyped, SenderInv
<1>11. HandlersBehind'
  BY <1>1 DEF PostInv, PostTyped, HandlersBehind
<1>12. TakesPosted'
  BY <1>1, <1>3, <1>4, <1>5 DEF PostInv, TakesPosted
<1>13. DOMAIN seen' = DOMAIN SweptPast(now, sweeps) \cup {m.sig}
  OBVIOUS
<1>14. SeenWasTaken'
  <2> SUFFICES ASSUME NEW g \in DOMAIN seen'
               PROVE  seen'[g] = RunsOut(g) /\ \E i \in DOMAIN takes' : takes'[i].request.sig = g
    BY DEF SeenWasTaken, RunsOut
  <2>1. CASE g = m.sig
    BY <1>3, <1>4, <1>6, <1>7, <2>1
  <2>2. CASE g # m.sig
    <3>1. g \in DOMAIN SweptPast(now, sweeps) /\ seen'[g] = SweptPast(now, sweeps)[g]
      BY <1>13, <2>2
    <3>2. g \in DOMAIN seen /\ seen'[g] = RunsOut(g)
      BY <3>1, SweepDropsTheStale
    <3>3. PICK i \in DOMAIN takes : takes[i].request.sig = g
      BY <3>2 DEF PostInv, SeenWasTaken
    <3> QED
      BY <1>3, <1>6, <3>2, <3>3
  <2> QED
    BY <2>1, <2>2
<1>15. TakenIsSeen'
  <2> SUFFICES ASSUME NEW i \in DOMAIN takes'
               PROVE  takes'[i].request.sig \in DOMAIN seen' \/ postClock > RunsOut(takes'[i].request.sig)
    BY DEF TakenIsSeen, RunsOut
  <2>1. CASE i = last
    BY <1>3, <1>4, <1>13, <2>1
  <2>2. CASE i \in DOMAIN takes
    BY <1>3, <1>13, <2>2, SweepDropsTheStale
  <2> QED
    BY <1>5, <2>1, <2>2
<1>16. AcceptedOnce'
  <2> SUFFICES ASSUME NEW i \in DOMAIN takes', NEW j \in DOMAIN takes', i < j,
                      takes'[i].request.sig = takes'[j].request.sig
               PROVE  takes'[j].at > RunsOut(takes'[j].request.sig)
    BY DEF AcceptedOnce, RunsOut
  <2>1. i \in DOMAIN takes
    BY <1>3
  <2>2. CASE j = last
    <3>1. takes[i].request.sig = m.sig
      BY <1>3, <1>4, <2>1, <2>2
    <3>2. postClock > RunsOut(m.sig)
      BY <2>1, <3>1, SweepDropsTheStale
    <3> QED
      BY <1>3, <1>4, <2>2, <3>2
  <2>3. CASE j \in DOMAIN takes
    BY <1>3, <2>1, <2>3 DEF PostInv, CountsOnce, AcceptedOnce, RunsOut
  <2> QED
    BY <1>5, <2>2, <2>3
<1>17. RetriesAreNotReplays'
  <2> SUFFICES ASSUME refused.reason = "replayed"
               PROVE  \E i \in DOMAIN takes' :
                        LET taken == takes'[i].request IN
                          /\ taken.sig = refused.request.sig
                          /\ taken = refused.request \/ taken.from # refused.request.from
    BY DEF RetriesAreNotReplays
  <2>1. PICK i \in DOMAIN takes :
          LET taken == takes[i].request IN
            /\ taken.sig = refused.request.sig
            /\ taken = refused.request \/ taken.from # refused.request.from
    BY DEF PostInv, CountsOnce, RetriesAreNotReplays
  <2> QED
    BY <1>3, <1>6, <2>1
<1>18. SignsLater' /\ SignedOnce'
  BY <1>8 DEF SenderInv, PostInv, SignedOnce
<1> QED
  BY <1>10, <1>11, <1>12, <1>14, <1>15, <1>16, <1>17, <1>18 DEF PostInv, CountsOnce

LEMMA VerifyV2Keeps == ASSUME PostInv, NEW h \in Handlers, VerifyV2(h) PROVE PostInv'
<1> DEFINE now == handler[h].now
           sweeps == now - seenSwept > SweepEvery
<1>1. handler[h].at = "verify" /\ now \in Int /\ now <= postClock
  BY DEF VerifyV2, PostInv, PostTyped, HandlersBehind, Handlings, Idle
<1>2. (sweeps) \in BOOLEAN
  OBVIOUS
<1>3. UNCHANGED <<posted, postClock>>
  BY DEF VerifyV2
<1>4. CASE handler[h].request.sig \in DOMAIN SweptPast(now, sweeps)
  BY <1>1, <1>2, <1>3, <1>4, ReplayKeeps DEF VerifyV2, SweptPast
<1>5. CASE handler[h].request.sig \notin DOMAIN SweptPast(now, sweeps)
  BY <1>1, <1>2, <1>3, <1>5, AcceptKeeps DEF VerifyV2, SweptPast
<1> QED
  BY <1>4, <1>5

LEMMA RestartKeepsPost == ASSUME PostInv, RestartEndpoint PROVE PostInv'
<1>1. /\ takes' = << >> /\ seen' = << >> /\ refused'.reason = "none"
      /\ handler' = [h \in Handlers |-> Idle] /\ UNCHANGED <<sender, posted, postClock>>
  BY DEF RestartEndpoint
<1>2. DOMAIN takes' = {} /\ takes' \in Seq(Takes) /\ DOMAIN seen' = {}
  BY <1>1
<1>3. PostTyped' /\ HandlersBehind'
  BY <1>1, <1>2 DEF PostInv, PostTyped, Handlings, HandlersBehind, Idle
<1>4. CountsOnce'
  BY <1>1, <1>2 DEF CountsOnce, AcceptedOnce, RetriesAreNotReplays
<1> QED
  BY <1>1, <1>2, <1>3, <1>4
  DEF PostInv, TakesPosted, SeenWasTaken, TakenIsSeen, SignsLater, SignedOnce

LEMMA PostTickKeeps == ASSUME PostInv, PostTick PROVE PostInv'
<1>1. postClock \in Int /\ postClock' = postClock + 1 /\ UNCHANGED <<signatureVars, handler, sender, posted>>
  BY DEF PostInv, PostTyped, PostTick
<1>2. PostTyped' /\ HandlersBehind'
  <2>1. PostTyped'
    BY <1>1 DEF PostInv, PostTyped, signatureVars
  <2>2. ASSUME NEW h \in Handlers, handler[h].at = "verify" PROVE handler[h].now <= postClock'
    <3>1. handler[h] \in Handlings /\ handler[h].now <= postClock
      BY <2>2 DEF PostInv, PostTyped, HandlersBehind
    <3>2. handler[h].now \in Int
      BY <2>2, <3>1 DEF Handlings, Idle
    <3> QED
      BY <1>1, <3>1, <3>2
  <2>3. HandlersBehind'
    BY <1>1, <2>2 DEF PostInv, HandlersBehind
  <2> QED
    BY <2>1, <2>3
<1>3. SignedOnce'
  BY <1>1 DEF PostInv, SignedOnce
<1>4. SignsLater'
  <2> SUFFICES ASSUME NEW m \in posted PROVE m.sig.ts <= Seconds(postClock' + Skew[m.from])
    BY <1>1 DEF PostInv, SignsLater, Seconds
  <2>1. m.from \in Senders /\ m.sig.ts \in Int /\ Skew[m.from] \in Int
    BY DoorAssumption DEF DoorAssumption, PostInv, PostTyped, Requests, Sigs
  <2>2. m.sig.ts <= Seconds(postClock + Skew[m.from])
    BY DEF PostInv, SignsLater
  <2>3. /\ Seconds(postClock + Skew[m.from]) <= Seconds(postClock' + Skew[m.from])
        /\ Seconds(postClock + Skew[m.from]) \in Int /\ Seconds(postClock' + Skew[m.from]) \in Int
    BY <1>1, <2>1, LaterSecond
  <2> QED
    BY <2>1, <2>2, <2>3
<1> QED
  BY <1>1, <1>2, <1>3, <1>4, SignaturesStand

LEMMA StepKeepsPost == PostInv /\ [PostNext]_postVars => PostInv'
<1> SUFFICES ASSUME PostInv, [PostNext]_postVars PROVE PostInv'
  OBVIOUS
<1>1. CASE UNCHANGED postVars
  BY <1>1, SenderInvNow, AnswerKeeps DEF postVars, signatureVars, PostInv, PostTyped
<1> QED
  BY <1>1, SendReportKeeps, TimesOutKeeps, DeliverKeeps, VerifyV2Keeps, HandleKeeps, RestartKeepsPost, PostTickKeeps
  DEF PostNext

\* A signed request counts once, and a retry is not taken for a replay (verifyV2,
\* SignatureWindow, the pause of runIngest).
THEOREM RequestsCountOnce == PostSpec => []CountsOnce
<1>1. PostInv => CountsOnce
  BY DEF PostInv
<1> QED
  BY <1>1, PostInitially, StepKeepsPost, PTL DEF PostSpec

---------------------------------------------------------------------------
(***************************************************************************)
(* The gate lets a build through only if somebody looked, for any number   *)
(* of messages, replicas, losses and delays, and any difference between    *)
(* the runner's clock and the engine's.                                    *)
(***************************************************************************)

Passes == [saw : SUBSET Messages, leg : BOOLEAN, ended : Int]

\* The engine: what is marked is applied, and what is in flight is not yet.
EngineInv ==
  /\ inFlight \in SUBSET Messages /\ applied \in SUBSET Messages
  /\ marked \in [Messages -> Nat \cup {Never}]
  /\ reading \in [Replicas -> Passes] /\ latest \in [Replicas -> Passes]
  /\ gateClock \in Nat
  /\ leg \in BOOLEAN
  /\ inFlight \cap applied = {}
  /\ \A m \in Messages : marked[m] # Never => m \in applied

\* Nothing of the report has been sent.
Early == gate.at \in {"start", "impact", "persist", "post"}
NothingSent == Early => inFlight = {} /\ applied = {}

\* The whole report was marked, by the time "floor".
MarkedSince(floor) == \A m \in Messages : marked[m] # Never /\ marked[m] <= floor

Polls == gate.at \in {"poll", "paths", "dated"}

\* What the gate holds at each step of its way to a verdict of the record.
OnTheWay ==
  /\ gate.at = "post" => setting.report
  /\ gate.at = "impact" => setting.report
  /\ gate.at = "batch" => gate.floor \in Int
  /\ Polls => /\ gate.floor \in Int
              /\ setting.report /\ setting.tracked => MarkedSince(gate.floor)
  /\ gate.at \in {"paths", "dated"} => gate.from \in Replicas /\ (gate.analysed => Stamped(applied))
  /\ gate.at = "dated" => gate.blocking \in {0, 1}
  /\ gate.at = "persist" => answer.by = "comparison" /\ answer.blocking \in {0, 1}

GateInv == setting \in Modes /\ EngineInv /\ NothingSent /\ OnTheWay /\ CleanMeansLooked

LEMMA RoutesCount == ASSUME NEW S, NEW b PROVE Routes(S, b) \in {0, 1}
BY DEF Routes

LEMMA GateInitially == GateInit => GateInv
<1> SUFFICES ASSUME GateInit PROVE GateInv
  OBVIOUS
<1>1. gate.at = "start"
  BY DEF GateInit
<1>2. NoPass \in Passes
  BY DEF NoPass, Passes, Never
<1>3. EngineInv
  BY <1>2 DEF GateInit, EngineInv, Never
<1>4. setting \in Modes
  BY GateAssumption DEF GateInit, GateAssumption
<1>5. NothingSent
  BY DEF GateInit, NothingSent
<1>6. OnTheWay /\ CleanMeansLooked
  BY <1>1 DEF OnTheWay, Polls, CleanMeansLooked, Cleared
<1> QED
  BY <1>3, <1>4, <1>5, <1>6 DEF GateInv

\* The engine goes on: what is applied stays, and the marks of a whole report too.
LEMMA EngineGoesOn ==
  ASSUME GateInv, EngineInv', UNCHANGED <<setting, gate, answer>>,
         applied \subseteq applied', inFlight' \subseteq inFlight,
         applied' \subseteq applied \cup inFlight,
         \A m \in Messages : marked'[m] = marked[m] \/ m \in inFlight
  PROVE  GateInv'
<1>1. \A m \in Messages : marked[m] # Never => marked'[m] = marked[m]
  BY DEF GateInv, EngineInv
<1>2. NothingSent'
  BY DEF GateInv, NothingSent, Early
<1>3. Stamped(applied) => Stamped(applied')
  BY DEF Stamped
<1>4. \A floor : MarkedSince(floor) => MarkedSince(floor)'
  BY <1>1 DEF MarkedSince
<1>5. OnTheWay'
  BY <1>3, <1>4 DEF GateInv, OnTheWay, Polls
<1>6. CleanMeansLooked'
  <2>1. Complete => Complete'
    BY <1>1 DEF Complete
  <2>2. applied = Messages => applied' = Messages
    BY DEF EngineInv
  <2>3. Complete => \A m \in Messages : marked'[m] = marked[m]
    BY <1>1 DEF Complete
  <2> QED
    BY <1>3, <2>1, <2>2, <2>3 DEF GateInv, CleanMeansLooked, Cleared
<1> QED
  BY <1>2, <1>5, <1>6 DEF GateInv

LEMMA EngineSteps ==
  ASSUME GateInv,
         \/ \E m \in Messages : Apply(m)
         \/ \E r \in Replicas : BeginPass(r) \/ EndPass(r)
         \/ EstateMoves \/ GateTick
         \/ UNCHANGED gateVars
  PROVE  GateInv'
<1>0. EngineInv
  BY DEF GateInv
<1>1. ASSUME NEW m \in Messages, Apply(m) PROVE GateInv'
  <2>1. /\ m \in inFlight /\ applied' = applied \cup {m} /\ inFlight' = inFlight \ {m}
        /\ UNCHANGED <<setting, leg, reading, latest, gate, answer, gateClock>>
        /\ marked' = [marked EXCEPT ![m] = gateClock] \/ marked' = marked
    BY <1>1 DEF Apply, fixedVars
  <2>2. marked' \in [Messages -> Nat \cup {Never}]
    BY <1>0, <2>1 DEF EngineInv
  <2>3. \A n \in Messages : n # m => marked'[n] = marked[n]
    BY <1>0, <2>1 DEF EngineInv
  <2>4. EngineInv'
    BY <1>0, <2>1, <2>2, <2>3 DEF EngineInv
  <2> QED
    BY <2>1, <2>3, <2>4, EngineGoesOn
<1>2. ASSUME NEW r \in Replicas, BeginPass(r) PROVE GateInv'
  <2> DEFINE new == [saw |-> applied, leg |-> leg, ended |-> 0]
  <2>1. reading' = [reading EXCEPT ![r] = new] /\ UNCHANGED <<setting, leg, inFlight, applied, marked, latest, gate, answer, gateClock>>
    BY <1>2 DEF BeginPass, fixedVars
  <2>2. new \in Passes
    BY <1>0 DEF EngineInv, Passes
  <2>3. EngineInv'
    BY <1>0, <2>1, <2>2 DEF EngineInv
  <2> QED
    BY <2>1, <2>3, EngineGoesOn
<1>3. ASSUME NEW r \in Replicas, EndPass(r) PROVE GateInv'
  <2> DEFINE new == [reading[r] EXCEPT !.ended = gateClock]
  <2>1. /\ reading' = [reading EXCEPT ![r] = NoPass] /\ latest' = [latest EXCEPT ![r] = new]
        /\ UNCHANGED <<setting, leg, inFlight, applied, marked, gate, answer, gateClock>>
    BY <1>3 DEF EndPass, fixedVars
  <2>2. new \in Passes /\ NoPass \in Passes
    BY <1>0 DEF EngineInv, Passes, NoPass, Never
  <2>3. EngineInv'
    BY <1>0, <2>1, <2>2 DEF EngineInv
  <2> QED
    BY <2>1, <2>3, EngineGoesOn
<1>4. CASE EstateMoves
  <2>1. EngineInv'
    BY <1>0, <1>4 DEF EngineInv, EstateMoves, engineVars
  <2> QED
    BY <1>4, <2>1, EngineGoesOn DEF EstateMoves, engineVars, fixedVars
<1>5. CASE GateTick
  <2>1. EngineInv'
    BY <1>0, <1>5 DEF EngineInv, GateTick, engineVars
  <2> QED
    BY <1>5, <2>1, EngineGoesOn DEF GateTick, engineVars, fixedVars
<1>6. CASE UNCHANGED gateVars
  <2>1. EngineInv'
    BY <1>0, <1>6 DEF EngineInv, gateVars
  <2> QED
    BY <1>6, <2>1, EngineGoesOn DEF gateVars
<1> QED
  BY <1>1, <1>2, <1>3, <1>4, <1>5, <1>6

---------------------------------------------------------------------------
(***************************************************************************)
(* The gate's own steps.                                                   *)
(***************************************************************************)

Looked(v) ==
  v.analysed /\ v.by = "record" =>
    /\ Stamped(applied)
    /\ setting.report /\ setting.tracked =>
         Complete /\ applied = Messages /\ \A m \in Messages : v.at > marked[m]

\* An exit with a verdict somebody looked for (reportAndExit).
LEMMA ExitIsSound ==
  ASSUME GateInv, EngineInv', UNCHANGED <<setting, applied, marked>>,
         NEW v, Exits(v), v.blocking \in {0, 1}, Looked(v)
  PROVE  GateInv'
<1>1. gate'.at = "exit" /\ gate'.code = ExitCode(v) /\ answer' = v
  BY DEF Exits
<1>2. NothingSent' /\ OnTheWay'
  BY <1>1 DEF NothingSent, Early, OnTheWay, Polls
<1>3. ASSUME Cleared' PROVE v.analysed /\ ~v.incomplete
  <2>1. ExitCode(v) = "clean" /\ ~setting.allowUnknown
    BY <1>1, <1>3 DEF Cleared
  <2>2. v.analysed /\ ~(v.incomplete /\ v.blocking = 0) /\ ~(v.blocking > 0)
    BY <2>1 DEF ExitCode
  <2> QED
    BY <2>2
<1>4. CleanMeansLooked'
  <2> SUFFICES ASSUME Cleared'
               PROVE  /\ v.analysed /\ ~v.incomplete
                      /\ v.by = "record" =>
                           /\ Stamped(applied)
                           /\ setting.report /\ setting.tracked =>
                                Complete /\ applied = Messages /\ \A m \in Messages : v.at > marked[m]
    BY <1>1 DEF CleanMeansLooked, Stamped, Complete
  <2> QED
    BY <1>3 DEF Looked
<1> QED
  BY <1>2, <1>4 DEF GateInv

LEMMA ErrorIsSound ==
  ASSUME GateInv, EngineInv', setting' = setting, Fails
  PROVE  GateInv'
<1>1. gate'.at = "exit" /\ gate'.code = "error"
  BY DEF Fails
<1> QED
  BY <1>1 DEF GateInv, NothingSent, Early, OnTheWay, Polls, CleanMeansLooked, Cleared

\* A comparison says what the change adds, which is not less than nothing.
LEMMA ComparedIsSound ==
  ASSUME GateInv
  PROVE  Compared.by = "comparison" /\ Compared.blocking \in {0, 1}
<1>1. Routes(applied, leg) = 1 => Routes(Messages, leg) = 1
  BY DEF GateInv, EngineInv, Routes
<1>2. Routes(applied, leg) \in {0, 1} /\ Routes(Messages, leg) \in {0, 1}
  BY RoutesCount
<1>3. (Routes(Messages, leg) - Routes(applied, leg)) \in {0, 1}
  BY <1>1, <1>2
<1> QED
  BY <1>2, <1>3 DEF Compared

LEMMA BeginKeeps == ASSUME GateInv, Begin PROVE GateInv'
<1>1. gate.at = "start" /\ UNCHANGED <<setting, leg, engineVars, answer, gateClock>>
  BY DEF Begin, fixedVars
<1>2. EngineInv'
  BY <1>1 DEF GateInv, EngineInv, engineVars
<1>3. inFlight' = {} /\ applied' = {}
  BY <1>1 DEF GateInv, NothingSent, Early, engineVars
<1>4. \/ gate' = [at |-> "impact"] /\ setting.report
      \/ gate' = [at |-> "post"] /\ setting.report
      \/ gate' = [at |-> "poll", floor |-> Never, analysed |-> FALSE] /\ ~setting.report
  <2>1. setting.attribution \in {"diff", "commit"} /\ setting.report \in BOOLEAN
    BY DEF GateInv, Modes
  <2> QED
    BY <2>1 DEF Begin
<1>5. NothingSent'
  BY <1>3 DEF NothingSent
<1>6. OnTheWay'
  BY <1>1, <1>4 DEF OnTheWay, Polls, Never
<1>7. CleanMeansLooked'
  BY <1>4 DEF CleanMeansLooked, Cleared
<1> QED
  BY <1>1, <1>2, <1>5, <1>6, <1>7 DEF GateInv

LEMMA AskImpactKeeps == ASSUME GateInv, AskImpact PROVE GateInv'
<1>1. gate.at = "impact" /\ UNCHANGED <<setting, leg, engineVars, gateClock>>
  BY DEF AskImpact, fixedVars
<1>2. EngineInv' /\ UNCHANGED <<applied, marked>>
  BY <1>1 DEF GateInv, EngineInv, engineVars
<1>3. inFlight' = {} /\ applied' = {} /\ setting.report
  BY <1>1 DEF GateInv, NothingSent, Early, engineVars, OnTheWay
<1>4. CASE gate' = [at |-> "post"] /\ answer' = answer
  BY <1>1, <1>2, <1>3, <1>4 DEF GateInv, NothingSent, OnTheWay, Polls, CleanMeansLooked, Cleared
<1>5. CASE Fails
  BY <1>1, <1>2, <1>5, ErrorIsSound
<1>6. CASE gate' = [at |-> "persist"] /\ answer' = Compared
  BY <1>1, <1>2, <1>3, <1>6, ComparedIsSound DEF GateInv, NothingSent, OnTheWay, Polls, CleanMeansLooked, Cleared
<1>7. CASE Exits(Compared)
  <2>1. Looked(Compared) /\ Compared.blocking \in {0, 1}
    BY ComparedIsSound DEF Looked
  <2> QED
    BY <1>1, <1>2, <1>7, <2>1, ExitIsSound
<1> QED
  BY <1>4, <1>5, <1>6, <1>7 DEF AskImpact

LEMMA PersistKeeps == ASSUME GateInv, Persist PROVE GateInv'
<1>1. gate.at = "persist" /\ Exits(answer) /\ UNCHANGED <<setting, leg, applied, marked, reading, latest, gateClock>>
  BY DEF Persist, fixedVars
<1>2. applied = {} /\ (inFlight' = Messages \/ inFlight' = inFlight)
  BY <1>1 DEF Persist, GateInv, NothingSent, Early
<1>3. EngineInv'
  BY <1>1, <1>2 DEF GateInv, EngineInv
<1>4. answer.blocking \in {0, 1} /\ Looked(answer)
  BY <1>1 DEF GateInv, OnTheWay, Looked
<1> QED
  BY <1>1, <1>3, <1>4, ExitIsSound

LEMMA PostKeeps == ASSUME GateInv, Post PROVE GateInv'
<1>1. gate.at = "post" /\ UNCHANGED <<setting, leg, applied, marked, reading, latest, gateClock>>
  BY DEF Post, fixedVars
<1>2. applied = {} /\ (inFlight' = Messages \/ inFlight' = inFlight)
  BY <1>1 DEF Post, GateInv, NothingSent, Early
<1>3. EngineInv'
  BY <1>1, <1>2 DEF GateInv, EngineInv
<1>4. CASE Fails
  BY <1>1, <1>3, <1>4, ErrorIsSound
<1>5. CASE /\ gate' = IF setting.tracked THEN [at |-> "batch", floor |-> gateClock + RunnerSkew]
                      ELSE [at |-> "poll", floor |-> gateClock + RunnerSkew, analysed |-> FALSE]
           /\ answer' = answer
  <2>1. gateClock + RunnerSkew \in Int
    BY GateAssumption DEF GateAssumption, GateInv, EngineInv
  <2>2. \/ gate' = [at |-> "batch", floor |-> gateClock + RunnerSkew]
        \/ gate' = [at |-> "poll", floor |-> gateClock + RunnerSkew, analysed |-> FALSE] /\ ~setting.tracked
    BY <1>5
  <2>3. NothingSent' /\ CleanMeansLooked'
    BY <2>2 DEF NothingSent, Early, CleanMeansLooked, Cleared
  <2>4. OnTheWay'
    BY <1>1, <2>1, <2>2 DEF OnTheWay, Polls
  <2> QED
    BY <1>1, <1>3, <2>3, <2>4 DEF GateInv
<1> QED
  BY <1>4, <1>5 DEF Post

LEMMA WaitForBatchKeeps == ASSUME GateInv, WaitForBatch PROVE GateInv'
<1>1. gate.at = "batch" /\ UNCHANGED <<setting, leg, engineVars, gateClock>>
  BY DEF WaitForBatch, fixedVars
<1>2. EngineInv' /\ UNCHANGED <<applied, marked>>
  BY <1>1 DEF GateInv, EngineInv, engineVars
<1>3. ASSUME Complete, answer' = answer, NEW t \in {marked[m] : m \in Messages}, MarkedBy(t),
             gate' = [at |-> "poll", floor |-> IF t > gate.floor THEN t ELSE gate.floor, analysed |-> FALSE]
      PROVE  GateInv'
  <2>1. gate.floor \in Int /\ t \in Int /\ \A m \in Messages : marked[m] \in Int
    BY <1>1 DEF GateInv, OnTheWay, EngineInv, Never
  <2>2. gate'.at = "poll" /\ gate'.floor \in Int /\ gate'.floor >= t
    BY <1>3, <2>1
  <2>3. MarkedSince(gate'.floor)
    BY <1>3, <2>1, <2>2 DEF Complete, MarkedBy, MarkedSince
  <2>4. OnTheWay'
    BY <1>2, <2>2, <2>3 DEF OnTheWay, Polls, MarkedSince
  <2> QED
    BY <1>1, <1>2, <2>2, <2>4 DEF GateInv, NothingSent, Early, CleanMeansLooked, Cleared
<1>4. CASE BatchOverdue(gate.floor)
  <2> DEFINE v == [NoAnswer EXCEPT !.by = "record"]
  <2>1. ~v.analysed /\ v.blocking \in {0, 1}
    BY DEF NoAnswer
  <2>2. Exits(v) /\ Looked(v)
    BY <1>4, <2>1 DEF BatchOverdue, Looked
  <2> QED
    BY <1>1, <1>2, <2>1, <2>2, ExitIsSound
<1>5. CASE Fails
  BY <1>1, <1>2, <1>5, ErrorIsSound
<1> QED
  BY <1>3, <1>4, <1>5 DEF WaitForBatch

LEMMA AskAnalysedKeeps == ASSUME GateInv, NEW r \in Replicas, AskAnalysed(r) PROVE GateInv'
<1>1. gate.at = "poll" /\ UNCHANGED <<setting, leg, engineVars, gateClock>>
  BY DEF AskAnalysed, fixedVars
<1>2. EngineInv' /\ UNCHANGED <<applied, marked>>
  BY <1>1 DEF GateInv, EngineInv, engineVars
<1>3. CASE /\ gate' = [at |-> "paths", floor |-> gate.floor, from |-> r, analysed |-> Stamped(applied)]
           /\ answer' = answer
  BY <1>1, <1>2, <1>3
  DEF GateInv, NothingSent, Early, OnTheWay, Polls, MarkedSince, CleanMeansLooked, Cleared, Stamped
<1>4. CASE Fails
  BY <1>1, <1>2, <1>4, ErrorIsSound
<1> QED
  BY <1>3, <1>4 DEF AskAnalysed

LEMMA ReadPathsKeeps == ASSUME GateInv, ReadPaths PROVE GateInv'
<1> DEFINE p == latest[gate.from]
           blocking == IF Stamped(p.saw) THEN Routes(p.saw, p.leg) ELSE 0
<1>1. /\ gate.at = "paths" /\ UNCHANGED <<setting, leg, engineVars, answer, gateClock>>
      /\ gate' = [at |-> "dated", floor |-> gate.floor, from |-> gate.from, analysed |-> gate.analysed,
                  blocking |-> blocking, saw |-> p.saw]
  BY DEF ReadPaths, fixedVars
<1>2. EngineInv' /\ UNCHANGED <<applied, marked>>
  BY <1>1 DEF GateInv, EngineInv, engineVars
<1>3. blocking \in {0, 1}
  BY RoutesCount
<1> HIDE DEF blocking
<1>4. OnTheWay'
  BY <1>1, <1>2, <1>3 DEF GateInv, OnTheWay, Polls, MarkedSince, Stamped
<1> QED
  BY <1>1, <1>2, <1>4 DEF GateInv, NothingSent, Early, CleanMeansLooked, Cleared

\* A verdict newer than the floor is of a pass that ended after the last mark (waitForVerdict).
LEMMA JudgeKeeps == ASSUME GateInv, Judge PROVE GateInv'
<1> DEFINE at == latest[gate.from].ended
           v == [analysed |-> gate.analysed, blocking |-> gate.blocking, at |-> at, incomplete |-> FALSE,
                 by |-> "record", saw |-> gate.saw]
<1>1. gate.at = "dated" /\ UNCHANGED <<setting, leg, engineVars, gateClock>>
  BY DEF Judge, fixedVars
<1>2. EngineInv' /\ UNCHANGED <<applied, marked>>
  BY <1>1 DEF GateInv, EngineInv, engineVars
<1>3. at \in Int /\ gate.floor \in Int /\ v.blocking \in {0, 1}
  BY <1>1 DEF GateInv, EngineInv, OnTheWay, Polls, Passes
<1>4. CASE Exits(v) /\ gate.analysed /\ (gate.floor = Never \/ at > gate.floor)
  <2>1. Stamped(applied)
    BY <1>1, <1>4 DEF GateInv, OnTheWay
  <2>2. ASSUME setting.report, setting.tracked
        PROVE  Complete /\ applied = Messages /\ \A m \in Messages : at > marked[m]
    <3>1. MarkedSince(gate.floor)
      BY <1>1, <2>2 DEF GateInv, OnTheWay, Polls
    <3>2. \A m \in Messages : marked[m] \in Nat
      BY <3>1 DEF MarkedSince, GateInv, EngineInv
    <3>3. Complete /\ applied = Messages
      BY <3>1 DEF MarkedSince, Complete, GateInv, EngineInv
    <3>4. ASSUME NEW m \in Messages PROVE at > marked[m]
      <4>1. marked[m] <= gate.floor /\ gate.floor # Never
        BY <1>3, <3>1, <3>2 DEF MarkedSince, Never
      <4> QED
        BY <1>3, <1>4, <3>2, <4>1
    <3> QED
      BY <3>3, <3>4
  <2>3. Looked(v)
    BY <2>1, <2>2 DEF Looked
  <2> QED
    BY <1>1, <1>2, <1>3, <1>4, <2>3, ExitIsSound
<1>5. CASE gate' = [at |-> "poll", floor |-> gate.floor, analysed |-> FALSE] /\ answer' = answer
  BY <1>1, <1>2, <1>5
  DEF GateInv, NothingSent, Early, OnTheWay, Polls, MarkedSince, CleanMeansLooked, Cleared
<1>6. CASE Exits([v EXCEPT !.analysed = FALSE])
  <2> DEFINE u == [v EXCEPT !.analysed = FALSE]
  <2>1. ~u.analysed /\ u.blocking = gate.blocking
    OBVIOUS
  <2>2. Looked(u) /\ u.blocking \in {0, 1}
    BY <1>3, <2>1 DEF Looked
  <2> QED
    BY <1>1, <1>2, <1>6, <2>2, ExitIsSound
<1> QED
  BY <1>4, <1>5, <1>6 DEF Judge

LEMMA JudgeLocallyKeeps == ASSUME GateInv, JudgeLocally PROVE GateInv'
<1>1. UNCHANGED <<setting, leg, engineVars, gateClock>>
  BY DEF JudgeLocally, fixedVars
<1>2. EngineInv' /\ UNCHANGED <<applied, marked>>
  BY <1>1 DEF GateInv, EngineInv, engineVars
<1>3. CASE Fails
  BY <1>1, <1>2, <1>3, ErrorIsSound
<1>4. ASSUME NEW e \in EstateReads, Exits(LocalVerdict(e)) PROVE GateInv'
  <2>1. LocalVerdict(e).blocking \in {0, 1} /\ LocalVerdict(e).by = "local"
    BY RoutesCount DEF LocalVerdict
  <2>2. Looked(LocalVerdict(e))
    BY <2>1 DEF Looked
  <2> QED
    BY <1>1, <1>2, <1>4, <2>1, <2>2, ExitIsSound
<1> QED
  BY <1>3, <1>4 DEF JudgeLocally

LEMMA StepKeepsGate == GateInv /\ [GateNext]_gateVars => GateInv'
BY EngineSteps, BeginKeeps, AskImpactKeeps, PersistKeeps, PostKeeps, WaitForBatchKeeps, AskAnalysedKeeps,
   ReadPathsKeeps, JudgeKeeps, JudgeLocallyKeeps
DEF GateNext

\* A build is let through only if somebody looked (serverVerdict, waitForBatch,
\* waitForVerdict, collect2, reportAndExit).
THEOREM GateLooks == GateSpec => []CleanMeansLooked
<1>1. GateInv => CleanMeansLooked
  BY DEF GateInv
<1> QED
  BY <1>1, GateInitially, StepKeepsGate, PTL DEF GateSpec

---------------------------------------------------------------------------
(***************************************************************************)
(* A fix's pull request is whole and a path has one comment, for any       *)
(* number of replicas, paths and requests, whatever calls fail or lose     *)
(* their answers, and in whatever order they come.                         *)
(***************************************************************************)

---------------------------------------------------------------------------
(***************************************************************************)
(* The fix.  The branch is the lock: whoever creates it commits alone, and *)
(* nobody after a failure.                                                 *)
(***************************************************************************)

FixFiles == UNION {FilesOf[q] : q \in FixRequests}
FixSteps == [at : {"none", "branch", "failed", "done"}] \cup [at : {"commit"}, left : SUBSET FixFiles]

FixTyped == fix \in [FixRequests -> FixSteps] /\ branch \in [there : BOOLEAN, files : SUBSET FixFiles]

Commits(q) == fix[q].at = "commit"

\* A branch that is not there has no files.
NoBranchNoFiles == ~branch.there => branch.files = {}

\* At most one request commits, on a branch that holds what it has committed.
OneCommits ==
  \A q \in FixRequests : Commits(q) =>
    /\ branch.there
    /\ fix[q].left \subseteq FilesOf[q]
    /\ branch.files = FilesOf[q] \ fix[q].left
    /\ \A o \in FixRequests : Commits(o) => o = q

FixInv == FixTyped /\ NoBranchNoFiles /\ OneCommits /\ FixIsWhole

LEMMA FixInitially == ForgeInit => FixInv
<1> SUFFICES ASSUME ForgeInit PROVE FixInv
  OBVIOUS
<1>1. branch = [there |-> FALSE, files |-> {}] /\ opened = {} /\ fix = [q \in FixRequests |-> [at |-> "none"]]
  BY DEF ForgeInit, NoBranch
<1>2. fix \in [FixRequests -> FixSteps]
  BY <1>1 DEF FixSteps
<1>3. branch \in [there : BOOLEAN, files : SUBSET FixFiles]
  BY <1>1
<1>4. OneCommits
  BY <1>1 DEF OneCommits, Commits
<1> QED
  BY <1>1, <1>2, <1>3, <1>4 DEF FixInv, FixTyped, NoBranchNoFiles, FixIsWhole

\* The branch is created by one request, and only when it is not there (CreateBranch).
LEMMA CreateKeepsFix ==
  ASSUME FixInv, NEW q \in FixRequests, CreateBranch(q)
  PROVE  FixInv'
<1>1. FilesOf[q] \subseteq FixFiles
  BY DEF FixFiles
<1>2. DOMAIN fix = FixRequests /\ fix[q].at = "branch" /\ opened' = opened
  BY DEF FixInv, FixTyped, CreateBranch
<1>3. CASE /\ BranchGranted
           /\ branch' = [branch EXCEPT !.there = TRUE]
           /\ Goes(q, [at |-> "commit", left |-> FilesOf[q]])
  <2>1. fix'[q] = [at |-> "commit", left |-> FilesOf[q]] /\ \A o \in FixRequests \ {q} : fix'[o] = fix[o]
    BY <1>2, <1>3 DEF Goes
  <2>2. branch' = [there |-> TRUE, files |-> {}]
    BY <1>3 DEF BranchGranted, FixInv, FixTyped, NoBranchNoFiles
  <2>3. \A o \in FixRequests : ~Commits(o)
    BY <1>3 DEF BranchGranted, FixInv, OneCommits
  <2>4. FixTyped'
    BY <1>1, <1>3, <2>2 DEF FixInv, FixTyped, FixSteps, Goes
  <2>5. OneCommits'
    BY <2>1, <2>2, <2>3 DEF OneCommits, Commits
  <2> QED
    BY <1>2, <2>2, <2>4, <2>5 DEF FixInv, NoBranchNoFiles, FixIsWhole
<1>4. CASE /\ BranchGranted
           /\ branch' \in {branch, [branch EXCEPT !.there = TRUE]}
           /\ Goes(q, Failed)
  <2>1. fix'[q] = Failed /\ \A o \in FixRequests \ {q} : fix'[o] = fix[o]
    BY <1>2, <1>4 DEF Goes
  <2>2. \A o \in FixRequests : ~Commits(o) /\ ~Commits(o)'
    BY <1>4, <2>1 DEF BranchGranted, FixInv, OneCommits, Commits, Failed
  <2>3. FixTyped'
    BY <1>4 DEF FixInv, FixTyped, FixSteps, Goes, Failed
  <2>4. NoBranchNoFiles'
    BY <1>4 DEF BranchGranted, FixInv, FixTyped, NoBranchNoFiles
  <2> QED
    BY <1>2, <2>2, <2>3, <2>4 DEF FixInv, OneCommits, FixIsWhole
<1>5. CASE Goes(q, Failed) /\ branch' = branch
  <2>1. fix'[q] = Failed /\ \A o \in FixRequests \ {q} : fix'[o] = fix[o]
    BY <1>2, <1>5 DEF Goes
  <2>2. FixTyped'
    BY <1>5 DEF FixInv, FixTyped, FixSteps, Goes, Failed
  <2>3. OneCommits'
    BY <1>5, <2>1 DEF FixInv, OneCommits, Commits, Failed
  <2> QED
    BY <1>2, <1>5, <2>2, <2>3 DEF FixInv, NoBranchNoFiles, FixIsWhole
<1> QED
  BY <1>3, <1>4, <1>5 DEF CreateBranch

\* A commit moves one file from what is left to the branch, or ends the fix (CommitFile).
LEMMA CommitKeepsFix ==
  ASSUME FixInv, NEW q \in FixRequests, CommitFile(q)
  PROVE  FixInv'
<1>1. /\ DOMAIN fix = FixRequests /\ opened' = opened
      /\ Commits(q) /\ branch.there /\ fix[q].left \subseteq FilesOf[q]
      /\ branch.files = FilesOf[q] \ fix[q].left
      /\ \A o \in FixRequests : Commits(o) => o = q
  BY DEF FixInv, FixTyped, OneCommits, CommitFile, Commits
<1>2. fix[q] \in [at : {"commit"}, left : SUBSET FixFiles]
  BY <1>1 DEF FixInv, FixTyped, FixSteps, Commits
<1>3. PICK f \in fix[q].left :
        \/ /\ branch' = [branch EXCEPT !.files = @ \cup {f}]
           /\ Goes(q, [fix[q] EXCEPT !.left = @ \ {f}])
        \/ branch' \in {branch, [branch EXCEPT !.files = @ \cup {f}]} /\ Goes(q, Failed)
  BY DEF CommitFile
<1>4. f \in FixFiles /\ f \in FilesOf[q]
  BY <1>1, <1>2, <1>3
<1>5. CASE /\ branch' = [branch EXCEPT !.files = @ \cup {f}]
           /\ Goes(q, [fix[q] EXCEPT !.left = @ \ {f}])
  <2>1. branch' = [there |-> TRUE, files |-> branch.files \cup {f}]
    BY <1>1, <1>5 DEF FixInv, FixTyped
  <2>2. fix'[q] = [at |-> "commit", left |-> fix[q].left \ {f}] /\ \A o \in FixRequests \ {q} : fix'[o] = fix[o]
    BY <1>1, <1>2, <1>5 DEF Goes
  <2>3. FixTyped'
    <3>1. [fix[q] EXCEPT !.left = @ \ {f}] \in FixSteps
      BY <1>2 DEF FixSteps
    <3> QED
      BY <1>4, <1>5, <2>1, <3>1 DEF FixInv, FixTyped, Goes
  <2>4. branch'.files = FilesOf[q] \ fix'[q].left /\ fix'[q].left \subseteq FilesOf[q]
    BY <1>1, <1>4, <2>1, <2>2
  <2>5. OneCommits'
    BY <1>1, <2>1, <2>2, <2>4 DEF OneCommits, Commits
  <2> QED
    BY <1>1, <2>1, <2>3, <2>5 DEF FixInv, NoBranchNoFiles, FixIsWhole
<1>6. CASE branch' \in {branch, [branch EXCEPT !.files = @ \cup {f}]} /\ Goes(q, Failed)
  <2>1. fix'[q] = Failed /\ \A o \in FixRequests \ {q} : fix'[o] = fix[o]
    BY <1>1, <1>6 DEF Goes
  <2>2. \A o \in FixRequests : ~Commits(o)'
    BY <1>1, <2>1 DEF Commits, Failed
  <2>3. FixTyped'
    BY <1>4, <1>6 DEF FixInv, FixTyped, FixSteps, Goes, Failed
  <2>4. branch'.there
    BY <1>1, <1>6 DEF FixInv, FixTyped
  <2> QED
    BY <1>1, <2>2, <2>3, <2>4 DEF FixInv, NoBranchNoFiles, OneCommits, FixIsWhole
<1> QED
  BY <1>3, <1>5, <1>6

\* What is opened is a branch with nothing left to commit (OpenPR).
LEMMA OpenKeepsFix ==
  ASSUME FixInv, NEW q \in FixRequests, OpenPR(q)
  PROVE  FixInv'
<1>1. Commits(q) /\ fix[q].left = {} /\ branch' = branch
  BY DEF OpenPR, ReadyToOpen, Commits
<1>2. branch.files = FilesOf[q] /\ DOMAIN fix = FixRequests
  BY <1>1 DEF FixInv, FixTyped, OneCommits
<1>3. opened' \subseteq opened \cup {[by |-> q, files |-> FilesOf[q]]}
  BY <1>2 DEF OpenPR
<1>4. PICK step \in {Failed, [at |-> "done"]} : Goes(q, step)
  BY DEF OpenPR
<1>5. fix'[q] = step /\ \A o \in FixRequests \ {q} : fix'[o] = fix[o]
  BY <1>2, <1>4 DEF Goes
<1>6. FixTyped'
  BY <1>1, <1>4 DEF FixInv, FixTyped, FixSteps, Goes, Failed
<1>7. OneCommits'
  BY <1>1, <1>4, <1>5 DEF FixInv, OneCommits, Commits, Failed
<1>8. FixIsWhole'
  BY <1>3 DEF FixInv, FixIsWhole
<1> QED
  BY <1>1, <1>6, <1>7, <1>8 DEF FixInv, NoBranchNoFiles

LEMMA StepKeepsFix == FixInv /\ [ForgeNext]_forgeVars => FixInv'
<1> SUFFICES ASSUME FixInv, [ForgeNext]_forgeVars PROVE FixInv'
  OBVIOUS
<1>1. CASE UNCHANGED fixVars
  BY <1>1 DEF fixVars, FixInv, FixTyped, NoBranchNoFiles, OneCommits, Commits, FixIsWhole
<1>2. ASSUME NEW q \in FixRequests, OpenRemediationPR(q) PROVE FixInv'
  <2>1. PICK step \in {Failed, [at |-> "branch"]} : Goes(q, step)
    BY <1>2 DEF OpenRemediationPR
  <2>2. DOMAIN fix = FixRequests /\ branch' = branch /\ opened' = opened
    BY <1>2 DEF OpenRemediationPR, FixInv, FixTyped
  <2>3. fix'[q] = step /\ \A o \in FixRequests \ {q} : fix'[o] = fix[o]
    BY <2>1, <2>2 DEF Goes
  <2>4. FixTyped'
    BY <2>1, <2>2 DEF FixInv, FixTyped, FixSteps, Goes, Failed
  <2>5. OneCommits'
    BY <2>1, <2>2, <2>3 DEF FixInv, OneCommits, Commits, Failed
  <2> QED
    BY <2>2, <2>4, <2>5 DEF FixInv, NoBranchNoFiles, FixIsWhole
<1>3. ASSUME NEW r \in Commenters, NEW p \in CommentedPaths, Upsert(r, p) PROVE FixInv'
  BY <1>1, <1>3 DEF Upsert
<1>4. ASSUME NEW r \in Commenters,
             Find(r) \/ WriteComment(r) \/ LeaderChanges(r) \/ RestartCommenter(r)
      PROVE  FixInv'
  BY <1>1, <1>4 DEF Find, WriteComment, LeaderChanges, RestartCommenter
<1>5. ASSUME NEW p \in CommentedPaths, NEW b \in Bodies \cup {Blank}, Reworded(p, b) PROVE FixInv'
  BY <1>1, <1>5 DEF Reworded
<1>6. CASE PersonComments
  BY <1>1, <1>6 DEF PersonComments
<1>7. CASE UNCHANGED forgeVars
  BY <1>1, <1>7 DEF forgeVars
<1> QED
  BY <1>2, <1>3, <1>4, <1>5, <1>6, <1>7, CreateKeepsFix, CommitKeepsFix, OpenKeepsFix DEF ForgeNext

\* A fix's pull request carries the files of one request, all of them (openRemediationPR).
THEOREM FixesAreWhole == ForgeSpec => []FixIsWhole
<1>1. FixInv => FixIsWhole
  BY DEF FixInv
<1> QED
  BY <1>1, FixInitially, StepKeepsFix, PTL DEF ForgeSpec

---------------------------------------------------------------------------
(***************************************************************************)
(* The comments.  While nobody was excused, one replica posts at a time,   *)
(* and what it found at its search still holds when it writes.             *)
(***************************************************************************)

Comments == [route : CommentedPaths \cup {Blank}, body : Bodies \cup {Blank}]
Posts == {Nothing} \cup [at : {"find", "write"}, route : CommentedPaths, body : Bodies \cup {Blank}, id : Nat]

CommentsTyped ==
  /\ says \in [CommentedPaths -> Bodies \cup {Blank}]
  /\ comments \in Seq(Comments)
  /\ landed \in [Commenters -> [CommentedPaths -> Bodies \cup {Blank}]]
  /\ post \in [Commenters -> Posts]
  /\ shown \in [CommentedPaths -> SUBSET (Bodies \cup {Blank})]
  /\ excused \in BOOLEAN

OnePosts == \A r, s \in Commenters : post[r] # Nothing /\ post[s] # Nothing => r = s

\* Where a path has two comments, the search reaches neither.
DoublesAreFar == \A p \in CommentedPaths : \A i, j \in Marked(p) : i # j => i > Searched

\* Who is about to create a comment would not find one if it searched again.
StillNotFound ==
  \A r \in Commenters : post[r].at = "write" /\ post[r].id = 0 =>
    \A i \in Marked(post[r].route) : i > Searched

CommentsInv ==
  /\ CommentsTyped
  /\ ~excused => OnePosts /\ DoublesAreFar /\ StillNotFound
  /\ PostedWasShown

LEMMA SearchIsInt == Searched \in Int
BY ForgeAssumption DEF ForgeAssumption, Searched

LEMMA CommentsInitially == ForgeInit => CommentsInv
<1> SUFFICES ASSUME ForgeInit PROVE CommentsInv
  OBVIOUS
<1>1. CommentsTyped
  <2>1. excused \in BOOLEAN /\ says \in [CommentedPaths -> Bodies \cup {Blank}]
    BY DEF ForgeInit
  <2>4. comments = << >>
    BY DEF ForgeInit
  <2>5. comments \in Seq(Comments)
    BY <2>4
  <2>2. landed \in [Commenters -> [CommentedPaths -> Bodies \cup {Blank}]]
    BY DEF ForgeInit
  <2>3. post \in [Commenters -> Posts] /\ shown \in [CommentedPaths -> SUBSET (Bodies \cup {Blank})]
    BY DEF ForgeInit, Posts
  <2> QED
    BY <2>1, <2>2, <2>3, <2>5 DEF CommentsTyped
<1>2. OnePosts /\ StillNotFound
  BY DEF ForgeInit, OnePosts, StillNotFound, Nothing
<1>3. DoublesAreFar
  <2>1. DOMAIN comments = {}
    BY DEF ForgeInit
  <2> QED
    BY <2>1 DEF DoublesAreFar, Marked
<1>4. PostedWasShown
  BY DEF ForgeInit, PostedWasShown
<1> QED
  BY <1>1, <1>2, <1>3, <1>4 DEF CommentsInv

LEMMA UpsertKeepsComments ==
  ASSUME CommentsInv, NEW r \in Commenters, NEW p \in CommentedPaths, Upsert(r, p)
  PROVE  CommentsInv'
<1> DEFINE new == [at |-> "find", route |-> p, body |-> says[p], id |-> 0]
<1>1. /\ post' = [post EXCEPT ![r] = new]
      /\ post[r] = Nothing /\ excused' = (excused \/ Others(r))
      /\ UNCHANGED <<says, comments, landed, shown>>
  BY DEF Upsert
<1>2. new \in Posts
  BY DEF CommentsInv, CommentsTyped, Posts
<1>3. CommentsTyped'
  BY <1>1, <1>2 DEF CommentsInv, CommentsTyped
<1>4. post'[r] = new /\ \A s \in Commenters \ {r} : post'[s] = post[s]
  BY <1>1 DEF CommentsInv, CommentsTyped
<1>5. ASSUME ~excused' PROVE (OnePosts /\ DoublesAreFar /\ StillNotFound)'
  <2>1. ~excused /\ \A s \in Commenters \ {r} : post[s] = Nothing
    BY <1>1, <1>5 DEF Others
  <2>2. OnePosts'
    BY <1>4, <2>1 DEF OnePosts
  <2>3. DoublesAreFar'
    BY <1>1, <2>1 DEF CommentsInv, DoublesAreFar, Marked, Searched
  <2>4. StillNotFound'
    BY <1>4, <2>1 DEF StillNotFound, Nothing
  <2> QED
    BY <2>2, <2>3, <2>4
<1>6. PostedWasShown'
  BY <1>1 DEF CommentsInv, PostedWasShown
<1> QED
  BY <1>3, <1>5, <1>6 DEF CommentsInv

LEMMA FindKeepsComments ==
  ASSUME CommentsInv, NEW r \in Commenters, Find(r)
  PROVE  CommentsInv'
<1> DEFINE found == {i \in Marked(post[r].route) : i <= Searched}
<1>1. /\ UNCHANGED <<says, comments, landed, shown, excused>>
      /\ post[r].at = "find"
  BY DEF Find
<1>2. post[r] \in [at : {"find", "write"}, route : CommentedPaths, body : Bodies \cup {Blank}, id : Nat]
  <2>1. post[r] \in Posts /\ post[r] # Nothing
    BY <1>1 DEF CommentsInv, CommentsTyped, Nothing
  <2> QED
    BY <2>1 DEF Posts
<1>3. found \in SUBSET (Nat \ {0})
  <2>1. DOMAIN comments = 1..Len(comments) /\ Len(comments) \in Nat
    BY DEF CommentsInv, CommentsTyped
  <2> QED
    BY <2>1 DEF Marked
<1>4. PostedWasShown'
  BY <1>1 DEF CommentsInv, PostedWasShown
<1>5. DoublesAreFar => DoublesAreFar'
  BY <1>1 DEF DoublesAreFar, Marked, Searched
<1>6. ASSUME NEW id \in found \cup {0}, id = 0 => found = {},
             post' = [post EXCEPT ![r] = [at |-> "write", route |-> @.route, body |-> @.body, id |-> id]]
      PROVE  CommentsInv'
  <2> DEFINE next == [at |-> "write", route |-> post[r].route, body |-> post[r].body, id |-> id]
  <2>1. next \in Posts
    <3>1. id \in Nat
      BY <1>3
    <3> QED
      BY <1>2, <3>1 DEF Posts
  <2>2. post' = [post EXCEPT ![r] = next]
    BY <1>6
  <2>3. post'[r] = next /\ \A s \in Commenters \ {r} : post'[s] = post[s]
    BY <2>2 DEF CommentsInv, CommentsTyped
  <2>4. CommentsTyped'
    BY <1>1, <2>1, <2>2 DEF CommentsInv, CommentsTyped
  <2>5. OnePosts => OnePosts'
    BY <1>1, <2>3 DEF OnePosts, Nothing
  <2>6. StillNotFound => StillNotFound'
    <3> SUFFICES ASSUME StillNotFound, NEW s \in Commenters, post'[s].at = "write", post'[s].id = 0,
                        NEW i \in Marked(post'[s].route)
                 PROVE  i > Searched
      BY <1>1 DEF StillNotFound, Marked, Searched
    <3>1. i \in Int
      BY DEF Marked, CommentsInv, CommentsTyped
    <3>2. CASE s = r
      <4>1. found = {} /\ i \in Marked(post[r].route)
        BY <1>6, <2>3, <3>2
      <4> QED
        BY <3>1, <4>1, SearchIsInt
    <3>3. CASE s # r
      BY <2>3, <3>3 DEF StillNotFound
    <3> QED
      BY <3>2, <3>3
  <2> QED
    BY <1>1, <1>4, <1>5, <2>4, <2>5, <2>6 DEF CommentsInv
<1>7. CASE post' = [post EXCEPT ![r] = Nothing]
  <2>1. post'[r] = Nothing /\ \A s \in Commenters \ {r} : post'[s] = post[s]
    BY <1>7 DEF CommentsInv, CommentsTyped
  <2>2. CommentsTyped'
    BY <1>1, <1>7 DEF CommentsInv, CommentsTyped, Posts
  <2>3. OnePosts => OnePosts'
    BY <2>1 DEF OnePosts
  <2>4. StillNotFound => StillNotFound'
    BY <1>1, <2>1 DEF StillNotFound, Nothing, Marked, Searched
  <2> QED
    BY <1>1, <1>4, <1>7, <2>2, <2>3, <2>4, <1>5 DEF CommentsInv
<1>8. \/ \E id \in found \cup {0} :
           /\ id = 0 => found = {}
           /\ post' = [post EXCEPT ![r] = [at |-> "write", route |-> @.route, body |-> @.body, id |-> id]]
      \/ post' = [post EXCEPT ![r] = Nothing]
  BY <1>3 DEF Find
<1> QED
  BY <1>6, <1>7, <1>8

\* A comment that is written is marked for its path, at its end or where one was found.
LEMMA WriteMarks ==
  ASSUME CommentsInv, NEW w \in [at : {"write"}, route : CommentedPaths, body : Bodies \cup {Blank}, id : Nat],
         comments' = Written(w)
  PROVE  /\ comments' \in Seq(Comments)
         /\ \A p : w.id # 0 => Marked(p)' = Marked(p)
         /\ \A p : p # w.route => Marked(p)' = Marked(p)
         /\ w.id = 0 => Marked(w.route)' = Marked(w.route) \cup {Len(comments) + 1}
<1>1. comments \in Seq(Comments)
  BY DEF CommentsInv, CommentsTyped
<1>2. CASE w.id = 0
  <2> DEFINE new == [route |-> w.route, body |-> w.body]
  <2>1. comments' = Append(comments, new) /\ new \in Comments
    BY <1>2 DEF Written, Comments
  <2>2. /\ comments' \in Seq(Comments) /\ Len(comments') = Len(comments) + 1
        /\ \A i \in 1..Len(comments) : comments'[i] = comments[i]
        /\ comments'[Len(comments) + 1] = new
    BY <1>1, <2>1
  <2>3. DOMAIN comments = 1..Len(comments) /\ DOMAIN comments' = 1..(Len(comments) + 1) /\ Len(comments) \in Nat
    BY <1>1, <2>2
  <2>4. \A p : p # w.route => Marked(p)' = Marked(p)
    BY <2>2, <2>3 DEF Marked
  <2>5. Marked(w.route)' = Marked(w.route) \cup {Len(comments) + 1}
    BY <2>2, <2>3 DEF Marked
  <2> QED
    BY <1>2, <2>2, <2>4, <2>5
<1>3. CASE w.id # 0
  <2>1. comments' = [comments EXCEPT ![w.id].body = w.body]
    BY <1>3 DEF Written
  <2>2. DOMAIN comments' = DOMAIN comments /\ DOMAIN comments = 1..Len(comments) /\ Len(comments) \in Nat
    BY <1>1, <2>1
  <2>3. \A i \in DOMAIN comments : comments[i] \in Comments
    BY <1>1
  <2>4. \A i \in DOMAIN comments : comments'[i].route = comments[i].route /\ comments'[i] \in Comments
    BY <2>1, <2>3 DEF Comments
  <2>5. comments' = [i \in 1..Len(comments) |-> comments'[i]]
    BY <2>1, <2>2
  <2>6. comments' \in [1..Len(comments) -> Comments]
    BY <2>2, <2>4, <2>5
  <2>7. comments' \in Seq(Comments)
    BY <2>2, <2>6, SeqDef
  <2>8. \A p : Marked(p)' = Marked(p)
    BY <2>2, <2>4 DEF Marked
  <2> QED
    BY <1>3, <2>7, <2>8
<1> QED
  BY <1>2, <1>3

LEMMA WriteKeepsComments ==
  ASSUME CommentsInv, NEW r \in Commenters, WriteComment(r)
  PROVE  CommentsInv'
<1> DEFINE w == post[r]
<1>1. /\ w.at = "write" /\ post' = [post EXCEPT ![r] = Nothing]
      /\ UNCHANGED <<says, excused>>
  BY DEF WriteComment
<1>2. w \in [at : {"write"}, route : CommentedPaths, body : Bodies \cup {Blank}, id : Nat]
  <2>1. w \in Posts /\ w # Nothing
    BY <1>1 DEF CommentsInv, CommentsTyped, Nothing
  <2> QED
    BY <1>1, <2>1 DEF Posts
<1>3. post'[r] = Nothing /\ (\A s \in Commenters \ {r} : post'[s] = post[s]) /\ post' \in [Commenters -> Posts]
  BY <1>1 DEF CommentsInv, CommentsTyped, Posts
<1>4. OnePosts => OnePosts'
  BY <1>3 DEF OnePosts
<1>5. CASE /\ comments' = Written(w)
           /\ shown' = [shown EXCEPT ![w.route] = @ \cup {w.body}]
           /\ \E ok \in BOOLEAN : landed' = [landed EXCEPT ![r] = Remembered(w.route, @, w.body, ok)]
  <2>1. PICK ok \in BOOLEAN : landed' = [landed EXCEPT ![r] = Remembered(w.route, @, w.body, ok)]
    BY <1>5
  <2>2. landed' \in [Commenters -> [CommentedPaths -> Bodies \cup {Blank}]]
    BY <1>2, <2>1 DEF CommentsInv, CommentsTyped, Remembered
  <2>3. shown' \in [CommentedPaths -> SUBSET (Bodies \cup {Blank})]
    BY <1>2, <1>5 DEF CommentsInv, CommentsTyped
  <2>4. comments' \in Seq(Comments)
    BY <1>2, <1>5, WriteMarks
  <2>5. CommentsTyped'
    BY <1>1, <1>3, <2>2, <2>3, <2>4 DEF CommentsInv, CommentsTyped
  <2>6. PostedWasShown'
    <3> SUFFICES ASSUME NEW s \in Commenters, NEW p \in CommentedPaths, landed'[s][p] # Blank
                 PROVE  landed'[s][p] \in shown'[p]
      BY DEF PostedWasShown
    <3>1. shown[p] \subseteq shown'[p] /\ w.body \in shown'[w.route]
      BY <1>2, <1>5 DEF CommentsInv, CommentsTyped
    <3>2. landed'[s][p] = landed[s][p] \/ (p = w.route /\ landed'[s][p] = w.body)
      BY <1>2, <2>1 DEF CommentsInv, CommentsTyped, Remembered
    <3> QED
      BY <3>1, <3>2 DEF CommentsInv, PostedWasShown
  <2>7. ASSUME ~excused PROVE DoublesAreFar' /\ StillNotFound'
    <3>1. \A s \in Commenters \ {r} : post[s] = Nothing
      BY <1>1, <2>7 DEF CommentsInv, OnePosts, Nothing
    <3>2. StillNotFound'
      BY <1>3, <3>1 DEF StillNotFound, Nothing
    <3>3. DoublesAreFar'
      <4> SUFFICES ASSUME NEW p \in CommentedPaths, NEW i \in Marked(p)', NEW j \in Marked(p)', i # j
                   PROVE  i > Searched
        BY DEF DoublesAreFar, Searched
      <4>1. DoublesAreFar /\ (w.id = 0 => \A k \in Marked(w.route) : k > Searched)
        BY <1>1, <2>7 DEF CommentsInv, StillNotFound
      <4>2. CASE Marked(p)' = Marked(p)
        BY <4>1, <4>2 DEF DoublesAreFar
      <4>3. CASE p = w.route /\ w.id = 0 /\ Marked(p)' = Marked(p) \cup {Len(comments) + 1}
        <5>1. \A k \in Marked(p) : k > Searched /\ k \in Nat /\ k <= Len(comments)
          BY <4>1, <4>3 DEF Marked, CommentsInv, CommentsTyped
        <5>2. Len(comments) \in Nat
          BY DEF CommentsInv, CommentsTyped
        <5> QED
          BY <4>3, <5>1, <5>2, SearchIsInt
      <4> QED
        BY <1>2, <1>5, <4>2, <4>3, WriteMarks
    <3> QED
      BY <3>2, <3>3
  <2> QED
    BY <1>1, <1>4, <2>5, <2>6, <2>7 DEF CommentsInv
<1>6. CASE UNCHANGED <<comments, shown>> /\ landed' = [landed EXCEPT ![r] = Remembered(w.route, @, w.body, FALSE)]
  <2>1. landed' = landed
    BY <1>6 DEF CommentsInv, CommentsTyped, Remembered
  <2>2. CommentsTyped'
    BY <1>1, <1>3, <1>6, <2>1 DEF CommentsInv, CommentsTyped
  <2>3. StillNotFound => StillNotFound'
    BY <1>3, <1>6 DEF StillNotFound, Nothing, Marked, Searched
  <2>4. DoublesAreFar => DoublesAreFar'
    BY <1>6 DEF DoublesAreFar, Marked, Searched
  <2> QED
    BY <1>1, <1>4, <1>6, <2>1, <2>2, <2>3, <2>4 DEF CommentsInv, PostedWasShown
<1> QED
  BY <1>5, <1>6 DEF WriteComment

LEMMA OthersKeepComments ==
  ASSUME CommentsInv, UNCHANGED <<post, shown, excused>>
  PROVE  /\ UNCHANGED <<says, comments, landed>> => CommentsInv'
         /\ \A p \in CommentedPaths, b \in Bodies \cup {Blank} : Reworded(p, b) => CommentsInv'
         /\ PersonComments => CommentsInv'
<1>1. CASE UNCHANGED <<comments, landed>> /\ says' \in [CommentedPaths -> Bodies \cup {Blank}]
  BY <1>1 DEF CommentsInv, CommentsTyped, OnePosts, DoublesAreFar, StillNotFound, PostedWasShown, Marked, Searched
<1>2. ASSUME NEW p \in CommentedPaths, NEW b \in Bodies \cup {Blank}, Reworded(p, b) PROVE CommentsInv'
  BY <1>1, <1>2 DEF Reworded, CommentsInv, CommentsTyped
<1>3. CASE PersonComments
  <2> DEFINE new == [route |-> Blank, body |-> Blank]
  <2>1. comments' = Append(comments, new) /\ new \in Comments /\ UNCHANGED <<says, landed>>
    BY <1>3 DEF PersonComments, Comments
  <2>2. /\ comments \in Seq(Comments) /\ comments' \in Seq(Comments) /\ Len(comments') = Len(comments) + 1
        /\ \A i \in 1..Len(comments) : comments'[i] = comments[i]
        /\ comments'[Len(comments) + 1] = new
    BY <2>1 DEF CommentsInv, CommentsTyped
  <2>3. DOMAIN comments = 1..Len(comments) /\ DOMAIN comments' = 1..(Len(comments) + 1) /\ Len(comments) \in Nat
    BY <2>2
  <2>4. \A p \in CommentedPaths : p # Blank
    BY ForgeAssumption DEF ForgeAssumption
  <2>5. \A p \in CommentedPaths : Marked(p)' = Marked(p)
    BY <2>2, <2>3, <2>4 DEF Marked
  <2>6. CommentsTyped'
    BY <2>1, <2>2 DEF CommentsInv, CommentsTyped
  <2>7. OnePosts => OnePosts'
    BY DEF OnePosts
  <2>8. DoublesAreFar => DoublesAreFar'
    BY <2>5 DEF DoublesAreFar, Searched
  <2>9. StillNotFound => StillNotFound'
    <3> SUFFICES ASSUME StillNotFound, NEW r \in Commenters, post[r].at = "write", post[r].id = 0
                 PROVE  \A i \in Marked(post[r].route)' : i > Searched
      BY DEF StillNotFound, Searched, Marked
    <3>1. post[r] \in Posts /\ post[r] # Nothing
      BY DEF CommentsInv, CommentsTyped, Nothing
    <3>2. post[r].route \in CommentedPaths
      BY <3>1 DEF Posts
    <3> QED
      BY <2>5, <3>2 DEF StillNotFound, Marked
  <2> QED
    BY <2>1, <2>6, <2>7, <2>8, <2>9 DEF CommentsInv, PostedWasShown
<1>4. ASSUME UNCHANGED <<says, comments, landed>> PROVE CommentsInv'
  BY <1>1, <1>4 DEF CommentsInv, CommentsTyped
<1> QED
  BY <1>2, <1>3, <1>4

LEMMA RestartKeepsComments ==
  ASSUME CommentsInv, NEW r \in Commenters, RestartCommenter(r)
  PROVE  CommentsInv'
<1>1. /\ landed' = [landed EXCEPT ![r] = [p \in CommentedPaths |-> Blank]]
      /\ post' = [post EXCEPT ![r] = Nothing]
      /\ UNCHANGED <<says, comments, shown, excused>>
  BY DEF RestartCommenter
<1>2. post'[r] = Nothing /\ \A s \in Commenters \ {r} : post'[s] = post[s]
  BY <1>1 DEF CommentsInv, CommentsTyped
<1>3. [p \in CommentedPaths |-> Blank] \in [CommentedPaths -> Bodies \cup {Blank}] /\ Nothing \in Posts
  BY DEF Posts
<1>4. CommentsTyped'
  BY <1>1, <1>3 DEF CommentsInv, CommentsTyped
<1>5. OnePosts => OnePosts'
  BY <1>2 DEF OnePosts
<1>6. DoublesAreFar => DoublesAreFar'
  BY <1>1 DEF DoublesAreFar, Marked, Searched
<1>7. StillNotFound => StillNotFound'
  BY <1>1, <1>2 DEF StillNotFound, Nothing, Marked, Searched
<1>8. PostedWasShown'
  BY <1>1 DEF CommentsInv, CommentsTyped, PostedWasShown
<1> QED
  BY <1>1, <1>4, <1>5, <1>6, <1>7, <1>8 DEF CommentsInv

LEMMA StepKeepsComments == CommentsInv /\ [ForgeNext]_forgeVars => CommentsInv'
<1> SUFFICES ASSUME CommentsInv, [ForgeNext]_forgeVars PROVE CommentsInv'
  OBVIOUS
<1>1. CASE UNCHANGED commentVars
  BY <1>1, OthersKeepComments DEF commentVars
<1>2. ASSUME NEW q \in FixRequests, OpenRemediationPR(q) \/ CreateBranch(q) \/ CommitFile(q) \/ OpenPR(q)
      PROVE  CommentsInv'
  BY <1>1, <1>2 DEF OpenRemediationPR, CreateBranch, CommitFile, OpenPR
<1>3. ASSUME NEW r \in Commenters, LeaderChanges(r) PROVE CommentsInv'
  BY <1>3, OthersKeepComments DEF LeaderChanges
<1>4. ASSUME NEW p \in CommentedPaths, NEW b \in Bodies \cup {Blank}, Reworded(p, b) PROVE CommentsInv'
  <2>1. UNCHANGED <<post, shown, excused>>
    BY <1>4 DEF Reworded
  <2> QED
    BY <1>4, <2>1, OthersKeepComments
<1>5. CASE PersonComments
  <2>1. UNCHANGED <<post, shown, excused>>
    BY <1>5 DEF PersonComments
  <2> QED
    BY <1>5, <2>1, OthersKeepComments
<1>6. CASE UNCHANGED forgeVars
  BY <1>1, <1>6 DEF forgeVars
<1> QED
  BY <1>2, <1>3, <1>4, <1>5, <1>6, UpsertKeepsComments, FindKeepsComments, WriteKeepsComments, RestartKeepsComments
  DEF ForgeNext

\* A set whose elements are all one has at most one of them.
LEMMA AllOneIsOne ==
  ASSUME NEW S, \A i, j \in S : i = j
  PROVE  Cardinality(S) \in {0, 1}
<1>1. CASE S = {}
  BY <1>1, FS_EmptySet
<1>2. CASE S # {}
  <2>1. PICK i \in S : S = {i}
    BY <1>2
  <2> QED
    BY <2>1, FS_Singleton
<1> QED
  BY <1>1, <1>2

LEMMA DoublesAreExcused == CommentsInv => CommentsHold
<1> SUFFICES ASSUME CommentsInv, NEW p \in CommentedPaths, Cardinality(Marked(p)) > 1, ~excused,
                    NEW i \in Marked(p)
             PROVE  i > Searched
  BY DEF CommentsInv, CommentsHold, OneCommentPerPath, Searched
<1>1. PICK j \in Marked(p) : j # i
  <2>1. CASE \A a, b \in Marked(p) : a = b
    BY <2>1, AllOneIsOne
  <2> QED
    BY <2>1
<1> QED
  BY <1>1 DEF CommentsInv, DoublesAreFar

\* A path has one comment, and what is taken for landed has been shown (upsert, find,
\* remember).
THEOREM CommentsAreOne == ForgeSpec => []CommentsHold
BY CommentsInitially, StepKeepsComments, DoublesAreExcused, PTL DEF ForgeSpec

---------------------------------------------------------------------------
(***************************************************************************)
(* An address is not admitted on its own bucket faster than the budget     *)
(* says: for any number of addresses and any rate.  Reading a bucket as    *)
(* what it would hold now, an address without one as a full bucket, every  *)
(* admission so far and all that follow it are paid from a burst and what  *)
(* flowed in since.                                                        *)
(***************************************************************************)

Bucket == [tokens : 0..Burst, last : Nat, used : Nat]
Admission == [addr : Clients, at : Nat]

LimiterTyped ==
  /\ limiterClock \in Nat
  /\ IsFiniteSet(DOMAIN buckets) /\ Cardinality(DOMAIN buckets) <= MaxClients
  /\ \A c \in DOMAIN buckets :
       buckets[c] \in Bucket /\ buckets[c].last <= buckets[c].used /\ buckets[c].used <= limiterClock
  /\ admitted \in Seq(Admission)
  /\ \A i \in DOMAIN admitted : admitted[i].at <= limiterClock

\* What an address could draw now.
Level(a) == IF a \in DOMAIN buckets THEN Filled(buckets[a]).tokens ELSE Burst

\* The admissions of an address from the i-th to the j-th.
Between(s, a, i, j) == {k \in i..j : s[k].addr = a}

\* What was drawn since an admission, and what is left, flowed in since.
PaidSince ==
  \A i \in DOMAIN admitted :
    LET a == admitted[i].addr
    IN PerRequest * Cardinality(Between(admitted, a, i, Len(admitted))) + Level(a)
         <= Burst + Rate * (limiterClock - admitted[i].at)

PaidBetween ==
  \A i, j \in DOMAIN admitted :
    i <= j /\ admitted[i].addr = admitted[j].addr =>
      PerRequest * Cardinality(Between(admitted, admitted[i].addr, i, j))
        <= Burst + Rate * (admitted[j].at - admitted[i].at)

LimiterInv == LimiterTyped /\ PaidSince /\ PaidBetween

\* More flows in over a longer time.
LEMMA FlowIsMonotone ==
  ASSUME NEW r \in Nat, NEW a \in Nat, NEW b \in Nat, a <= b
  PROVE  r * a \in Nat /\ r * b \in Nat /\ r * a <= r * b
OBVIOUS

\* What flows in over one more unit.
LEMMA FlowOfAStep ==
  ASSUME NEW r \in Nat, NEW a \in Nat
  PROVE  r * (a + 1) = r * a + r
OBVIOUS

\* A product of naturals is one.
LEMMA ProductTyped ==
  ASSUME NEW r \in Nat, NEW a \in Nat
  PROVE  r * a \in Nat
OBVIOUS

\* A bucket is never read below nothing nor above its burst.
LEMMA FilledTyped ==
  ASSUME NEW b \in Bucket, limiterClock \in Nat, b.last <= limiterClock
  PROVE  /\ Filled(b) \in Bucket
         /\ Filled(b).last = limiterClock /\ Filled(b).used = b.used
         /\ b.tokens <= Filled(b).tokens
<1>1. Rate \in Nat /\ Burst \in Nat
  BY LimiterAssumption DEF LimiterAssumption
<1>2. b.tokens \in 0..Burst /\ b.last \in Nat /\ b.used \in Nat
  BY DEF Bucket
<1>3. limiterClock - b.last \in Nat
  BY <1>2
<1>4. Rate * (limiterClock - b.last) \in Nat
  BY <1>1, <1>3
<1> QED
  BY <1>1, <1>2, <1>4 DEF Filled, Bucket

\* A bucket that a sweep drops is full, so that its address loses nothing.
LEMMA SweptIsFull ==
  ASSUME LimiterTyped, NEW c \in DOMAIN buckets, c \notin DOMAIN Kept
  PROVE  Filled(buckets[c]).tokens = Burst
<1>1. /\ Rate \in Nat /\ Burst \in Nat /\ BucketTTL \in Nat /\ Rate * BucketTTL >= Burst
  BY LimiterAssumption DEF LimiterAssumption
<1>2. limiterClock - buckets[c].used > BucketTTL
  BY <1>1 DEF Kept, LimiterTyped, Bucket
<1>3. /\ limiterClock - buckets[c].last \in Nat /\ BucketTTL <= limiterClock - buckets[c].last
      /\ buckets[c].tokens \in Nat /\ buckets[c].tokens <= Burst
  BY <1>1, <1>2 DEF LimiterTyped, Bucket
<1>4. /\ Rate * (limiterClock - buckets[c].last) \in Nat
      /\ Rate * BucketTTL \in Nat
      /\ Rate * BucketTTL <= Rate * (limiterClock - buckets[c].last)
  BY <1>1, <1>3, FlowIsMonotone
<1> QED
  BY <1>1, <1>3, <1>4 DEF Filled

\* No bucket and no admission at first.
LEMMA LimiterInitially == LimiterInit => LimiterInv
<1> SUFFICES ASSUME LimiterInit PROVE LimiterInv
  OBVIOUS
<1>1. buckets = << >> /\ admitted = << >> /\ limiterClock = 0
  BY DEF LimiterInit
<1>2. DOMAIN buckets = {} /\ DOMAIN admitted = {} /\ admitted \in Seq(Admission)
  BY <1>1
<1>3. IsFiniteSet(DOMAIN buckets) /\ Cardinality(DOMAIN buckets) = 0
  BY <1>2, FS_EmptySet
<1> QED
  BY <1>1, <1>2, <1>3, LimiterAssumption DEF LimiterInv, LimiterTyped, PaidSince, PaidBetween, LimiterAssumption

\* Admissions carry dates that have come.
LEMMA AdmissionsTyped ==
  ASSUME LimiterTyped
  PROVE  /\ Len(admitted) \in Nat /\ DOMAIN admitted = 1..Len(admitted)
         /\ \A i \in DOMAIN admitted :
              admitted[i].addr \in Clients /\ admitted[i].at \in Nat /\ limiterClock - admitted[i].at \in Nat
<1>1. Len(admitted) \in Nat /\ DOMAIN admitted = 1..Len(admitted)
  BY DEF LimiterTyped
<1>2. \A i \in DOMAIN admitted : admitted[i] \in Admission
  BY DEF LimiterTyped
<1>3. limiterClock \in Nat /\ \A i \in DOMAIN admitted : admitted[i].at <= limiterClock
  BY DEF LimiterTyped
<1> QED BY <1>1, <1>2, <1>3 DEF Admission

\* Time lets in no more than the rate.
LEMMA TickKeepsLimiter == ASSUME LimiterInv, LimiterTick PROVE LimiterInv'
<1>1. /\ limiterClock \in Nat /\ limiterClock' = limiterClock + 1
      /\ buckets' = buckets /\ admitted' = admitted
  BY DEF LimiterInv, LimiterTyped, LimiterTick
<1>2. Rate \in Nat /\ Burst \in Nat /\ PerRequest \in Nat
  BY LimiterAssumption DEF LimiterAssumption
<1>3. LimiterTyped'
  <2>1. \A c \in DOMAIN buckets : buckets[c].used \in Nat /\ buckets[c].used <= limiterClock + 1
    BY <1>1 DEF LimiterInv, LimiterTyped, Bucket
  <2>2. \A i \in DOMAIN admitted : admitted[i].at <= limiterClock + 1
    BY <1>1, AdmissionsTyped DEF LimiterInv, LimiterTyped
  <2> QED BY <1>1, <2>1, <2>2 DEF LimiterInv, LimiterTyped
<1>4. PaidBetween'
  BY <1>1 DEF LimiterInv, PaidBetween, Between
<1>5. ASSUME NEW a PROVE Level(a) \in Nat /\ Level(a)' \in Nat /\ Level(a)' <= Level(a) + Rate
  <2>1. CASE a \notin DOMAIN buckets
    BY <1>1, <1>2, <2>1 DEF Level
  <2>2. CASE a \in DOMAIN buckets
    <3>1. buckets[a] \in Bucket /\ buckets[a].last <= limiterClock /\ buckets[a].last \in Nat
      BY <2>2 DEF LimiterInv, LimiterTyped, Bucket
    <3> DEFINE d == limiterClock - buckets[a].last
               flow == Rate * d
    <3>2. d \in Nat /\ limiterClock' - buckets[a].last = d + 1
      BY <1>1, <3>1
    <3> HIDE DEF d
    <3>3. flow \in Nat /\ Rate * (d + 1) = flow + Rate
      BY <1>2, <3>2, FlowOfAStep
    <3> HIDE DEF flow
    <3>4. buckets[a].tokens \in Nat
      BY <3>1 DEF Bucket
    <3>5. Level(a) = IF buckets[a].tokens + flow > Burst THEN Burst ELSE buckets[a].tokens + flow
      BY <2>2 DEF Level, Filled, flow, d
    <3>6. Level(a)' = IF buckets[a].tokens + (flow + Rate) > Burst THEN Burst ELSE buckets[a].tokens + (flow + Rate)
      BY <1>1, <2>2, <3>2, <3>3 DEF Level, Filled
    <3> QED BY <1>2, <3>3, <3>4, <3>5, <3>6
  <2> QED BY <2>1, <2>2
<1>6. PaidSince'
  <2> SUFFICES ASSUME NEW i \in DOMAIN admitted, NEW a, a = admitted[i].addr
               PROVE  PerRequest * Cardinality(Between(admitted, a, i, Len(admitted))) + Level(a)'
                        <= Burst + Rate * (limiterClock' - admitted[i].at)
    BY <1>1 DEF PaidSince, Between
  <2> DEFINE drawn == PerRequest * Cardinality(Between(admitted, a, i, Len(admitted)))
             d == limiterClock - admitted[i].at
  <2>1. i \in 1..Len(admitted) /\ Len(admitted) \in Nat /\ admitted[i].at \in Nat /\ admitted[i].at <= limiterClock
    BY AdmissionsTyped DEF LimiterInv, LimiterTyped
  <2>2. d \in Nat /\ limiterClock' - admitted[i].at = d + 1
    BY <1>1, <2>1
  <2>3. drawn + Level(a) <= Burst + Rate * d
    BY DEF LimiterInv, PaidSince
  <2>4. drawn \in Nat
    <3>1. i..Len(admitted) \subseteq Int /\ IsFiniteSet(i..Len(admitted))
      BY <2>1, FS_Interval
    <3>2. Between(admitted, a, i, Len(admitted)) \in SUBSET (i..Len(admitted))
      BY DEF Between
    <3>3. IsFiniteSet(Between(admitted, a, i, Len(admitted)))
      BY <3>1, <3>2, FS_Subset
    <3>4. Cardinality(Between(admitted, a, i, Len(admitted))) \in Nat
      BY <3>3, FS_CardinalityType
    <3> QED BY <3>4, <1>2
  <2> HIDE DEF drawn, d
  <2>5. Rate * d \in Nat /\ Rate * (d + 1) = Rate * d + Rate
    BY <1>2, <2>2, FlowOfAStep
  <2>6. Level(a) \in Nat /\ Level(a)' \in Nat /\ Level(a)' <= Level(a) + Rate
    BY <1>5
  <2>7. drawn + Level(a)' <= Burst + Rate * (d + 1)
    BY <1>2, <2>3, <2>4, <2>5, <2>6
  <2> QED BY <2>2, <2>7 DEF drawn
<1> QED BY <1>3, <1>4, <1>6 DEF LimiterInv

\* How many admissions of an address there are between two.
LEMMA TallyTyped ==
  ASSUME NEW s, NEW a, NEW i \in Int, NEW j \in Int
  PROVE  IsFiniteSet(Between(s, a, i, j)) /\ Cardinality(Between(s, a, i, j)) \in Nat
<1>1. IsFiniteSet(i..j)
  BY FS_Interval
<1>2. Between(s, a, i, j) \in SUBSET (i..j)
  BY DEF Between
<1>3. IsFiniteSet(Between(s, a, i, j))
  BY <1>1, <1>2, FS_Subset
<1> QED BY <1>3, FS_CardinalityType

\* No address could draw more than a burst.
LEMMA LevelTyped ==
  ASSUME LimiterTyped, NEW a
  PROVE  Level(a) \in Nat /\ Level(a) <= Burst
<1>1. Burst \in Nat
  BY LimiterAssumption DEF LimiterAssumption
<1>2. CASE a \in DOMAIN buckets
  <2>1. /\ buckets[a] \in Bucket /\ limiterClock \in Nat /\ buckets[a].last <= limiterClock
    BY <1>2 DEF LimiterTyped, Bucket
  <2>2. Filled(buckets[a]).tokens \in 0..Burst
    BY <2>1, FilledTyped DEF Bucket
  <2> QED BY <1>1, <1>2, <2>2 DEF Level
<1> QED BY <1>1, <1>2 DEF Level

\* A request that is admitted is paid from the bucket.
LEMMA AdmissionKeepsPaid ==
  ASSUME LimiterInv, NEW a \in Clients, UNCHANGED limiterClock,
         admitted' = Append(admitted, [addr |-> a, at |-> limiterClock]),
         \A c : Level(c)' \in Nat /\ Level(c)' <= Level(c),
         Level(a)' + PerRequest <= Level(a)
  PROVE  PaidSince' /\ PaidBetween'
<1>0. PICK n : n = Len(admitted)
  OBVIOUS
<1>1. Rate \in Nat /\ Burst \in Nat /\ PerRequest \in Nat
  BY LimiterAssumption DEF LimiterAssumption
<1>2. /\ n \in Nat /\ DOMAIN admitted = 1..n /\ limiterClock \in Nat
      /\ \A i \in 1..n : admitted[i].at \in Nat /\ limiterClock - admitted[i].at \in Nat
  BY <1>0, AdmissionsTyped DEF LimiterInv, LimiterTyped
<1>3. /\ Len(admitted') = n + 1 /\ DOMAIN admitted' = 1..(n + 1)
      /\ admitted'[n + 1] = [addr |-> a, at |-> limiterClock]
      /\ \A i \in 1..n : admitted'[i] = admitted[i]
  BY <1>0, <1>2, AppendProperties DEF LimiterInv, LimiterTyped
<1>4. ASSUME NEW c, NEW i \in 1..n, NEW j \in 1..n
      PROVE  Between(admitted', c, i, j) = Between(admitted, c, i, j)
  BY <1>2, <1>3, <1>4 DEF Between
<1>5. ASSUME NEW c, NEW i \in 1..(n + 1)
      PROVE  /\ c = a => Between(admitted', c, i, n + 1) = Between(admitted, c, i, n) \cup {n + 1}
             /\ c # a => Between(admitted', c, i, n + 1) = Between(admitted, c, i, n)
  BY <1>2, <1>3, <1>5 DEF Between
<1>6. ASSUME NEW c, NEW i \in 1..(n + 1)
      PROVE  /\ Cardinality(Between(admitted, c, i, n)) \in Nat
             /\ Cardinality(Between(admitted', c, i, n + 1)) \in Nat
             /\ c = a => Cardinality(Between(admitted', c, i, n + 1)) = Cardinality(Between(admitted, c, i, n)) + 1
             /\ c # a => Cardinality(Between(admitted', c, i, n + 1)) = Cardinality(Between(admitted, c, i, n))
  <2>1. IsFiniteSet(Between(admitted, c, i, n)) /\ Cardinality(Between(admitted, c, i, n)) \in Nat
    BY <1>2, TallyTyped
  <2>2. n + 1 \notin Between(admitted, c, i, n)
    BY <1>2 DEF Between
  <2>3. Cardinality(Between(admitted, c, i, n) \cup {n + 1}) = Cardinality(Between(admitted, c, i, n)) + 1
    BY <2>1, <2>2, FS_AddElement
  <2>4. CASE c = a
    <3>1. Between(admitted', c, i, n + 1) = Between(admitted, c, i, n) \cup {n + 1}
      BY <1>5, <2>4
    <3>2. Cardinality(Between(admitted', c, i, n + 1)) = Cardinality(Between(admitted, c, i, n)) + 1
      BY <2>3, <3>1
    <3> QED BY <2>1, <2>4, <3>2
  <2>5. CASE c # a
    BY <1>5, <2>1, <2>5
  <2>6. i \in Int /\ n + 1 \in Int
    BY <1>2
  <2>7. Cardinality(Between(admitted', c, i, n + 1)) \in Nat
    BY <2>6, TallyTyped
  <2> QED BY <2>1, <2>4, <2>5, <2>7
<1>7. ASSUME NEW i \in 1..n, NEW c, c = admitted[i].addr
      PROVE  PerRequest * Cardinality(Between(admitted', c, i, n + 1)) + Level(c)'
               <= Burst + Rate * (limiterClock - admitted[i].at)
  <2>1. PICK tally \in Nat : tally = Cardinality(Between(admitted, c, i, n))
    BY <1>6, <1>2
  <2>2. PICK more : more = Cardinality(Between(admitted', c, i, n + 1))
    OBVIOUS
  <2>3. (c = a => more = tally + 1) /\ (c # a => more = tally)
    BY <1>6, <1>2, <2>1, <2>2
  <2>4. PICK flow \in Nat : flow = Rate * (limiterClock - admitted[i].at)
    BY <1>1, <1>2, ProductTyped
  <2>5. PICK paid \in Nat : paid = PerRequest * tally
    BY <1>1, ProductTyped
  <2>6. PICK had \in Nat, has \in Nat : had = Level(c) /\ has = Level(c)'
    BY LevelTyped DEF LimiterInv
  <2>7. has <= had /\ (c = a => has + PerRequest <= had)
    BY <2>6
  <2>8. paid + had <= Burst + flow
    BY <1>0, <1>2, <1>7, <2>1, <2>4, <2>5, <2>6 DEF LimiterInv, PaidSince
  <2>9. PICK due : due = PerRequest * more
    OBVIOUS
  <2>10. (c = a => due = paid + PerRequest) /\ (c # a => due = paid)
    BY <1>1, <2>1, <2>3, <2>5, <2>9, FlowOfAStep
  <2>11. due + has <= Burst + flow
    BY <1>1, <2>5, <2>7, <2>8, <2>10
  <2> QED BY <2>2, <2>4, <2>6, <2>9, <2>11
<1>8. PerRequest * Cardinality(Between(admitted', a, n + 1, n + 1)) + Level(a)' <= Burst
  <2>1. Between(admitted, a, n + 1, n) = {}
    BY <1>2 DEF Between
  <2>2. Cardinality(Between(admitted, a, n + 1, n)) = 0
    BY <2>1, FS_EmptySet
  <2>3. n + 1 \in 1..(n + 1)
    BY <1>2
  <2>4. Cardinality(Between(admitted', a, n + 1, n + 1)) = 1
    BY <1>6, <2>2, <2>3
  <2>5. Level(a) \in Nat /\ Level(a) <= Burst /\ Level(a)' \in Nat
    BY LevelTyped DEF LimiterInv
  <2> QED BY <1>1, <2>4, <2>5
<1>9. PaidSince'
  <2> SUFFICES ASSUME NEW i \in 1..(n + 1), NEW c, c = admitted'[i].addr
               PROVE  PerRequest * Cardinality(Between(admitted', c, i, n + 1)) + Level(c)'
                        <= Burst + Rate * (limiterClock - admitted'[i].at)
    BY <1>3 DEF PaidSince, Between
  <2>1. CASE i \in 1..n
    BY <1>3, <1>7, <2>1
  <2>2. CASE i = n + 1
    <3>1. c = a /\ limiterClock - admitted'[i].at = 0 /\ Rate * 0 = 0
      BY <1>1, <1>2, <1>3, <2>2
    <3>2. Burst + 0 = Burst
      BY <1>1
    <3> QED BY <1>8, <2>2, <3>1, <3>2
  <2> QED BY <1>2, <2>1, <2>2
<1>10. PaidBetween'
  <2> SUFFICES ASSUME NEW i \in 1..(n + 1), NEW j \in 1..(n + 1), i <= j, NEW c,
                      c = admitted'[i].addr, c = admitted'[j].addr
               PROVE  PerRequest * Cardinality(Between(admitted', c, i, j))
                        <= Burst + Rate * (admitted'[j].at - admitted'[i].at)
    BY <1>3 DEF PaidBetween, Between
  <2>1. CASE j \in 1..n
    <3>1. i \in 1..n /\ admitted'[i] = admitted[i] /\ admitted'[j] = admitted[j]
      BY <1>2, <1>3, <2>1
    <3>2. Between(admitted', c, i, j) = Between(admitted, c, i, j)
      BY <1>4, <2>1, <3>1
    <3> QED BY <1>2, <2>1, <3>1, <3>2 DEF LimiterInv, PaidBetween
  <2>2. CASE j = n + 1
    <3>1. Level(c)' \in Nat /\ admitted'[j].at = limiterClock /\ c = a
      BY <1>3, <2>2
    <3>2. Cardinality(Between(admitted', c, i, n + 1)) \in Nat
      BY <1>6, <3>1
    <3>3. PICK paid \in Nat : paid = PerRequest * Cardinality(Between(admitted', c, i, n + 1))
      BY <1>1, <3>2, ProductTyped
    <3>6. PICK has \in Nat : has = Level(c)'
      BY <3>1
    <3>4. CASE i \in 1..n
      <4>1. PICK flow \in Nat : flow = Rate * (limiterClock - admitted[i].at)
        BY <1>1, <1>2, <3>4, ProductTyped
      <4>2. paid + has <= Burst + flow /\ admitted'[i] = admitted[i]
        BY <1>3, <1>7, <3>3, <3>4, <3>6, <4>1
      <4>3. paid <= Burst + flow
        BY <1>1, <4>2
      <4> QED BY <2>2, <3>1, <3>3, <4>1, <4>2, <4>3
    <3>5. CASE i = n + 1
      <4>1. admitted'[j].at - admitted'[i].at = 0 /\ Rate * 0 = 0
        BY <1>1, <1>2, <1>3, <2>2, <3>5
      <4>2. paid + has <= Burst
        BY <1>8, <3>1, <3>3, <3>5, <3>6
      <4>3. paid <= Burst + 0
        BY <1>1, <4>2
      <4> QED BY <2>2, <3>3, <4>1, <4>3
    <3> QED BY <1>2, <3>4, <3>5
  <2> QED BY <1>2, <2>1, <2>2
<1> QED BY <1>9, <1>10

\* A request that is not admitted, and a sweep, change no level.
LEMMA RefusalKeepsPaid ==
  ASSUME LimiterInv, UNCHANGED <<limiterClock, admitted>>,
         \A c : Level(c)' \in Nat /\ Level(c)' <= Level(c)
  PROVE  PaidSince' /\ PaidBetween'
<1>1. PaidBetween'
  BY DEF LimiterInv, PaidBetween, Between
<1>2. PaidSince'
  <2> SUFFICES ASSUME NEW i \in DOMAIN admitted, NEW c, c = admitted[i].addr
               PROVE  PerRequest * Cardinality(Between(admitted, c, i, Len(admitted))) + Level(c)'
                        <= Burst + Rate * (limiterClock - admitted[i].at)
    BY DEF PaidSince, Between
  <2>1. /\ Rate \in Nat /\ Burst \in Nat /\ PerRequest \in Nat
        /\ limiterClock - admitted[i].at \in Nat /\ Len(admitted) \in Int /\ i \in Int
    BY LimiterAssumption, AdmissionsTyped DEF LimiterAssumption, LimiterInv
  <2>2. Rate * (limiterClock - admitted[i].at) \in Nat
    BY <2>1
  <2>3. PerRequest * Cardinality(Between(admitted, c, i, Len(admitted))) \in Nat
    BY <2>1, TallyTyped
  <2>4. Level(c) \in Nat /\ Level(c)' \in Nat /\ Level(c)' <= Level(c)
    BY LevelTyped DEF LimiterInv
  <2>5. PerRequest * Cardinality(Between(admitted, c, i, Len(admitted))) + Level(c)
          <= Burst + Rate * (limiterClock - admitted[i].at)
    BY DEF LimiterInv, PaidSince
  <2> QED BY <2>1, <2>2, <2>3, <2>4, <2>5
<1> QED BY <1>1, <1>2

\* What makes a bucket.
LEMMA MakesBucket ==
  ASSUME NEW x \in 0..Burst, NEW y \in Nat, NEW z \in Nat
  PROVE  [tokens |-> x, last |-> y, used |-> z] \in Bucket
BY DEF Bucket

\* What a request draws, and what its bucket holds afterwards.
LEMMA DrawnTyped ==
  ASSUME NEW b \in Bucket, limiterClock \in Nat, b.last <= limiterClock,
         NEW after, after = [Drawn(b) EXCEPT !.used = limiterClock]
  PROVE  /\ after \in Bucket /\ after.last <= after.used /\ after.used = limiterClock
         /\ Filled(after).tokens = Filled(b).tokens - (IF Has(b) THEN PerRequest ELSE 0)
<1>1. Rate \in Nat /\ Burst \in Nat /\ PerRequest \in Nat
  BY LimiterAssumption DEF LimiterAssumption
<1>2. PICK f : f = Filled(b)
  OBVIOUS
<1>3. /\ f \in Bucket /\ f.last = limiterClock /\ f.tokens \in 0..Burst /\ b.last \in Nat
  BY <1>2, FilledTyped DEF Bucket
<1>4. CASE Has(b)
  <2>1. Drawn(b) = [f EXCEPT !.tokens = f.tokens - PerRequest]
    BY <1>2, <1>4 DEF Drawn
  <2>2. after = [tokens |-> f.tokens - PerRequest, last |-> limiterClock, used |-> limiterClock]
    BY <1>3, <2>1 DEF Bucket
  <2>3. f.tokens >= PerRequest
    BY <1>2, <1>4 DEF Has
  <2>4. after \in Bucket
    <3>1. f.tokens - PerRequest \in 0..Burst
      BY <1>1, <1>3, <2>3
    <3> QED BY <2>2, <3>1, MakesBucket
  <2>5. Rate * (limiterClock - limiterClock) = 0
    BY <1>1
  <2>6. Filled(after).tokens = f.tokens - PerRequest
    BY <1>1, <1>3, <2>2, <2>5 DEF Filled
  <2> QED BY <1>2, <1>4, <2>2, <2>4, <2>6
<1>5. CASE ~Has(b)
  <2>1. after = [tokens |-> b.tokens, last |-> b.last, used |-> limiterClock]
    BY <1>5 DEF Drawn, Bucket
  <2>2. after \in Bucket
    <3>1. b.tokens \in 0..Burst /\ b.last \in Nat
      BY DEF Bucket
    <3> QED BY <2>1, <3>1, MakesBucket
  <2>3. Filled(after).tokens = f.tokens
    BY <1>2, <2>1 DEF Filled
  <2>4. f.tokens - 0 = f.tokens
    BY <1>3
  <2> QED BY <1>2, <1>5, <2>1, <2>2, <2>3, <2>4
<1> QED BY <1>4, <1>5

\* An address without a bucket is given a full one.
LEMMA FullIsFull ==
  ASSUME limiterClock \in Nat
  PROVE  /\ FullBucket \in Bucket /\ FullBucket.last = limiterClock /\ FullBucket.used = limiterClock
         /\ Filled(FullBucket).tokens = Burst
<1>1. Rate \in Nat /\ Burst \in Nat /\ Rate * (limiterClock - limiterClock) = 0
  BY LimiterAssumption DEF LimiterAssumption
<1> QED BY <1>1 DEF FullBucket, Bucket, Filled

\* A sweep changes no level.
LEMMA KeptTyped ==
  ASSUME LimiterTyped
  PROVE  /\ IsFiniteSet(DOMAIN Kept) /\ Cardinality(DOMAIN Kept) \in Nat
         /\ Cardinality(DOMAIN Kept) <= MaxClients
         /\ \A c \in DOMAIN Kept : c \in DOMAIN buckets /\ Kept[c] = buckets[c]
         /\ \A c : Level(c) = IF c \in DOMAIN Kept THEN Filled(Kept[c]).tokens ELSE Burst
<1>1. DOMAIN Kept \in SUBSET DOMAIN buckets /\ \A c \in DOMAIN Kept : Kept[c] = buckets[c]
  BY DEF Kept
<1>2. /\ IsFiniteSet(DOMAIN Kept) /\ Cardinality(DOMAIN Kept) <= Cardinality(DOMAIN buckets)
      /\ Cardinality(DOMAIN Kept) \in Nat /\ Cardinality(DOMAIN buckets) \in Nat
  BY <1>1, FS_Subset, FS_CardinalityType DEF LimiterTyped
<1>3. MaxClients \in Nat
  BY LimiterAssumption DEF LimiterAssumption
<1>4. \A c \in DOMAIN buckets : c \notin DOMAIN Kept => Filled(buckets[c]).tokens = Burst
  BY SweptIsFull
<1> QED BY <1>1, <1>2, <1>3, <1>4 DEF Level, LimiterTyped

\* A request admitted or refused.
LEMMA AllowKeepsLimiter ==
  ASSUME LimiterInv, NEW a \in Clients, Allow(a)
  PROVE  LimiterInv'
<1> DEFINE shared == a \notin DOMAIN Kept /\ Full(Kept)
<1>1. PICK own : own = IF a \in DOMAIN Kept THEN Kept[a] ELSE FullBucket
  OBVIOUS
<1>2. /\ limiterClock' = limiterClock /\ limiterClock \in Nat
      /\ Burst \in Nat /\ PerRequest \in Nat /\ MaxClients \in Nat
  BY LimiterAssumption DEF Allow, LimiterInv, LimiterTyped, LimiterAssumption
<1>3. \A f : Filled(f)' = Filled(f)
  BY <1>2 DEF Filled
<1>4. CASE shared
  <2>1. buckets' = Kept /\ admitted' = admitted
    BY <1>4 DEF Allow
  <2>2. \A c : Level(c)' = Level(c)
    BY <1>3, <2>1, KeptTyped DEF LimiterInv, Level
  <2>3. PaidSince' /\ PaidBetween'
    <3>1. \A c : Level(c)' \in Nat /\ Level(c)' <= Level(c)
      BY <2>2, LevelTyped DEF LimiterInv
    <3> QED BY <1>2, <2>1, <3>1, RefusalKeepsPaid
  <2>4. LimiterTyped'
    BY <1>2, <2>1, KeptTyped DEF LimiterInv, LimiterTyped
  <2> QED BY <2>3, <2>4 DEF LimiterInv
<1>5. CASE ~shared
  <2>1. PICK after : after = [Drawn(own) EXCEPT !.used = limiterClock]
    OBVIOUS
  <2>2. /\ buckets' = [c \in DOMAIN Kept \cup {a} |-> IF c = a THEN after ELSE Kept[c]]
        /\ admitted' = IF Has(own) THEN Append(admitted, [addr |-> a, at |-> limiterClock]) ELSE admitted
    BY <1>1, <1>5, <2>1 DEF Allow
  <2>3. own \in Bucket /\ own.last <= limiterClock
    <3>1. CASE a \in DOMAIN Kept
      BY <1>1, <3>1, KeptTyped DEF LimiterInv, LimiterTyped, Bucket
    <3>2. CASE a \notin DOMAIN Kept
      BY <1>1, <1>2, <3>2, FullIsFull
    <3> QED BY <3>1, <3>2
  <2>4. /\ after \in Bucket /\ after.last <= after.used /\ after.used = limiterClock
        /\ Filled(after).tokens = Filled(own).tokens - (IF Has(own) THEN PerRequest ELSE 0)
    BY <1>2, <2>1, <2>3, DrawnTyped
  <2>5. Level(a) = Filled(own).tokens
    BY <1>1, <1>2, KeptTyped, FullIsFull DEF LimiterInv
  <2>6. Level(a)' = Level(a) - (IF Has(own) THEN PerRequest ELSE 0)
    <3>1. a \in DOMAIN buckets' /\ buckets'[a] = after
      BY <2>2
    <3> QED BY <1>3, <2>4, <2>5, <3>1 DEF Level
  <2>7. \A c : c # a => Level(c)' = Level(c)
    BY <1>3, <2>2, KeptTyped DEF LimiterInv, Level
  <2>8. Has(own) => Level(a) >= PerRequest
    BY <2>5 DEF Has
  <2>9. \A c : Level(c)' \in Nat /\ Level(c)' <= Level(c)
    <3> SUFFICES ASSUME NEW c PROVE Level(c)' \in Nat /\ Level(c)' <= Level(c)
      OBVIOUS
    <3>1. Level(c) \in Nat
      BY LevelTyped DEF LimiterInv
    <3>2. CASE c # a
      BY <2>7, <3>1, <3>2
    <3>3. CASE c = a
      <4>1. Level(a)' \in Nat /\ Level(a)' <= Level(a)
        BY <1>2, <2>6, <2>8, <3>1, <3>3
      <4> QED BY <3>3, <4>1
    <3> QED BY <3>2, <3>3
  <2>10. PaidSince' /\ PaidBetween'
    <3>1. CASE Has(own)
      <4>1. Level(a) \in Nat
        BY LevelTyped DEF LimiterInv
      <4>2. Level(a)' + PerRequest <= Level(a)
        BY <1>2, <2>6, <3>1, <4>1
      <4> QED BY <1>2, <2>2, <2>9, <3>1, <4>2, AdmissionKeepsPaid
    <3>2. CASE ~Has(own)
      BY <1>2, <2>2, <2>9, <3>2, RefusalKeepsPaid
    <3> QED BY <3>1, <3>2
  <2>11. IsFiniteSet(DOMAIN buckets') /\ Cardinality(DOMAIN buckets') <= MaxClients
    <3>1. DOMAIN buckets' = DOMAIN Kept \cup {a}
      BY <2>2
    <3>2. /\ IsFiniteSet(DOMAIN Kept \cup {a})
          /\ Cardinality(DOMAIN Kept \cup {a})
               = IF a \in DOMAIN Kept THEN Cardinality(DOMAIN Kept) ELSE Cardinality(DOMAIN Kept) + 1
      BY KeptTyped, FS_AddElement DEF LimiterInv
    <3>3. a \notin DOMAIN Kept => Cardinality(DOMAIN Kept) < MaxClients
      BY <1>2, <1>5, KeptTyped DEF Full, LimiterInv
    <3> QED BY <1>2, <3>1, <3>2, <3>3, KeptTyped DEF LimiterInv
  <2>12. \A c \in DOMAIN buckets' :
           /\ buckets'[c] \in Bucket /\ buckets'[c].last <= buckets'[c].used
           /\ buckets'[c].used <= limiterClock
    <3> SUFFICES ASSUME NEW c \in DOMAIN buckets'
                 PROVE  /\ buckets'[c] \in Bucket /\ buckets'[c].last <= buckets'[c].used
                        /\ buckets'[c].used <= limiterClock
      OBVIOUS
    <3>1. CASE c = a
      BY <1>2, <2>2, <2>4, <3>1
    <3>2. CASE c # a
      BY <2>2, <3>2, KeptTyped DEF LimiterInv, LimiterTyped
    <3> QED BY <3>1, <3>2
  <2>13. admitted' \in Seq(Admission) /\ \A i \in DOMAIN admitted' : admitted'[i].at <= limiterClock
    <3>1. CASE ~Has(own)
      BY <2>2, <3>1 DEF LimiterInv, LimiterTyped
    <3>2. CASE Has(own)
      <4>1. PICK new : new = [addr |-> a, at |-> limiterClock]
        OBVIOUS
      <4>2. new \in Admission /\ admitted' = Append(admitted, new) /\ new.at <= limiterClock
        BY <1>2, <2>2, <3>2, <4>1 DEF Admission
      <4> QED BY <4>2, AppendProperties DEF LimiterInv, LimiterTyped
    <3> QED BY <3>1, <3>2
  <2> QED BY <1>2, <2>10, <2>11, <2>12, <2>13 DEF LimiterInv, LimiterTyped
<1> QED BY <1>4, <1>5

\* Every step keeps the invariant of the limiter.
LEMMA StepKeepsLimiter == LimiterInv /\ [LimiterNext]_limiterVars => LimiterInv'
<1> SUFFICES ASSUME LimiterInv, [LimiterNext]_limiterVars PROVE LimiterInv'
  OBVIOUS
<1>1. CASE LimiterTick
  BY <1>1, TickKeepsLimiter
<1>2. ASSUME NEW a \in Clients, Allow(a) PROVE LimiterInv'
  BY <1>2, AllowKeepsLimiter
<1>3. CASE UNCHANGED limiterVars
  BY <1>3 DEF limiterVars, LimiterInv, LimiterTyped, PaidSince, PaidBetween, Between, Level, Filled
<1> QED BY <1>1, <1>2, <1>3 DEF LimiterNext

\* No address is admitted on its own bucket faster than the budget, over any interval
\* and through evictions, and the table stays within its cap (Limiter.allow).
THEOREM LimiterKeepsBudgets == LimiterSpec => []BudgetsHold
<1>1. LimiterInv => BudgetsHold
  BY DEF LimiterInv, LimiterTyped, PaidBetween, Between, BudgetsHold
<1> QED BY <1>1, LimiterInitially, StepKeepsLimiter, PTL DEF LimiterSpec

---------------------------------------------------------------------------
(***************************************************************************)
(* What a collection retracts was gone, or is of a quiet kind whose call   *)
(* failed in that collection: for any feeds, kinds and objects, any number *)
(* of replicas, and whatever fails or changes meanwhile.                   *)
(***************************************************************************)

Feeds == DOMAIN KindsOf
FeedObjects(f) == UNION {ItemsOf[k] : k \in KindsOf[f]}

\* An object that a feed asserts as a whole is one it can read, and is known by
\* its account if the feed's objects are.
Scoped(item, qualified, scope) ==
  /\ scope \in Feeds /\ item \in FeedObjects(scope)
  /\ qualified \in BOOLEAN /\ (qualified <=> scope \in OfAccount)

HeldInv ==
  \A x \in held :
    /\ x = [item |-> x.item, qualified |-> x.qualified, scope |-> x.scope]
    /\ x.scope # "partial" => Scoped(x.item, x.qualified, x.scope)

\* What a collection may not have seen of what there is.
Unseen(r) == missed[r] \cup unread[r]

\* What a reading of these kinds does not have was absent meanwhile, or went unread.
ReadAllBut(kinds, got, absent) == \A k \in kinds : ItemsOf[k] \ got \subseteq absent

\* An event that describes its feed in full does so, but for what went unseen.
EventInv(e, absent) ==
  e.scope # "partial" =>
    /\ \A i \in e.items : Scoped(i, e.qualified, e.scope)
    /\ ReadAllBut(KindsOf[e.scope], e.items, absent)

EventsInv(events, absent) ==
  /\ events = [i \in 1..Len(events) |-> events[i]] /\ Len(events) \in Nat
  /\ \A i \in 1..Len(events) : EventInv(events[i], absent)

FeedInv(p, absent) ==
  /\ p.got \subseteq FeedObjects(Schedule[p.n])
  /\ p.left \subseteq KindsOf[Schedule[p.n]]
  /\ p.complete \in BOOLEAN
  /\ p.complete => ReadAllBut(KindsOf[Schedule[p.n]] \ p.left, p.got, absent)

PullInv(p, absent, now) ==
  p # Resting =>
    /\ Objects \ now \subseteq absent
    /\ p.n \in DOMAIN Schedule
    /\ EventsInv(p.events, absent)
    /\ p.at = "feed" => FeedInv(p, absent)

CollectionInv ==
  /\ pull = [r \in Collectors |-> pull[r]]
  /\ missed = [r \in Collectors |-> missed[r]] /\ unread = [r \in Collectors |-> unread[r]]
  /\ HeldInv
  /\ \A r \in Collectors : PullInv(pull[r], Unseen(r), world)

\* More may go unseen.
LEMMA AbsentGrows ==
  ASSUME NEW p, NEW absent, NEW more, absent \subseteq more, NEW now, NEW then,
         PullInv(p, absent, now), p # Resting => Objects \ then \subseteq more
  PROVE  PullInv(p, more, then)
<1> SUFFICES ASSUME p # Resting
             PROVE  EventsInv(p.events, more) /\ (p.at = "feed" => FeedInv(p, more))
  BY DEF PullInv
<1>1. \A kinds, got : ReadAllBut(kinds, got, absent) => ReadAllBut(kinds, got, more)
  BY DEF ReadAllBut
<1>2. EventsInv(p.events, more)
  BY <1>1 DEF PullInv, EventsInv, EventInv
<1>3. p.at = "feed" => FeedInv(p, more)
  BY <1>1 DEF PullInv, FeedInv
<1> QED BY <1>2, <1>3

\* A feed begins with nothing read.
LEMMA BeginsEmpty ==
  ASSUME NEW n \in DOMAIN Schedule, NEW events, NEW errors, NEW absent,
         Objects \ world \subseteq absent, EventsInv(events, absent)
  PROVE  /\ PullInv(Reading(n, events, errors), absent, world)
         /\ Reading(n, events, errors) # Resting
<1> DEFINE p == Reading(n, events, errors)
<1>1. /\ p.at = "feed" /\ p.n = n /\ p.left = KindsOf[Schedule[n]] /\ p.got = {}
      /\ p.complete = TRUE /\ p.events = events
  BY DEF Reading, Feed
<1>2. Resting.at = "idle"
  BY DEF Resting
<1> HIDE DEF p
<1>3. FeedInv(p, absent)
  BY <1>1 DEF FeedInv, ReadAllBut
<1> QED BY <1>1, <1>2, <1>3 DEF PullInv, p

LEMMA NoEvents == ASSUME NEW absent PROVE EventsInv(<< >>, absent)
BY DEF EventsInv

\* What comes after a feed keeps the events.
LEMMA GoesOn ==
  ASSUME NEW p, NEW absent, p # Resting, p.n \in DOMAIN Schedule, Objects \ world \subseteq absent,
         NEW events, EventsInv(events, absent), NEW errors
  PROVE  PullInv(After(p, events, errors), absent, world)
<1>0. Schedule \in Seq(Feeds) /\ Len(Schedule) \in Nat /\ DOMAIN Schedule = 1..Len(Schedule)
  BY CollectionAssumption DEF Feeds
<1>1. CASE p.n < Len(Schedule) /\ ConnectorOf[Schedule[p.n + 1]] = ConnectorOf[Schedule[p.n]]
  <2>1. p.n + 1 \in DOMAIN Schedule
    BY <1>0, <1>1
  <2>2. After(p, events, errors) = Reading(p.n + 1, events, errors)
    BY <1>1 DEF After
  <2> QED BY <2>1, <2>2, BeginsEmpty
<1>2. CASE ~(p.n < Len(Schedule) /\ ConnectorOf[Schedule[p.n + 1]] = ConnectorOf[Schedule[p.n]])
  <2>1. After(p, events, errors) = [at |-> "publish", n |-> p.n, events |-> events, errors |-> errors]
    BY <1>2 DEF After
  <2>2. PICK q : q = After(p, events, errors)
    OBVIOUS
  <2>3. q.at = "publish" /\ q.n = p.n /\ q.events = events
    BY <2>1, <2>2
  <2> QED BY <2>2, <2>3 DEF PullInv
<1> QED BY <1>1, <1>2

\* A step of one replica's collection that leaves the world and the graph alone.
LEMMA OnePulls ==
  ASSUME CollectionInv, NEW r \in Collectors, NEW p, pull' = [pull EXCEPT ![r] = p],
         UNCHANGED <<world, held, missed, unread>>, PullInv(p, Unseen(r), world)
  PROVE  CollectionInv'
<1>1. /\ pull'[r] = p /\ pull' = [q \in Collectors |-> pull'[q]]
      /\ \A q \in Collectors : q # r => pull'[q] = pull[q]
  BY DEF CollectionInv
<1>2. \A q \in Collectors : PullInv(pull'[q], Unseen(q), world)
  BY <1>1 DEF CollectionInv
<1>3. HeldInv'
  BY DEF CollectionInv, HeldInv
<1>4. (missed = [q \in Collectors |-> missed[q]] /\ unread = [q \in Collectors |-> unread[q]])'
  BY DEF CollectionInv
<1> QED BY <1>1, <1>2, <1>3, <1>4 DEF CollectionInv, Unseen

\* The feed a replica reads.
LEMMA ReadingNow ==
  ASSUME CollectionInv, NEW r \in Collectors, pull[r].at = "feed"
  PROVE  /\ pull[r] # Resting /\ PullInv(pull[r], Unseen(r), world)
         /\ FeedInv(pull[r], Unseen(r)) /\ pull[r].n \in DOMAIN Schedule
         /\ EventsInv(pull[r].events, Unseen(r)) /\ Objects \ world \subseteq Unseen(r)
         /\ FeedOf(r) \in Feeds /\ FeedOf(r) # "partial"
<1>1. Resting.at = "idle"
  BY DEF Resting
<1>2. pull[r] # Resting /\ PullInv(pull[r], Unseen(r), world)
  BY <1>1 DEF CollectionInv
<1>3. pull[r].n \in DOMAIN Schedule
  BY <1>2 DEF PullInv
<1>4. FeedOf(r) \in Feeds /\ FeedOf(r) # "partial"
  BY <1>3, CollectionAssumption DEF FeedOf, Feeds
<1> QED BY <1>2, <1>3, <1>4 DEF PullInv

\* A feed goes on with another state of its reading.
LEMMA FeedGoesOn ==
  ASSUME CollectionInv, NEW r \in Collectors, pull[r].at = "feed",
         NEW left, NEW got, NEW complete \in BOOLEAN, NEW errors,
         pull' = [pull EXCEPT ![r] = Feed(pull[r].n, left, got, complete, pull[r].events, errors)],
         UNCHANGED <<world, held, missed, unread>>,
         left \subseteq KindsOf[FeedOf(r)], got \subseteq FeedObjects(FeedOf(r)),
         complete => ReadAllBut(KindsOf[FeedOf(r)] \ left, got, Unseen(r))
  PROVE  CollectionInv'
<1>1. PICK p : p = Feed(pull[r].n, left, got, complete, pull[r].events, errors)
  OBVIOUS
<1>2. /\ p.at = "feed" /\ p.n = pull[r].n /\ p.left = left /\ p.got = got /\ p.complete = complete
      /\ p.events = pull[r].events
  BY <1>1 DEF Feed
<1>3. FeedInv(p, Unseen(r))
  BY <1>2 DEF FeedInv, FeedOf
<1>4. PullInv(p, Unseen(r), world)
  BY <1>2, <1>3, ReadingNow DEF PullInv
<1> QED BY <1>1, <1>4, OnePulls

LEMMA ListKindKeeps ==
  ASSUME CollectionInv, NEW r \in Collectors, NEW k, ListKind(r, k)
  PROVE  CollectionInv'
<1> DEFINE left == pull[r].left \ {k}
           got == pull[r].got \cup (world \cap ItemsOf[k])
           f == FeedOf(r)
<1>1. /\ pull[r].at = "feed" /\ k \in pull[r].left /\ UNCHANGED <<world, held, missed, unread>>
      /\ pull' = [pull EXCEPT ![r] = Feed(pull[r].n, left, got, pull[r].complete, pull[r].events, pull[r].errors)]
  BY DEF ListKind, Ready, CollectionInv
<1>2. FeedInv(pull[r], Unseen(r)) /\ Objects \ world \subseteq Unseen(r) /\ f \in Feeds
  BY <1>1, ReadingNow
<1>3. pull[r].left \subseteq KindsOf[f]
  BY <1>2 DEF FeedInv, FeedOf
<1>4. ItemsOf[k] \subseteq FeedObjects(f) /\ FeedObjects(f) \subseteq Objects
  BY <1>1, <1>2, <1>3 DEF FeedObjects, Objects, Kinds, Feeds
<1>5. got \subseteq FeedObjects(f)
  BY <1>2, <1>4 DEF FeedInv, FeedOf
<1>6. pull[r].complete => ReadAllBut(KindsOf[f] \ left, got, Unseen(r))
  <2> SUFFICES ASSUME pull[r].complete, NEW j \in KindsOf[f] \ left
               PROVE  ItemsOf[j] \ got \subseteq Unseen(r)
    BY DEF ReadAllBut
  <2>1. CASE j = k
    BY <2>1, <1>2, <1>4
  <2>2. CASE j # k
    <3>1. ReadAllBut(KindsOf[f] \ pull[r].left, pull[r].got, Unseen(r))
      BY <1>2 DEF FeedInv, FeedOf
    <3>2. ItemsOf[j] \ pull[r].got \subseteq Unseen(r)
      BY <2>2, <3>1 DEF ReadAllBut
    <3> QED BY <3>2
  <2> QED BY <2>1, <2>2
<1>7. pull[r].complete \in BOOLEAN /\ left \subseteq KindsOf[f]
  BY <1>2, <1>3 DEF FeedInv
<1> HIDE DEF left, got
<1> QED BY <1>1, <1>5, <1>6, <1>7, FeedGoesOn

\* Dropping the whole claim with a kind.
LEMMA GoOnKeeps ==
  ASSUME CollectionInv, NEW r \in Collectors, NEW k, GoOnWithout(r, k)
  PROVE  CollectionInv'
<1> DEFINE left == pull[r].left \ {k}
           p == pull[r]
<1>1. /\ pull[r].at = "feed" /\ UNCHANGED <<world, held, missed, unread>>
      /\ pull' = [pull EXCEPT ![r] = Feed(p.n, left, p.got, FALSE, p.events, 1)]
  BY DEF GoOnWithout, FailedKind, Ready, CollectionInv
<1>2. FeedInv(pull[r], Unseen(r))
  BY <1>1, ReadingNow
<1>3. pull[r].got \subseteq FeedObjects(FeedOf(r)) /\ left \subseteq KindsOf[FeedOf(r)]
  BY <1>2 DEF FeedInv, FeedOf
<1> HIDE DEF left
<1> QED BY <1>1, <1>3, FeedGoesOn

\* A feed that failed leaves the events as they were.
LEMMA FailFeedKeeps ==
  ASSUME CollectionInv, NEW r \in Collectors, NEW k, FailFeed(r, k)
  PROVE  CollectionInv'
<1>1. /\ pull[r].at = "feed" /\ UNCHANGED <<world, held, missed, unread>>
      /\ pull' = [pull EXCEPT ![r] = After(pull[r], pull[r].events, 1)]
  BY DEF FailFeed, Ready, CollectionInv
<1>2. PullInv(After(pull[r], pull[r].events, 1), Unseen(r), world)
  BY <1>1, ReadingNow, GoesOn
<1> QED BY <1>1, <1>2, OnePulls

\* One more event that holds what it says.
LEMMA OneMoreEvent ==
  ASSUME NEW events, NEW absent, EventsInv(events, absent), NEW e, EventInv(e, absent)
  PROVE  EventsInv(Append(events, e), absent)
<1>1. events = [i \in 1..Len(events) |-> events[i]] /\ Len(events) \in Nat
  BY DEF EventsInv
<1> DEFINE all == {events[i] : i \in 1..Len(events)} \cup {e}
           more == Append(events, e)
<1>2. events \in Seq(all) /\ e \in all
  BY <1>1
<1>3. /\ more \in Seq(all) /\ Len(more) = Len(events) + 1
      /\ \A i \in 1..Len(events) : more[i] = events[i]
      /\ more[Len(events) + 1] = e
  <2>1. more \in Seq(all) /\ Len(more) = Len(events) + 1
    BY <1>2
  <2>2. \A i \in 1..(Len(events) + 1) : more[i] = IF i = Len(events) + 1 THEN e ELSE events[i]
    BY <1>1, <1>2
  <2> HIDE DEF more
  <2> QED BY <1>1, <2>1, <2>2
<1>4. \A i \in 1..Len(more) : EventInv(more[i], absent)
  BY <1>1, <1>3 DEF EventsInv
<1>5. more = [i \in 1..Len(more) |-> more[i]] /\ Len(more) \in Nat
  <2> HIDE DEF more
  <2> QED BY <1>3
<1> QED BY <1>4, <1>5 DEF EventsInv

\* A feed read to its end says what it read, in full when it may say so.
LEMMA EndFeedKeeps ==
  ASSUME CollectionInv, NEW r \in Collectors, EndFeed(r)
  PROVE  CollectionInv'
<1> DEFINE f == FeedOf(r)
           event == Event(r)
           more == Append(pull[r].events, event)
<1>1. /\ pull[r].at = "feed" /\ pull[r].left = {} /\ UNCHANGED <<world, held, missed, unread>>
      /\ \/ pull' = [pull EXCEPT ![r] = After(pull[r], more, pull[r].errors)]
         \/ pull' = [pull EXCEPT ![r] = After(pull[r], pull[r].events, pull[r].errors)]
  BY DEF EndFeed, Ready, CollectionInv
<1>2. /\ pull[r] # Resting /\ pull[r].n \in DOMAIN Schedule /\ FeedInv(pull[r], Unseen(r))
      /\ EventsInv(pull[r].events, Unseen(r)) /\ Objects \ world \subseteq Unseen(r)
      /\ f \in Feeds /\ f # "partial"
  BY <1>1, ReadingNow
<1>3. /\ event.items = pull[r].got /\ event.scope = SnapshotScope(r)
      /\ event.qualified = (f \in OfAccount /\ account[r] = "known")
  BY DEF Event
<1>4. EventInv(event, Unseen(r))
  <2> HIDE DEF event, f
  <2> SUFFICES ASSUME event.scope # "partial"
               PROVE  /\ \A i \in event.items : Scoped(i, event.qualified, event.scope)
                      /\ ReadAllBut(KindsOf[event.scope], event.items, Unseen(r))
    BY DEF EventInv
  <2>1. event.scope = f /\ pull[r].complete /\ (f \in OfAccount => account[r] = "known")
    BY <1>3, <1>2 DEF SnapshotScope, FeedInv, f
  <2>2. \A i \in event.items : Scoped(i, event.qualified, event.scope)
    BY <2>1, <1>2, <1>3 DEF Scoped, FeedInv, f, FeedOf
  <2>3. ReadAllBut(KindsOf[f], pull[r].got, Unseen(r))
    BY <2>1, <1>1, <1>2 DEF FeedInv, f, FeedOf, ReadAllBut
  <2> QED BY <1>3, <2>1, <2>2, <2>3
<1> HIDE DEF event
<1>5. EventsInv(more, Unseen(r))
  BY <1>2, <1>4, OneMoreEvent
<1> HIDE DEF more
<1>6. /\ PullInv(After(pull[r], more, pull[r].errors), Unseen(r), world)
      /\ PullInv(After(pull[r], pull[r].events, pull[r].errors), Unseen(r), world)
  BY <1>2, <1>5, GoesOn
<1> QED BY <1>1, <1>6, OnePulls

\* A replica begins to read, or ends, when what was missed is counted anew.
LEMMA OneBegins ==
  ASSUME CollectionInv, NEW r \in Collectors, NEW p, NEW absent,
         pull' = [pull EXCEPT ![r] = p], missed' = [missed EXCEPT ![r] = absent],
         unread' = [unread EXCEPT ![r] = {}], world' = world, HeldInv', PullInv(p, absent, world)
  PROVE  CollectionInv'
<1>1. /\ pull'[r] = p /\ pull' = [q \in Collectors |-> pull'[q]]
      /\ \A q \in Collectors : q # r => pull'[q] = pull[q]
  BY DEF CollectionInv
<1>2. /\ missed'[r] = absent /\ missed' = [q \in Collectors |-> missed'[q]]
      /\ \A q \in Collectors : q # r => missed'[q] = missed[q]
  BY DEF CollectionInv
<1>3. /\ unread'[r] = {} /\ unread' = [q \in Collectors |-> unread'[q]]
      /\ \A q \in Collectors : q # r => unread'[q] = unread[q]
  BY DEF CollectionInv
<1>4. \A q \in Collectors : PullInv(pull'[q], missed'[q] \cup unread'[q], world)
  <2> TAKE q \in Collectors
  <2>1. CASE q = r
    <3>1. missed'[q] \cup unread'[q] = absent
      BY <2>1, <1>2, <1>3
    <3> QED BY <2>1, <3>1, <1>1
  <2>2. CASE q # r
    <3>1. PullInv(pull[q], missed[q] \cup unread[q], world)
      BY DEF CollectionInv, Unseen
    <3> QED BY <2>2, <3>1, <1>1, <1>2, <1>3
  <2> QED BY <2>1, <2>2
<1> QED BY <1>1, <1>2, <1>3, <1>4 DEF CollectionInv, Unseen

LEMMA SameHeld == ASSUME HeldInv, held' = held PROVE HeldInv'
BY DEF HeldInv

LEMMA RestingHolds == \A absent, now : PullInv(Resting, absent, now)
BY DEF PullInv

LEMMA FirstFeed == 1 \in DOMAIN Schedule
BY CollectionAssumption

LEMMA CollectAllKeeps ==
  ASSUME CollectionInv, NEW r \in Collectors, CollectAll(r)
  PROVE  CollectionInv'
<1> DEFINE p == Reading(1, << >>, 0)
           absent == Objects \ world
<1>1. /\ pull' = [pull EXCEPT ![r] = p] /\ missed' = [missed EXCEPT ![r] = absent]
      /\ unread' = [unread EXCEPT ![r] = {}] /\ world' = world /\ held' = held
  BY DEF CollectAll
<1>2. PullInv(p, absent, world)
  BY FirstFeed, NoEvents, BeginsEmpty
<1>3. HeldInv'
  BY <1>1, SameHeld DEF CollectionInv
<1> HIDE DEF p, absent
<1> QED BY <1>1, <1>2, <1>3, OneBegins

LEMMA RestartKeeps ==
  ASSUME CollectionInv, NEW r \in Collectors, RestartCollector(r)
  PROVE  CollectionInv'
<1>1. /\ pull' = [pull EXCEPT ![r] = Resting] /\ missed' = [missed EXCEPT ![r] = {}]
      /\ unread' = [unread EXCEPT ![r] = {}] /\ world' = world /\ held' = held
  BY DEF RestartCollector
<1>2. HeldInv'
  BY <1>1, SameHeld DEF CollectionInv
<1> QED BY <1>1, <1>2, RestingHolds, OneBegins

\* What an event asserts as a whole is as its feed may assert it.
LEMMA LandedHolds ==
  ASSUME HeldInv, NEW events, NEW absent, EventsInv(events, absent), held' = Landed(events)
  PROVE  HeldInv'
<1> SUFFICES ASSUME NEW x \in held'
             PROVE  /\ x = [item |-> x.item, qualified |-> x.qualified, scope |-> x.scope]
                    /\ x.scope # "partial" => Scoped(x.item, x.qualified, x.scope)
  BY DEF HeldInv
<1>1. CASE x \in held
  BY <1>1 DEF HeldInv
<1>2. CASE x \notin held
  <2>1. PICK i \in DOMAIN events : x \in Asserted(events[i])
    BY <1>2 DEF Landed
  <2>2. PICK item \in events[i].items :
          x = [item |-> item, qualified |-> events[i].qualified, scope |-> events[i].scope]
    BY <2>1 DEF Asserted
  <2>3. x.item = item /\ x.qualified = events[i].qualified /\ x.scope = events[i].scope
    BY <2>2
  <2>4. EventInv(events[i], absent)
    BY <2>1 DEF EventsInv
  <2>5. x = [item |-> x.item, qualified |-> x.qualified, scope |-> x.scope]
    BY <2>2, <2>3
  <2> QED BY <2>3, <2>4, <2>5 DEF EventInv
<1> QED BY <1>1, <1>2

\* The replica that publishes.
LEMMA PublishingNow ==
  ASSUME CollectionInv, NEW r \in Collectors, pull[r].at = "publish"
  PROVE  /\ pull[r] # Resting /\ pull[r].n \in DOMAIN Schedule
         /\ EventsInv(pull[r].events, Unseen(r)) /\ PullInv(pull[r], Unseen(r), world)
<1>1. Resting.at = "idle"
  BY DEF Resting
<1>2. pull[r] # Resting /\ PullInv(pull[r], Unseen(r), world)
  BY <1>1 DEF CollectionInv
<1> QED BY <1>2 DEF PullInv

LEMMA PublishKeeps ==
  ASSUME CollectionInv, NEW r \in Collectors, Publish(r)
  PROVE  CollectionInv'
<1> DEFINE p == Following(r)
           absent == IF p = Resting THEN {} ELSE Objects \ world
<1>1. pull[r].n \in DOMAIN Schedule /\ EventsInv(pull[r].events, Unseen(r))
  BY PublishingNow DEF Publish
<1>2. /\ pull' = [pull EXCEPT ![r] = p] /\ world' = world
      /\ held' = held \/ held' = Landed(pull[r].events)
      /\ missed' = [missed EXCEPT ![r] = IF pull'[r] = Resting THEN {} ELSE Objects \ world]
      /\ unread' = [unread EXCEPT ![r] = {}]
  BY DEF Publish
<1>3. missed' = [missed EXCEPT ![r] = absent]
  BY <1>2 DEF CollectionInv
<1>4. HeldInv'
  BY <1>1, <1>2, SameHeld, LandedHolds DEF CollectionInv
<1>5. PullInv(p, absent, world)
  <2>1. CASE pull[r].n < Len(Schedule)
    <3>1. p = Reading(pull[r].n + 1, << >>, 0)
      BY <2>1 DEF Following
    <3>2. pull[r].n + 1 \in DOMAIN Schedule
      BY <2>1, <1>1, CollectionAssumption
    <3>3. /\ PullInv(Reading(pull[r].n + 1, << >>, 0), Objects \ world, world)
          /\ Reading(pull[r].n + 1, << >>, 0) # Resting
      BY <3>2, NoEvents, BeginsEmpty
    <3> QED BY <3>1, <3>3
  <2>2. CASE ~(pull[r].n < Len(Schedule))
    BY <2>2, RestingHolds DEF Following
  <2> QED BY <2>1, <2>2
<1> HIDE DEF p, absent
<1> QED BY <1>2, <1>3, <1>4, <1>5, OneBegins

LEMMA CreateKeeps ==
  ASSUME CollectionInv, NEW i, Create(i)
  PROVE  CollectionInv'
<1>1. world' = world \cup {i} /\ UNCHANGED <<pull, missed, unread, held>>
  BY DEF Create
<1>2. \A r \in Collectors : PullInv(pull[r], Unseen(r), world')
  <2> TAKE r \in Collectors
  <2>1. PullInv(pull[r], Unseen(r), world)
    BY DEF CollectionInv
  <2>2. pull[r] # Resting => Objects \ world' \subseteq Unseen(r)
    BY <1>1, <2>1 DEF PullInv
  <2> QED BY <2>1, <2>2, AbsentGrows
<1>3. HeldInv'
  BY <1>1, SameHeld DEF CollectionInv
<1> QED BY <1>1, <1>2, <1>3 DEF CollectionInv, Unseen

LEMMA DeleteKeeps ==
  ASSUME CollectionInv, NEW i, Delete(i)
  PROVE  CollectionInv'
<1>1. /\ world' = world \ {i} /\ UNCHANGED <<pull, unread, held>>
      /\ missed' = [r \in Collectors |-> IF pull[r] = Resting THEN {} ELSE missed[r] \cup {i}]
  BY DEF Delete
<1>2. \A r \in Collectors : PullInv(pull[r], missed'[r] \cup unread[r], world')
  <2> TAKE r \in Collectors
  <2>1. PullInv(pull[r], Unseen(r), world)
    BY DEF CollectionInv
  <2>2. CASE pull[r] = Resting
    BY <2>2, RestingHolds
  <2>3. CASE pull[r] # Resting
    <3>1. missed'[r] = missed[r] \cup {i}
      BY <1>1, <2>3
    <3>2. PICK more : more = missed'[r] \cup unread[r]
      OBVIOUS
    <3>3. PICK then : then = world'
      OBVIOUS
    <3>4. Objects \ then \subseteq more /\ Unseen(r) \subseteq more
      BY <1>1, <2>1, <2>3, <3>1, <3>2, <3>3 DEF PullInv, Unseen
    <3>5. PullInv(pull[r], more, then)
      BY <2>1, <3>4, AbsentGrows
    <3> QED BY <3>2, <3>3, <3>5
  <2> QED BY <2>2, <2>3
<1>3. HeldInv'
  BY <1>1, SameHeld DEF CollectionInv
<1>4. (missed = [r \in Collectors |-> missed[r]])'
  BY <1>1
<1> QED BY <1>1, <1>2, <1>3, <1>4 DEF CollectionInv, Unseen

\* A quiet kind that could not be read goes unseen.
LEMMA QuietKeeps ==
  ASSUME CollectionInv, NEW r \in Collectors, NEW k, FailQuietly(r, k)
  PROVE  CollectionInv'
<1> DEFINE left == pull[r].left \ {k}
           p == pull[r]
           q == Feed(p.n, left, p.got, p.complete, p.events, p.errors)
           more == Unseen(r) \cup ItemsOf[k]
<1>1. /\ pull[r].at = "feed" /\ UNCHANGED <<world, held, missed>>
      /\ pull' = [pull EXCEPT ![r] = q] /\ unread' = [unread EXCEPT ![r] = unread[r] \cup ItemsOf[k]]
  BY DEF FailQuietly, Ready, CollectionInv
<1>2. FeedInv(p, Unseen(r)) /\ PullInv(p, Unseen(r), world) /\ p # Resting
  BY <1>1, ReadingNow
<1>3. Objects \ world \subseteq more
  BY <1>2 DEF PullInv
<1>4. PullInv(p, more, world)
  <2> HIDE DEF p
  <2> QED BY <1>2, <1>3, AbsentGrows
<1>5. /\ q.at = "feed" /\ q.n = p.n /\ q.left = left /\ q.got = p.got /\ q.complete = p.complete
      /\ q.events = p.events
  BY DEF Feed
<1>6. FeedInv(q, more)
  <2>1. FeedInv(p, more)
    BY <1>1, <1>2, <1>4 DEF PullInv
  <2>2. q.complete => ReadAllBut(KindsOf[Schedule[q.n]] \ q.left, q.got, more)
    <3> SUFFICES ASSUME q.complete, NEW j \in KindsOf[Schedule[q.n]] \ q.left
                 PROVE  ItemsOf[j] \ q.got \subseteq more
      BY DEF ReadAllBut
    <3>1. CASE j = k
      BY <3>1
    <3>2. CASE j # k
      BY <3>2, <2>1, <1>5 DEF FeedInv, ReadAllBut
    <3> QED BY <3>1, <3>2
  <2> HIDE DEF q, more
  <2> QED BY <1>5, <2>1, <2>2 DEF FeedInv
<1>7. PullInv(q, more, world)
  <2> HIDE DEF q, more
  <2> QED BY <1>2, <1>4, <1>5, <1>6 DEF PullInv
<1>8. /\ pull'[r] = q /\ pull' = [x \in Collectors |-> pull'[x]]
      /\ \A x \in Collectors : x # r => pull'[x] = pull[x] /\ unread'[x] = unread[x]
      /\ unread'[r] = unread[r] \cup ItemsOf[k] /\ unread' = [x \in Collectors |-> unread'[x]]
  BY <1>1 DEF CollectionInv
<1>9. \A x \in Collectors : PullInv(pull'[x], missed[x] \cup unread'[x], world)
  <2> TAKE x \in Collectors
  <2>1. CASE x = r
    <3>1. missed[x] \cup unread'[x] = more
      BY <2>1, <1>8 DEF Unseen
    <3> HIDE DEF q, more
    <3> QED BY <2>1, <3>1, <1>7, <1>8
  <2>2. CASE x # r
    BY <2>2, <1>8 DEF CollectionInv, Unseen
  <2> QED BY <2>1, <2>2
<1>10. HeldInv'
  BY <1>1, SameHeld DEF CollectionInv
<1> HIDE DEF q, more
<1> QED BY <1>1, <1>8, <1>9, <1>10 DEF CollectionInv, Unseen

LEMMA NothingPulled ==
  ASSUME CollectionInv, UNCHANGED <<world, pull, missed, unread, held>>
  PROVE  CollectionInv'
BY DEF CollectionInv, HeldInv, Unseen

LEMMA CollectionStepKeeps ==
  ASSUME CollectionInv, [CollectionNext]_pullVars
  PROVE  CollectionInv'
<1>1. ASSUME NEW r \in Collectors, CollectAll(r) PROVE CollectionInv'
  BY <1>1, CollectAllKeeps
<1>2. ASSUME NEW r \in Collectors, AskAccount(r) PROVE CollectionInv'
  BY <1>2, NothingPulled DEF AskAccount
<1>3. ASSUME NEW r \in Collectors, EndFeed(r) PROVE CollectionInv'
  BY <1>3, EndFeedKeeps
<1>4. ASSUME NEW r \in Collectors, Publish(r) PROVE CollectionInv'
  BY <1>4, PublishKeeps
<1>5. ASSUME NEW r \in Collectors, LeadMoves(r) PROVE CollectionInv'
  BY <1>5, NothingPulled DEF LeadMoves
<1>6. ASSUME NEW r \in Collectors, RestartCollector(r) PROVE CollectionInv'
  BY <1>6, RestartKeeps
<1>7. ASSUME NEW r \in Collectors, NEW k \in Kinds, ListKind(r, k) PROVE CollectionInv'
  BY <1>7, ListKindKeeps
<1>8. ASSUME NEW r \in Collectors, NEW k \in Kinds, FailQuietly(r, k) PROVE CollectionInv'
  BY <1>8, QuietKeeps
<1>9. ASSUME NEW r \in Collectors, NEW k \in Kinds, GoOnWithout(r, k) PROVE CollectionInv'
  BY <1>9, GoOnKeeps
<1>10. ASSUME NEW r \in Collectors, NEW k \in Kinds, FailFeed(r, k) PROVE CollectionInv'
  BY <1>10, FailFeedKeeps
<1>11. ASSUME NEW i \in Objects, Create(i) PROVE CollectionInv'
  BY <1>11, CreateKeeps
<1>12. ASSUME NEW i \in Objects, Delete(i) PROVE CollectionInv'
  BY <1>12, DeleteKeeps
<1>13. CASE UNCHANGED pullVars
  BY <1>13, NothingPulled DEF pullVars
<1> QED
  BY <1>1, <1>2, <1>3, <1>4, <1>5, <1>6, <1>7, <1>8, <1>9, <1>10, <1>11, <1>12, <1>13 DEF CollectionNext

LEMMA CollectionBegins == CollectionInit => CollectionInv
BY RestingHolds DEF CollectionInit, CollectionInv, HeldInv

\* The collections keep their account of what they read, whatever fails and however the
\* world moves: an event that describes its feed in full names every object of it but
\* those that were absent at some time since the connector began, and those of the quiet
\* kinds whose call has failed since (Connector.Collect, inCluster.Fetch, fetchNetwork,
\* fetchEKS, snapshotScope).
THEOREM CollectionInvariant == CollectionSpec => []CollectionInv
<1>1. CollectionInv /\ [CollectionNext]_pullVars => CollectionInv'
  BY CollectionStepKeeps
<1> QED BY CollectionBegins, <1>1, PTL DEF CollectionSpec

\* Only what is published takes anything away, and only what the collection did not see.
LEMMA PublishTakesTheGone ==
  ASSUME CollectionInv, NEW r \in Collectors, Publish(r), NEW x \in held \ held'
  PROVE  x.item \in Unseen(r)
<1>1. EventsInv(pull[r].events, Unseen(r))
  BY PublishingNow DEF Publish
<1>2. PICK events : events = pull[r].events
  OBVIOUS
<1>3. held' = Landed(events)
  BY <1>2 DEF Publish
<1>4. PICK i \in DOMAIN events : x \in WithdrawnBy(events[i])
  BY <1>3 DEF Landed
<1>5. PICK e : e = events[i]
  OBVIOUS
<1>6. EventInv(e, Unseen(r))
  BY <1>1, <1>2, <1>4, <1>5 DEF EventsInv
<1>7. e.scope # "partial" /\ x.scope = e.scope /\ x \notin Asserted(e)
  BY <1>4, <1>5 DEF WithdrawnBy
<1>8. Scoped(x.item, x.qualified, x.scope)
  BY <1>7 DEF CollectionInv, HeldInv
<1>9. PICK k \in KindsOf[e.scope] : x.item \in ItemsOf[k]
  BY <1>7, <1>8 DEF Scoped, FeedObjects
<1>10. x \in held
  OBVIOUS
<1>11. x.item \notin e.items
  <2> SUFFICES ASSUME x.item \in e.items PROVE FALSE
    OBVIOUS
  <2>1. Scoped(x.item, e.qualified, e.scope)
    BY <1>6, <1>7 DEF EventInv
  <2>2. x.qualified = e.qualified
    BY <1>7, <1>8, <2>1 DEF Scoped
  <2>3. [item |-> x.item, qualified |-> x.qualified, scope |-> x.scope] \in Asserted(e)
    BY <1>7, <2>2 DEF Asserted
  <2>4. x = [item |-> x.item, qualified |-> x.qualified, scope |-> x.scope]
    BY <1>10 DEF CollectionInv, HeldInv
  <2> QED BY <1>7, <2>3, <2>4
<1> QED BY <1>6, <1>7, <1>9, <1>11 DEF EventInv, ReadAllBut

\* RetractedWereGone, for any feeds, kinds and objects: whatever calls fail and however
\* the world moves, what a collection retracts was gone since its connector began to
\* read, or is of a quiet kind whose call failed in that very collection
\* (Connector.Collect, inCluster.Fetch, fetchNetwork, fetchEKS, snapshotScope, collectOne).
THEOREM PullsRetractTheGone == CollectionSpec => RetractedWereGone
<1> DEFINE Gone(x) == \E r \in Collectors : pull[r].at = "publish" /\ x.item \in missed[r] \cup unread[r]
<1>1. CollectionInv /\ [CollectionNext]_pullVars => [\A x \in held \ held' : Gone(x)]_pullVars
  <2> SUFFICES ASSUME CollectionInv, CollectionNext, NEW x \in held \ held'
               PROVE  Gone(x)
    OBVIOUS
  <2>1. PICK r \in Collectors : Publish(r)
    BY DEF CollectionNext, CollectAll, AskAccount, EndFeed, LeadMoves, RestartCollector, ListKind,
           FailQuietly, GoOnWithout, FailFeed, Create, Delete
  <2>2. pull[r].at = "publish"
    BY <2>1 DEF Publish
  <2> QED BY <2>1, <2>2, PublishTakesTheGone DEF Unseen
<1> QED BY CollectionInvariant, <1>1, PTL DEF CollectionSpec, RetractedWereGone

---------------------------------------------------------------------------
(***************************************************************************)
(* A kept forecast leaves only with its verdict, or overtaken: for any     *)
(* vulnerabilities, weights and replicas, whatever fails and restarts.     *)
(***************************************************************************)

OneEach(fs) == \A f, g \in fs : f.cve = g.cve => f = g
Dated(fs) == \A f \in fs : f.sealedAt \in Nat

\* What a pass grades was due when it began.
DueInv(turn) ==
  /\ turn.now \in Nat /\ Dated(turn.due)
  /\ \A f \in turn.due : f.sealedAt + HoldoutWindow <= turn.now

\* The one pass over the file grades what is still sealed.
FileInv ==
  store = "file" =>
    /\ \A f \in disk : f \in sealed \/ HasVerdict(f, graded)
    /\ asker[TheOne]["holdout"].due \subseteq sealed
    /\ \A r \in Engines \ {TheOne} : asker[r]["holdout"].due = {}

AskersHeld == asker = [r \in Engines |-> [p \in Callers |-> asker[r][p]]]

IntelInv ==
  /\ intelClock \in Nat /\ store \in {"file", "pg"}
  /\ AskersHeld
  /\ OneEach(sealed) /\ OneEach(disk) /\ Dated(sealed) /\ Dated(disk)
  /\ \A r \in Engines, p \in Callers : DueInv(asker[r][p])
  /\ FileInv

LEMMA IdleHasNothing == DueInv(Idling) /\ Idling.due = {} /\ Idling.now = 0 /\ Idling.at = "idle"
BY DEF Idling, Asking, DueInv, Dated

\* A caller takes a turn, and the others do not.
LEMMA OneTurns ==
  ASSUME AskersHeld, NEW r \in Engines, NEW p \in Callers, NEW turn, Turn(r, p, turn)
  PROVE  /\ AskersHeld' /\ asker'[r][p] = turn
         /\ \A q \in Engines, o \in Callers : q # r \/ o # p => asker'[q][o] = asker[q][o]
<1>1. asker' = [asker EXCEPT ![r] = [asker[r] EXCEPT ![p] = turn]]
  BY DEF Turn
<1>2. asker[r] = [o \in Callers |-> asker[r][o]] /\ asker = [q \in Engines |-> asker[q]]
  BY DEF AskersHeld
<1>3. asker'[r] = [asker[r] EXCEPT ![p] = turn] /\ \A q \in Engines : q # r => asker'[q] = asker[q]
  BY <1>1, <1>2
<1>4. \A o \in Callers : asker'[r][o] = IF o = p THEN turn ELSE asker[r][o]
  BY <1>2, <1>3
<1>5. asker' = [q \in Engines |-> asker'[q]]
  BY <1>1, <1>2
<1>6. \A q \in Engines : asker'[q] = [o \in Callers |-> asker'[q][o]]
  <2> TAKE q \in Engines
  <2>1. CASE q = r
    BY <2>1, <1>2, <1>3
  <2>2. CASE q # r
    BY <2>2, <1>3 DEF AskersHeld
  <2> QED BY <2>1, <2>2
<1> QED BY <1>3, <1>4, <1>5, <1>6 DEF AskersHeld

\* A turn that grades less, and leaves the forecasts alone.
LEMMA TurnKeeps ==
  ASSUME IntelInv, NEW r \in Engines, NEW p \in Callers, NEW turn, Turn(r, p, turn),
         turn.due \subseteq asker[r][p].due, turn.now = asker[r][p].now \/ turn = Idling,
         UNCHANGED <<intelClock, store, sealed, disk, graded>>
  PROVE  IntelInv'
<1>1. /\ AskersHeld' /\ asker'[r][p] = turn
      /\ \A q \in Engines, o \in Callers : q # r \/ o # p => asker'[q][o] = asker[q][o]
  BY OneTurns DEF IntelInv
<1>2. \A q \in Engines, o \in Callers : asker'[q][o].due \subseteq asker[q][o].due
  BY <1>1
<1>3. DueInv(turn)
  BY IdleHasNothing DEF IntelInv, DueInv, Dated
<1>4. \A q \in Engines, o \in Callers : DueInv(asker'[q][o])
  BY <1>1, <1>3 DEF IntelInv
<1>5. FileInv'
  <2> SUFFICES ASSUME store = "file"
               PROVE  /\ asker'[TheOne]["holdout"].due \subseteq sealed
                      /\ \A q \in Engines \ {TheOne} : asker'[q]["holdout"].due = {}
    BY DEF IntelInv, FileInv
  <2>1. TheOne \in Engines /\ "holdout" \in Callers
    BY DEF TheOne, Callers
  <2> QED BY <1>2, <2>1 DEF IntelInv, FileInv
<1> QED BY <1>1, <1>4, <1>5 DEF IntelInv

\* Whatever a call goes on with, it has the same to grade.
LEMMA Proceeded ==
  \A turn, at, got : Onward(turn, at, got).due = turn.due /\ Onward(turn, at, got).now = turn.now
BY DEF Onward, Asking

LEMMA FeedCallsKeep ==
  ASSUME IntelInv, NEW r \in Engines, NEW p \in Callers,
         EnsureKEV(r, p) \/ KeepKEV(r, p) \/ EnsureEPSS(r, p)
  PROVE  IntelInv'
<1>1. \E at, got : Turn(r, p, Onward(asker[r][p], at, got))
  BY DEF EnsureKEV, KeepKEV, EnsureEPSS
<1>2. UNCHANGED <<intelClock, store, sealed, disk, graded>>
  BY DEF EnsureKEV, KeepKEV, EnsureEPSS, feedVars, holdoutVars
<1>3. PICK turn : Turn(r, p, turn) /\ turn.due = asker[r][p].due /\ turn.now = asker[r][p].now
  BY <1>1, Proceeded
<1> QED BY <1>2, <1>3, TurnKeeps

LEMMA ScansKeep ==
  ASSUME IntelInv, NEW r \in Engines,
         \/ \E c \in Vulns, s \in Severities : HandleScan(r, c, s)
         \/ EnrichThreatIntel(r)
  PROVE  IntelInv'
<1>0. "normalizer" \in Callers
  BY DEF Callers
<1>1. CASE EnrichThreatIntel(r)
  <2>1. Turn(r, "normalizer", Idling) /\ UNCHANGED <<intelClock, store, sealed, disk, graded>>
    BY <1>1 DEF EnrichThreatIntel, feedVars, holdoutVars
  <2> QED BY <1>0, <2>1, IdleHasNothing, TurnKeeps
<1>2. ASSUME NEW c \in Vulns, NEW s \in Severities, HandleScan(r, c, s) PROVE IntelInv'
  <2>1. PICK turn : turn = Asking("kev", {c}, {}, s, {}, {}, 0)
    OBVIOUS
  <2>2. turn.due = {} /\ turn.now = 0
    BY <2>1 DEF Asking
  <2>3. /\ Turn(r, "normalizer", turn) /\ asker[r]["normalizer"] = Idling
        /\ UNCHANGED <<intelClock, store, sealed, disk, graded>>
    BY <1>2, <2>1 DEF HandleScan, feedVars, holdoutVars
  <2> QED BY <1>0, <2>2, <2>3, IdleHasNothing, TurnKeeps
<1> QED BY <1>1, <1>2

\* A pass begins with what is due.
LEMMA PassBegins ==
  ASSUME IntelInv, NEW r \in Engines, RunHoldout(r)
  PROVE  IntelInv'
<1>0. "holdout" \in Callers
  BY DEF Callers
<1>1. /\ UNCHANGED <<intelClock, store, sealed, disk, graded>>
      /\ store = "file" => r = TheOne
  BY DEF RunHoldout, feedVars, holdoutVars
<1>2. PICK due \in SUBSET sealed :
        /\ DueNow(due)
        /\ Turn(r, "holdout",
                Asking("kev", InGraph \cup {f.cve : f \in due}, {}, 0, due, InGraph, intelClock))
  BY DEF RunHoldout
<1>3. PICK turn : /\ Turn(r, "holdout", turn) /\ turn.due = due /\ turn.now = intelClock
  BY <1>2 DEF Asking
<1>4. /\ AskersHeld' /\ asker'[r]["holdout"] = turn
      /\ \A q \in Engines, o \in Callers : q # r \/ o # "holdout" => asker'[q][o] = asker[q][o]
  BY <1>0, <1>3, OneTurns DEF IntelInv
<1>5. DueInv(turn)
  <2>1. \A f \in due : f.sealedAt \in Nat /\ f.sealedAt + HoldoutWindow <= intelClock
    BY <1>2, IntelAssumption DEF IntelInv, Dated, DueNow, Due
  <2> QED BY <1>3, <2>1 DEF IntelInv, DueInv, Dated
<1>6. \A q \in Engines, o \in Callers : DueInv(asker'[q][o])
  BY <1>4, <1>5 DEF IntelInv
<1>7. FileInv'
  BY <1>0, <1>1, <1>3, <1>4 DEF IntelInv, FileInv
<1> QED BY <1>1, <1>4, <1>6, <1>7 DEF IntelInv

\* The verdict a pass files, and what leaves with it.
LEMMA FilesAVerdict ==
  ASSUME IntelInv, NEW r \in Engines, NEW f \in asker[r]["holdout"].due, NEW in, NEW vs,
         Verdict(f, in, asker[r]["holdout"].now) \in vs
  PROVE  HasVerdict(f, vs)
<1>1. DueInv(asker[r]["holdout"])
  BY DEF IntelInv, Callers
<1>2. asker[r]["holdout"].now >= f.sealedAt + HoldoutWindow
  BY <1>1, IntelAssumption DEF DueInv, Dated
<1> QED BY <1>2 DEF HasVerdict, Verdict

LEMMA VerdictsStay == \A f, vs, more : vs \subseteq more /\ HasVerdict(f, vs) => HasVerdict(f, more)
BY DEF HasVerdict

LEMMA GradeSteps ==
  ASSUME IntelInv, NEW r \in Engines, NEW f \in asker[r]["holdout"].due, Grade(r, f)
  PROVE  /\ graded \subseteq graded' /\ sealed' \subseteq sealed
         /\ sealed' # sealed => HasVerdict(f, graded') /\ sealed' = Without(sealed, {f})
         /\ UNCHANGED <<intelClock, store, disk>>
         /\ \E turn : /\ Turn(r, "holdout", turn) /\ turn.due = asker[r]["holdout"].due \ {f}
                      /\ turn.now = asker[r]["holdout"].now
<1>1. UNCHANGED <<intelClock, store, disk>>
  BY DEF Grade, feedVars
<1>2. \E turn : /\ Turn(r, "holdout", turn) /\ turn.due = asker[r]["holdout"].due \ {f}
                /\ turn.now = asker[r]["holdout"].now
  BY DEF Grade, Asking
<1>3. PICK filed \in BOOLEAN, dropped \in BOOLEAN :
        /\ graded' = IF filed THEN graded \cup {Verdict(f, IntelOf(r, f.cve), asker[r]["holdout"].now)}
                     ELSE graded
        /\ sealed' = IF dropped THEN Without(sealed, Dropped(f, filed)) ELSE sealed
  BY DEF Grade
<1>4. \A fs : Without(fs, {}) = fs
  BY DEF Without
<1>5. CASE dropped /\ filed
  <2>1. sealed' = Without(sealed, {f})
    BY <1>3, <1>5 DEF Dropped
  <2>2. HasVerdict(f, graded')
    <3>1. PICK vs : vs = graded'
      OBVIOUS
    <3>2. Verdict(f, IntelOf(r, f.cve), asker[r]["holdout"].now) \in vs
      BY <1>3, <1>5, <3>1
    <3>3. HasVerdict(f, vs)
      BY <3>2, FilesAVerdict
    <3> QED BY <3>1, <3>3
  <2> QED BY <1>1, <1>2, <1>3, <2>1, <2>2 DEF Without
<1>6. CASE ~(dropped /\ filed)
  <2>1. sealed' = sealed
    BY <1>3, <1>4, <1>6 DEF Dropped
  <2> QED BY <1>1, <1>2, <1>3, <2>1
<1> QED BY <1>5, <1>6

LEMMA GradeKeeps ==
  ASSUME IntelInv, NEW r \in Engines, NEW f \in asker[r]["holdout"].due, Grade(r, f)
  PROVE  IntelInv'
<1>0. "holdout" \in Callers
  BY DEF Callers
<1>1. /\ graded \subseteq graded' /\ sealed' \subseteq sealed
      /\ sealed' # sealed => HasVerdict(f, graded') /\ sealed' = Without(sealed, {f})
      /\ UNCHANGED <<intelClock, store, disk>>
  BY GradeSteps
<1>2. PICK turn : /\ Turn(r, "holdout", turn) /\ turn.due = asker[r]["holdout"].due \ {f}
                  /\ turn.now = asker[r]["holdout"].now
  BY GradeSteps
<1>3. /\ AskersHeld' /\ asker'[r]["holdout"] = turn
      /\ \A q \in Engines, o \in Callers : q # r \/ o # "holdout" => asker'[q][o] = asker[q][o]
  BY <1>0, <1>2, OneTurns DEF IntelInv
<1>4. DueInv(turn)
  BY <1>0, <1>2 DEF IntelInv, DueInv, Dated
<1>5. \A q \in Engines, o \in Callers : DueInv(asker'[q][o])
  BY <1>3, <1>4 DEF IntelInv
<1>6. FileInv'
  <2> SUFFICES ASSUME store = "file"
               PROVE  /\ \A g \in disk : g \in sealed' \/ HasVerdict(g, graded')
                      /\ asker'[TheOne]["holdout"].due \subseteq sealed'
                      /\ \A q \in Engines \ {TheOne} : asker'[q]["holdout"].due = {}
    BY <1>1 DEF FileInv
  <2>1. /\ \A g \in disk : g \in sealed \/ HasVerdict(g, graded)
        /\ asker[TheOne]["holdout"].due \subseteq sealed
        /\ \A q \in Engines \ {TheOne} : asker[q]["holdout"].due = {}
    BY DEF IntelInv, FileInv
  <2>2. r = TheOne /\ f \in sealed
    BY <2>1
  <2>3. \A g \in sealed \ sealed' : g = f /\ HasVerdict(f, graded')
    BY <1>1, <2>2 DEF IntelInv, OneEach, Without
  <2>4. \A g \in disk : g \in sealed' \/ HasVerdict(g, graded')
    <3> TAKE g \in disk
    <3>1. PICK vs : vs = graded'
      OBVIOUS
    <3>2. HasVerdict(g, graded) => HasVerdict(g, vs)
      BY <1>1, <3>1, VerdictsStay
    <3> QED BY <2>1, <2>3, <3>1, <3>2
  <2>5. asker'[TheOne]["holdout"].due \subseteq sealed'
    BY <1>2, <1>3, <2>1, <2>2, <2>3
  <2>6. \A q \in Engines \ {TheOne} : asker'[q]["holdout"].due = {}
    BY <1>0, <1>3, <2>1, <2>2
  <2> QED BY <2>4, <2>5, <2>6
<1>7. OneEach(sealed') /\ Dated(sealed')
  BY <1>1 DEF IntelInv, OneEach, Dated
<1> QED BY <1>1, <1>3, <1>5, <1>6, <1>7 DEF IntelInv

\* What is sealed stays, one of each vulnerability.
LEMMA ResealedIsOneEach ==
  ASSUME NEW fs, NEW new, OneEach(fs), OneEach(new), Dated(fs), Dated(new)
  PROVE  /\ OneEach(Resealed(fs, new)) /\ Dated(Resealed(fs, new)) /\ fs \subseteq Resealed(fs, new)
BY DEF OneEach, Dated, Resealed

LEMMA SealKeeps ==
  ASSUME IntelInv, NEW r \in Engines, Seal(r)
  PROVE  IntelInv'
<1> DEFINE turn == asker[r]["holdout"]
           new == {[cve |-> c, predicted |-> EdgeProbability(IntelOf(r, c), 0), sealedAt |-> turn.now] :
                     c \in {d \in turn.open : ~IntelOf(r, d).kev /\ IntelOf(r, d).epss > 0}}
<1>0. "holdout" \in Callers
  BY DEF Callers
<1>1. /\ turn.due = {} /\ UNCHANGED <<intelClock, store, disk, graded>>
      /\ \E kept \in SUBSET new : sealed' = Resealed(sealed, kept)
  BY DEF Seal, feedVars
<1>2. PICK next : /\ Turn(r, "holdout", next) /\ next.due = {}
                  /\ next.now = turn.now \/ next = Idling
  <2>1. \/ Turn(r, "holdout", Onward(turn, "flush", {}))
        \/ Turn(r, "holdout", Idling)
    BY DEF Seal
  <2> QED BY <1>1, <2>1, Proceeded, IdleHasNothing
<1>3. OneEach(new) /\ Dated(new)
  <2>1. turn.now \in Nat
    BY <1>0 DEF IntelInv, DueInv
  <2>2. \A f \in new : f.sealedAt = turn.now /\ f = [cve |-> f.cve, predicted |-> EdgeProbability(IntelOf(r, f.cve), 0), sealedAt |-> turn.now]
    OBVIOUS
  <2> HIDE DEF new
  <2> QED BY <2>1, <2>2 DEF OneEach, Dated
<1> HIDE DEF new
<1>4. PICK kept \in SUBSET new : sealed' = Resealed(sealed, kept)
  BY <1>1
<1>5. OneEach(kept) /\ Dated(kept)
  BY <1>3, <1>4 DEF OneEach, Dated
<1>6. OneEach(sealed') /\ Dated(sealed') /\ sealed \subseteq sealed'
  BY <1>4, <1>5, ResealedIsOneEach DEF IntelInv
<1>7. /\ AskersHeld' /\ asker'[r]["holdout"] = next
      /\ \A q \in Engines, o \in Callers : q # r \/ o # "holdout" => asker'[q][o] = asker[q][o]
  BY <1>0, <1>2, OneTurns DEF IntelInv
<1>8. DueInv(next)
  BY <1>0, <1>1, <1>2, IdleHasNothing DEF IntelInv, DueInv
<1>9. \A q \in Engines, o \in Callers : DueInv(asker'[q][o])
  BY <1>7, <1>8 DEF IntelInv
<1>10. FileInv'
  <2> SUFFICES ASSUME store = "file"
               PROVE  /\ \A g \in disk : g \in sealed' \/ HasVerdict(g, graded)
                      /\ asker'[TheOne]["holdout"].due \subseteq sealed'
                      /\ \A q \in Engines \ {TheOne} : asker'[q]["holdout"].due = {}
    BY <1>1 DEF FileInv
  <2>1. TheOne \in Engines
    BY DEF TheOne
  <2> QED BY <1>0, <1>2, <1>6, <1>7, <2>1 DEF IntelInv, FileInv
<1> QED BY <1>1, <1>6, <1>7, <1>9, <1>10 DEF IntelInv

LEMMA FlushKeeps ==
  ASSUME IntelInv, NEW r \in Engines, Flush(r)
  PROVE  IntelInv'
<1>0. "holdout" \in Callers
  BY DEF Callers
<1>1. /\ Turn(r, "holdout", Idling) /\ UNCHANGED <<intelClock, store, sealed, graded>>
      /\ disk' = sealed \/ disk' = disk
  BY DEF Flush, feedVars
<1>2. /\ AskersHeld' /\ asker'[r]["holdout"] = Idling
      /\ \A q \in Engines, o \in Callers : q # r \/ o # "holdout" => asker'[q][o] = asker[q][o]
  BY <1>0, <1>1, OneTurns DEF IntelInv
<1>3. \A q \in Engines, o \in Callers : DueInv(asker'[q][o])
  BY <1>2, IdleHasNothing DEF IntelInv
<1>4. FileInv'
  <2> SUFFICES ASSUME store = "file"
               PROVE  /\ \A g \in disk' : g \in sealed \/ HasVerdict(g, graded)
                      /\ asker'[TheOne]["holdout"].due \subseteq sealed
                      /\ \A q \in Engines \ {TheOne} : asker'[q]["holdout"].due = {}
    BY <1>1 DEF FileInv
  <2>1. TheOne \in Engines
    BY DEF TheOne
  <2> QED BY <1>0, <1>1, <1>2, <2>1, IdleHasNothing DEF IntelInv, FileInv
<1>5. OneEach(disk') /\ Dated(disk')
  BY <1>1 DEF IntelInv
<1> QED BY <1>1, <1>2, <1>3, <1>4, <1>5 DEF IntelInv

\* The file is read again, and the pass forgotten.
LEMMA RestartKeepsIntel ==
  ASSUME IntelInv, NEW r \in Engines, RestartEngine(r)
  PROVE  IntelInv'
<1>0. "holdout" \in Callers
  BY DEF Callers
<1>1. /\ asker' = [asker EXCEPT ![r] = [p \in Callers |-> Idling]]
      /\ sealed' = IF store = "file" /\ r = TheOne THEN disk ELSE sealed
      /\ UNCHANGED <<intelClock, store, disk, graded>>
  BY DEF RestartEngine, feedVars
<1>2. asker = [q \in Engines |-> asker[q]] /\ \A q \in Engines : asker[q] = [o \in Callers |-> asker[q][o]]
  BY DEF IntelInv, AskersHeld
<1>3. /\ asker' = [q \in Engines |-> asker'[q]]
      /\ \A q \in Engines : asker'[q] = IF q = r THEN [p \in Callers |-> Idling] ELSE asker[q]
  BY <1>1, <1>2
<1>4. \A q \in Engines : asker'[q] = [o \in Callers |-> asker'[q][o]]
  <2> TAKE q \in Engines
  <2>1. CASE q = r
    BY <2>1, <1>3
  <2>2. CASE q # r
    BY <2>2, <1>2, <1>3
  <2> QED BY <2>1, <2>2
<1>5. AskersHeld'
  BY <1>3, <1>4 DEF AskersHeld
<1>6. \A q \in Engines, o \in Callers : asker'[q][o] = IF q = r THEN Idling ELSE asker[q][o]
  BY <1>3
<1>7. \A q \in Engines, o \in Callers : DueInv(asker'[q][o])
  BY <1>6, IdleHasNothing DEF IntelInv
<1>8. FileInv'
  <2> SUFFICES ASSUME store = "file"
               PROVE  /\ \A g \in disk : g \in sealed' \/ HasVerdict(g, graded)
                      /\ asker'[TheOne]["holdout"].due \subseteq sealed'
                      /\ \A q \in Engines \ {TheOne} : asker'[q]["holdout"].due = {}
    BY <1>1 DEF FileInv
  <2>1. TheOne \in Engines
    BY DEF TheOne
  <2>2. \A q \in Engines : asker'[q]["holdout"].due = IF q = r THEN {} ELSE asker[q]["holdout"].due
    BY <1>0, <1>6, IdleHasNothing
  <2>3. CASE r = TheOne
    BY <2>1, <2>2, <2>3, <1>1 DEF IntelInv, FileInv
  <2>4. CASE r # TheOne
    BY <2>1, <2>2, <2>4, <1>1 DEF IntelInv, FileInv
  <2> QED BY <2>3, <2>4
<1>9. OneEach(sealed') /\ Dated(sealed')
  BY <1>1 DEF IntelInv
<1> QED BY <1>1, <1>5, <1>7, <1>8, <1>9 DEF IntelInv

LEMMA WorldKeeps ==
  ASSUME IntelInv, UNCHANGED <<asker, store, sealed, disk, graded>>, intelClock' \in Nat
  PROVE  IntelInv'
BY DEF IntelInv, AskersHeld, FileInv

LEMMA IntelStepKeeps ==
  ASSUME IntelInv, [IntelNext]_intelVars
  PROVE  IntelInv'
<1>1. ASSUME NEW r \in Engines, NEW p \in Callers, EnsureKEV(r, p) \/ KeepKEV(r, p) \/ EnsureEPSS(r, p)
      PROVE  IntelInv'
  BY <1>1, FeedCallsKeep
<1>2. ASSUME NEW r \in Engines, NEW c \in Vulns, NEW s \in Severities, HandleScan(r, c, s)
      PROVE  IntelInv'
  BY <1>2, ScansKeep
<1>3. ASSUME NEW r \in Engines, EnrichThreatIntel(r) PROVE IntelInv'
  BY <1>3, ScansKeep
<1>4. ASSUME NEW r \in Engines, RunHoldout(r) PROVE IntelInv'
  BY <1>4, PassBegins
<1>5. ASSUME NEW r \in Engines, Seal(r) PROVE IntelInv'
  BY <1>5, SealKeeps
<1>6. ASSUME NEW r \in Engines, Flush(r) PROVE IntelInv'
  BY <1>6, FlushKeeps
<1>7. ASSUME NEW r \in Engines, RestartEngine(r) PROVE IntelInv'
  BY <1>7, RestartKeepsIntel
<1>8. ASSUME NEW r \in Engines, NEW f \in asker[r]["holdout"].due, Grade(r, f) PROVE IntelInv'
  BY <1>8, GradeKeeps
<1>9. ASSUME NEW c \in Vulns, EnterKEV(c) \/ \E v \in Levels : Rescored(c, v) PROVE IntelInv'
  <2>1. UNCHANGED <<asker, store, sealed, disk, graded>> /\ intelClock' = intelClock
    BY <1>9 DEF EnterKEV, Rescored, holdoutVars
  <2> QED BY <2>1, WorldKeeps DEF IntelInv
<1>10. CASE IntelTick
  <2>1. UNCHANGED <<asker, store, sealed, disk, graded>> /\ intelClock' = intelClock + 1
    BY <1>10 DEF IntelTick, holdoutVars
  <2> QED BY <2>1, WorldKeeps DEF IntelInv
<1>11. CASE UNCHANGED intelVars
  <2>1. UNCHANGED <<asker, store, sealed, disk, graded>> /\ intelClock' = intelClock
    BY <1>11 DEF intelVars, feedVars, holdoutVars
  <2> QED BY <2>1, WorldKeeps DEF IntelInv
<1> QED
  BY <1>1, <1>2, <1>3, <1>4, <1>5, <1>6, <1>7, <1>8, <1>9, <1>10, <1>11 DEF IntelNext

LEMMA IntelBegins == IntelInit => IntelInv
<1> SUFFICES ASSUME IntelInit PROVE IntelInv
  OBVIOUS
<1>1. /\ asker = [r \in Engines |-> [p \in Callers |-> Idling]] /\ intelClock = 1
      /\ store \in {"file", "pg"}
  BY DEF IntelInit
<1>2. sealed = {} /\ disk = {} /\ graded = {}
  BY DEF IntelInit
<1>3. AskersHeld
  BY <1>1 DEF AskersHeld
<1>4. \A r \in Engines, p \in Callers : DueInv(asker[r][p]) /\ asker[r][p].due = {}
  BY <1>1, IdleHasNothing
<1>5. FileInv
  <2>1. "holdout" \in Callers
    BY DEF Callers
  <2>2. TheOne \in Engines
    BY IntelAssumption DEF TheOne
  <2> QED BY <1>2, <1>4, <2>1, <2>2 DEF FileInv
<1> QED BY <1>1, <1>2, <1>3, <1>4, <1>5 DEF IntelInv, OneEach, Dated

\* The holdout keeps its books, for any vulnerabilities and replicas: one open forecast
\* of a vulnerability at a time, a pass grades only what was due when it began, and over
\* the file nothing is written that is neither still sealed nor graded (Run, seal, drop,
\* flush, NewStore).
THEOREM IntelInvariant == IntelSpec => []IntelInv
<1>1. IntelInv /\ [IntelNext]_intelVars => IntelInv'
  BY IntelStepKeeps
<1> QED BY IntelBegins, <1>1, PTL DEF IntelSpec

LEMMA StoreStays == ASSUME [IntelNext]_intelVars PROVE store' = store
BY DEF IntelNext, EnsureKEV, KeepKEV, EnsureEPSS, HandleScan, EnrichThreatIntel, RunHoldout, Grade, Seal,
       Flush, RestartEngine, EnterKEV, Rescored, IntelTick, intelVars

\* The file changes when it is written, the database when a pass grades.
LEMMA DiskSteps == ASSUME [IntelNext]_intelVars PROVE disk' = disk \/ disk' = sealed
BY DEF IntelNext, EnsureKEV, KeepKEV, EnsureEPSS, HandleScan, EnrichThreatIntel, RunHoldout, Grade, Seal,
       Flush, RestartEngine, EnterKEV, Rescored, IntelTick, intelVars, holdoutVars

LEMMA SealedSteps ==
  ASSUME [IntelNext]_intelVars, store = "pg", IntelInv
  PROVE  \/ sealed \subseteq sealed'
         \/ \E r \in Engines : \E f \in asker[r]["holdout"].due : Grade(r, f)
<1>1. ASSUME NEW r \in Engines, Seal(r) PROVE sealed \subseteq sealed'
  BY <1>1 DEF Seal, Resealed
<1>2. ASSUME NEW r \in Engines, RestartEngine(r) PROVE sealed' = sealed
  BY <1>2 DEF RestartEngine
<1> QED
  BY <1>1, <1>2
  DEF IntelNext, EnsureKEV, KeepKEV, EnsureEPSS, HandleScan, EnrichThreatIntel, RunHoldout,
      Flush, EnterKEV, Rescored, IntelTick, intelVars, holdoutVars

LEMMA VerdictsAreKept == ASSUME [IntelNext]_intelVars PROVE graded \subseteq graded'
<1>1. ASSUME NEW r \in Engines, NEW f, Grade(r, f) PROVE graded \subseteq graded'
  BY <1>1 DEF Grade
<1> QED
  BY <1>1
  DEF IntelNext, EnsureKEV, KeepKEV, EnsureEPSS, HandleScan, EnrichThreatIntel, RunHoldout, Seal,
      Flush, RestartEngine, EnterKEV, Rescored, IntelTick, intelVars, holdoutVars

\* SealsEndInVerdicts, for any vulnerabilities, weights, replicas and windows: a forecast
\* leaves the file or the database only with its verdict, filed a window after it was
\* sealed, or overtaken (Run, seal, drop, flush).
THEOREM ForecastsEndInVerdicts == IntelSpec => SealsEndInVerdicts
<1>1. IntelInv /\ [IntelNext]_intelVars =>
        [\A f \in KeptForecasts \ KeptForecasts' : HasVerdict(f, graded') \/ Overtaken(f.cve)]_intelVars
  <2> SUFFICES ASSUME IntelInv, [IntelNext]_intelVars, NEW f \in KeptForecasts \ KeptForecasts'
               PROVE  HasVerdict(f, graded') \/ Overtaken(f.cve)
    OBVIOUS
  <2>1. CASE store = "pg"
    <3>1. f \in sealed /\ f \notin sealed'
      BY <2>1, StoreStays DEF KeptForecasts
    <3>2. PICK r \in Engines : \E g \in asker[r]["holdout"].due : Grade(r, g)
      BY <2>1, <3>1, SealedSteps
    <3>3. PICK g \in asker[r]["holdout"].due : Grade(r, g)
      BY <3>2
    <3>4. HasVerdict(g, graded') /\ sealed' = Without(sealed, {g})
      BY <3>1, <3>3, GradeSteps
    <3>5. f.cve = g.cve
      BY <3>1, <3>4 DEF Without
    <3>6. CASE g \in sealed
      BY <3>1, <3>4, <3>5, <3>6 DEF IntelInv, OneEach
    <3>7. CASE g \notin sealed
      BY <2>1, <3>5, <3>7 DEF Overtaken
    <3> QED BY <3>6, <3>7
  <2>2. CASE store # "pg"
    <3>1. f \in disk /\ f \notin disk'
      BY <2>2, StoreStays DEF KeptForecasts
    <3>2. f \notin sealed
      BY <3>1, DiskSteps
    <3>3. store = "file"
      BY <2>2 DEF IntelInv
    <3>4. HasVerdict(f, graded)
      BY <3>1, <3>2, <3>3 DEF IntelInv, FileInv
    <3>5. PICK vs : vs = graded'
      OBVIOUS
    <3>6. HasVerdict(f, vs)
      BY <3>4, <3>5, VerdictsAreKept, VerdictsStay
    <3> QED BY <3>5, <3>6
  <2> QED BY <2>1, <2>2
<1> QED BY IntelInvariant, <1>1, PTL DEF IntelSpec, SealsEndInVerdicts

---------------------------------------------------------------------------
(***************************************************************************)
(* The door is kept: for any replicas, requests, addresses, credentials    *)
(* and keys, whatever fails and restarts.                                  *)
(***************************************************************************)

Times == [Addresses -> Int]

\* What the table has and these rows do not is over, or was set since they were read.
Covers(rows, table, since, now) ==
  \A a \in Addresses : table[a] <= rows[a] \/ table[a] <= now \/ table[a] - Cooldown >= since

\* A request being handled; a trip is written in the tick it is made.
CallInv(k, table, now) ==
  /\ k.at # "idle" => k.proc \in Procs /\ k.addr \in Addresses
  /\ k.at \in {"trip", "remember"} => k.until \in Int
  /\ k.at = "trip" => k.until = now + Cooldown
  /\ k.at = "selected" => k.rows \in Times /\ Covers(k.rows, table, now, now)

CallsInv ==
  /\ call = [c \in Requesters |-> call[c]]
  /\ \A c \in Requesters : CallInv(call[c], lockouts, clock)

ViewsInv ==
  /\ lockouts \in Times /\ view \in [Procs -> Times] /\ viewedAt \in [Procs -> Int]
  /\ \A p \in Procs : viewedAt[p] <= clock /\ Covers(view[p], lockouts, viewedAt[p], clock)

\* What a replica holds was published when it fetched it.
KeysInv ==
  /\ published \subseteq SigningKeys /\ withdrawn \in [SigningKeys -> Int]
  /\ keys \in [Procs -> SUBSET SigningKeys] /\ keysAt \in [Procs -> Int]
  /\ \A k \in published : withdrawn[k] = None
  /\ \A p \in Procs : keysAt[p] <= clock
  /\ \A p \in Procs : \A k \in keys[p] : withdrawn[k] = None \/ withdrawn[k] >= keysAt[p]

Grants(v, since) ==
  LET c == v.cred
  IN \/ c.kind = "token" /\ c.id \in DOMAIN Tokens /\ v.time < Tokens[c.id].expiry
          /\ v.got.role = Tokens[c.id].role
     \/ c.kind = "jwt" /\ c.key \in SigningKeys
          /\ (since[c.key] = None \/ v.time - since[c.key] <= JwksTTL)
          /\ v.got.role = RoleFrom(c)
     \/ c.kind = "none" /\ v.got.role = AnonymousRole

Excused(v, fetched) ==
  \/ RequireTenant /\ ~v.cred.tenant
  \/ v.fetched = "failed"
  \/ v.time - fetched[v.proc] <= MinRefetch
  \/ fetched[v.proc] = None

VerdictInv(v, since, fetched, now) ==
  v # Unasked =>
    /\ v.time \in Nat /\ v.time <= now /\ v.proc \in Procs
    /\ v.answer = "admitted" => Grants(v, since)
    /\ v.answer = "denied" /\ v.cred.kind = "jwt" /\ RoleFrom(v.cred) >= MinRole => Excused(v, fetched)

DoorInv ==
  /\ clock \in Nat
  /\ ViewsInv /\ CallsInv /\ KeysInv
  /\ VerdictInv(verdict, withdrawn, keysAt, clock)

LEMMA WaitsForNothing == \A table, now : CallInv(Waiting, table, now)
BY DEF CallInv, Waiting

\* A table, or a copy of it, with the later of two times for an address.
Raised(rows, a, until) == [rows EXCEPT ![a] = IF until > rows[a] THEN until ELSE rows[a]]

\* A lockout that is set in this tick is news to whoever read before.
LEMMA SetNow ==
  ASSUME NEW rows, NEW table \in Times, NEW since \in Int, NEW now \in Nat, since <= now,
         Covers(rows, table, since, now), NEW a \in Addresses, NEW until, until = now + Cooldown
  PROVE  Raised(table, a, until) \in Times /\ Covers(rows, Raised(table, a, until), since, now)
<1>0. PICK more : more = [table EXCEPT ![a] = IF until > table[a] THEN until ELSE table[a]]
  OBVIOUS
<1>1. until \in Int /\ until - Cooldown >= since
  BY AccessAssumption
<1>2. more \in Times
  BY <1>0, <1>1 DEF Times
<1>3. \A b \in Addresses : more[b] = table[b] \/ more[b] = until
  BY <1>0 DEF Times
<1>4. Covers(rows, more, since, now)
  BY <1>1, <1>2, <1>3 DEF Covers
<1> QED BY <1>0, <1>2, <1>4 DEF Raised

\* What is over may go.
LEMMA OverGoes ==
  ASSUME NEW rows, NEW table \in Times, NEW since \in Int, NEW now \in Nat,
         Covers(rows, table, since, now), NEW gone
  PROVE  /\ Forgotten(table, gone, None) \in Times
         /\ Covers(rows, Forgotten(table, gone, None), since, now)
BY DEF Times, Covers, Forgotten, None

\* A row that is remembered only adds.
LEMMA RowsGrow ==
  ASSUME NEW rows \in Times, NEW table \in Times, NEW since, NEW now,
         Covers(rows, table, since, now), NEW a \in Addresses, NEW until \in Int
  PROVE  Raised(rows, a, until) \in Times /\ Covers(Raised(rows, a, until), table, since, now)
<1>0. PICK more : more = [rows EXCEPT ![a] = IF until > rows[a] THEN until ELSE rows[a]]
  OBVIOUS
<1>1. more \in Times /\ \A b \in Addresses : more[b] >= rows[b]
  BY <1>0 DEF Times
<1>2. \A b \in Addresses : more[b] \in Int /\ rows[b] \in Int /\ table[b] \in Int
  BY <1>1 DEF Times
<1>3. Covers(more, table, since, now)
  BY <1>1, <1>2 DEF Covers
<1> QED BY <1>0, <1>1, <1>3 DEF Raised

\* Rows that are the table.
LEMMA TableCoversItself ==
  ASSUME NEW table \in Times, NEW since, NEW now
  PROVE  Covers(table, table, since, now)
BY DEF Covers, Times

\* One request goes on, over the same table.
LEMMA OneCall ==
  ASSUME CallsInv, NEW c \in Requesters, NEW k, call' = [call EXCEPT ![c] = k],
         UNCHANGED <<lockouts, clock>>, CallInv(k, lockouts, clock)
  PROVE  CallsInv'
<1>1. call' = [q \in Requesters |-> call'[q]]
  BY DEF CallsInv
<1>2. \A q \in Requesters : call'[q] = IF q = c THEN k ELSE call[q]
  BY DEF CallsInv
<1>3. \A q \in Requesters : CallInv(call'[q], lockouts, clock)
  BY <1>2 DEF CallsInv
<1> QED BY <1>1, <1>3 DEF CallsInv

LEMMA SameKeys ==
  ASSUME KeysInv, UNCHANGED <<published, withdrawn, keys, keysAt>>, clock \in Nat, clock' \in Nat, clock <= clock'
  PROVE  KeysInv'
BY DEF KeysInv

LEMMA SameVerdict ==
  ASSUME VerdictInv(verdict, withdrawn, keysAt, clock), UNCHANGED <<verdict, withdrawn, keysAt, clock>>
  PROVE  VerdictInv(verdict, withdrawn, keysAt, clock)'
BY DEF VerdictInv

\* Requests come and go with the keys and the verdict as they are.
LEMMA KeysApart ==
  ASSUME DoorInv, UNCHANGED <<published, withdrawn, keys, keysAt, verdict, clock>>, ViewsInv', CallsInv'
  PROVE  DoorInv'
<1>1. KeysInv' /\ VerdictInv(verdict, withdrawn, keysAt, clock)'
  BY SameKeys, SameVerdict DEF DoorInv
<1> QED BY <1>1 DEF DoorInv

LEMMA ArriveKeeps ==
  ASSUME DoorInv, NEW c \in Requesters, NEW p \in Procs, NEW a \in Addresses, NEW cred, Arrive(c, p, a, cred)
  PROVE  DoorInv'
<1>1. /\ UNCHANGED <<lockouts, view, viewedAt, published, withdrawn, keys, keysAt, verdict, clock>>
      /\ \/ call' = [call EXCEPT ![c] = Waiting]
         \/ call' = [call EXCEPT ![c] = [at |-> "store", proc |-> p, addr |-> a, cred |-> cred]]
  BY DEF Arrive, viewVars, keyVars
<1>2. PICK k : /\ call' = [call EXCEPT ![c] = k]
               /\ k = Waiting \/ k = [at |-> "store", proc |-> p, addr |-> a, cred |-> cred]
  BY <1>1
<1>3. CallInv(k, lockouts, clock)
  <2>1. CASE k = Waiting
    BY <2>1, WaitsForNothing
  <2>2. CASE k = [at |-> "store", proc |-> p, addr |-> a, cred |-> cred]
    <3>1. k.at = "store" /\ k.proc = p /\ k.addr = a
      BY <2>2
    <3> QED BY <3>1 DEF CallInv
  <2> QED BY <1>2, <2>1, <2>2
<1>4. CallsInv'
  BY <1>1, <1>2, <1>3, OneCall DEF DoorInv
<1>5. ViewsInv'
  BY <1>1 DEF DoorInv, ViewsInv
<1> QED BY <1>1, <1>4, <1>5, KeysApart

\* The address is turned away, or its credential is looked at.
LEMMA GoesToTheChain ==
  ASSUME DoorInv, NEW c \in Requesters, call[c].at # "idle", NEW rows, Proceeds(c, rows)
  PROVE  \E k : call' = [call EXCEPT ![c] = k] /\ \A table, now : CallInv(k, table, now)
<1>1. call[c].proc \in Procs /\ call[c].addr \in Addresses
  BY DEF DoorInv, CallsInv, CallInv
<1> DEFINE on == [at |-> "authenticate", proc |-> call[c].proc, addr |-> call[c].addr, cred |-> call[c].cred]
<1>2. call' = [call EXCEPT ![c] = IF LockedIn(rows, call[c].addr) THEN Waiting ELSE on]
  BY DEF Proceeds, DoorInv, CallsInv
<1>3. \A table, now : CallInv(on, table, now)
  BY <1>1 DEF CallInv
<1> HIDE DEF on
<1> QED BY <1>2, <1>3, WaitsForNothing

\* What is over goes, and every view and every reading covers the table as before.
LEMMA TableIsPruned ==
  ASSUME DoorInv, NEW gone, NEW table, table = Forgotten(lockouts, gone, None)
  PROVE  /\ table \in Times
         /\ \A p \in Procs : Covers(view[p], table, viewedAt[p], clock)
         /\ \A k : CallInv(k, lockouts, clock) => CallInv(k, table, clock)
<1>1. lockouts \in Times /\ clock \in Nat /\ clock \in Int
  BY DEF DoorInv, ViewsInv
<1>2. \A p \in Procs : viewedAt[p] \in Int /\ Covers(view[p], lockouts, viewedAt[p], clock)
  BY DEF DoorInv, ViewsInv
<1>3. \A rows : \A since \in Int : Covers(rows, lockouts, since, clock) =>
                   table \in Times /\ Covers(rows, table, since, clock)
  BY <1>1, OverGoes
<1>4. table \in Times
  BY <1>1, <1>3, TableCoversItself
<1>5. \A k : CallInv(k, lockouts, clock) => CallInv(k, table, clock)
  BY <1>1, <1>3 DEF CallInv
<1> QED BY <1>2, <1>3, <1>4, <1>5

LEMMA ConsultKeeps ==
  ASSUME DoorInv, NEW c \in Requesters, Consult(c)
  PROVE  DoorInv'
<1> DEFINE rows == Forgotten(lockouts, Expired(lockouts), None)
<1>1. call[c].at = "store" /\ UNCHANGED <<view, viewedAt, published, withdrawn, keys, keysAt, verdict, clock>>
  BY DEF Consult, viewVars, keyVars
<1>2. call[c].proc \in Procs /\ call[c].addr \in Addresses
  BY <1>1 DEF DoorInv, CallsInv, CallInv
<1>3. CASE Proceeds(c, view[call[c].proc]) /\ lockouts' = lockouts
  <2>1. PICK k : call' = [call EXCEPT ![c] = k] /\ \A table, now : CallInv(k, table, now)
    BY <1>1, <1>3, GoesToTheChain
  <2>2. CallsInv'
    BY <1>1, <1>3, <2>1, OneCall DEF DoorInv
  <2>3. ViewsInv'
    BY <1>1, <1>3 DEF DoorInv, ViewsInv
  <2> QED BY <1>1, <2>2, <2>3, KeysApart
<1>4. CASE /\ lockouts' = rows
           /\ call' = [call EXCEPT ![c] = [at |-> "selected", proc |-> call[c].proc, addr |-> call[c].addr,
                                           cred |-> call[c].cred, rows |-> lockouts']]
  <2>1. PICK table : table = rows
    OBVIOUS
  <2>2. lockouts' = table
    BY <1>4, <2>1
  <2>3. PICK k : /\ call' = [call EXCEPT ![c] = k]
                 /\ k = [at |-> "selected", proc |-> call[c].proc, addr |-> call[c].addr,
                         cred |-> call[c].cred, rows |-> table]
    BY <1>4, <2>2
  <2>4. /\ table \in Times
        /\ \A p \in Procs : Covers(view[p], table, viewedAt[p], clock)
        /\ \A m : CallInv(m, lockouts, clock) => CallInv(m, table, clock)
    BY <2>1, TableIsPruned
  <2>5. Covers(table, table, clock, clock)
    BY <2>4, TableCoversItself
  <2>6. CallInv(k, table, clock)
    <3>1. k.at = "selected" /\ k.proc = call[c].proc /\ k.addr = call[c].addr /\ k.rows = table
      BY <2>3
    <3> QED BY <1>2, <2>4, <2>5, <3>1 DEF CallInv
  <2>7. call' = [q \in Requesters |-> call'[q]] /\ \A q \in Requesters : call'[q] = IF q = c THEN k ELSE call[q]
    BY <2>3 DEF DoorInv, CallsInv
  <2>8. \A q \in Requesters : CallInv(call'[q], table, clock)
    BY <2>4, <2>6, <2>7 DEF DoorInv, CallsInv
  <2>9. CallsInv'
    BY <1>1, <2>2, <2>7, <2>8 DEF CallsInv
  <2>10. ViewsInv'
    BY <1>1, <2>2, <2>4 DEF DoorInv, ViewsInv
  <2> QED BY <1>1, <2>9, <2>10, KeysApart
<1> QED BY <1>3, <1>4 DEF Consult

LEMMA RefreshedKeeps ==
  ASSUME DoorInv, NEW c \in Requesters, Refreshed(c)
  PROVE  DoorInv'
<1> DEFINE p == call[c].proc
           rows == call[c].rows
<1>1. /\ call[c].at = "selected" /\ UNCHANGED <<lockouts, published, withdrawn, keys, keysAt, verdict, clock>>
      /\ view' = [view EXCEPT ![p] = rows] /\ viewedAt' = [viewedAt EXCEPT ![p] = clock]
      /\ Proceeds(c, rows)
  BY DEF Refreshed, keyVars
<1>2. p \in Procs /\ rows \in Times /\ Covers(rows, lockouts, clock, clock)
  BY <1>1 DEF DoorInv, CallsInv, CallInv
<1>3. CallsInv'
  <2>1. PICK k : call' = [call EXCEPT ![c] = k] /\ \A table, now : CallInv(k, table, now)
    BY <1>1, GoesToTheChain
  <2> QED BY <1>1, <2>1, OneCall DEF DoorInv
<1> HIDE DEF p, rows
<1>4. ViewsInv'
  <2>1. clock \in Int /\ view \in [Procs -> Times] /\ viewedAt \in [Procs -> Int]
    BY DEF DoorInv, ViewsInv
  <2>2. view' \in [Procs -> Times] /\ viewedAt' \in [Procs -> Int]
    BY <1>1, <1>2, <2>1
  <2>3. \A q \in Procs : /\ view'[q] = IF q = p THEN rows ELSE view[q]
                         /\ viewedAt'[q] = IF q = p THEN clock ELSE viewedAt[q]
    BY <1>1, <2>1
  <2>4. \A q \in Procs : viewedAt'[q] <= clock /\ Covers(view'[q], lockouts, viewedAt'[q], clock)
    BY <1>2, <2>1, <2>3 DEF DoorInv, ViewsInv
  <2> QED BY <1>1, <2>2, <2>4 DEF DoorInv, ViewsInv
<1> QED BY <1>1, <1>3, <1>4, KeysApart

LEMMA PersistTripKeeps ==
  ASSUME DoorInv, NEW c \in Requesters, PersistTrip(c)
  PROVE  DoorInv'
<1>1. call[c].at = "trip" /\ UNCHANGED <<view, viewedAt, published, withdrawn, keys, keysAt, verdict, clock>>
  BY DEF PersistTrip, viewVars, keyVars
<1>2. /\ call[c].proc \in Procs /\ call[c].addr \in Addresses /\ call[c].until \in Int
      /\ call[c].until = clock + Cooldown
  BY <1>1 DEF DoorInv, CallsInv, CallInv
<1>3. CASE call' = [call EXCEPT ![c] = Waiting] /\ lockouts' = lockouts
  <2>1. CallsInv'
    BY <1>1, <1>3, WaitsForNothing, OneCall DEF DoorInv
  <2>2. ViewsInv'
    BY <1>1, <1>3 DEF DoorInv, ViewsInv
  <2> QED BY <1>1, <2>1, <2>2, KeysApart
<1>4. CASE /\ lockouts' = [lockouts EXCEPT ![call[c].addr] = IF call[c].until > @ THEN call[c].until ELSE @]
           /\ call' = [call EXCEPT ![c] = [at |-> "remember", proc |-> call[c].proc, addr |-> call[c].addr,
                                           until |-> call[c].until]]
  <2>1. PICK table : table = lockouts'
    OBVIOUS
  <2>2. lockouts \in Times /\ clock \in Nat /\ clock \in Int
    BY DEF DoorInv, ViewsInv
  <2>3. \A rows : \A since \in Int : since <= clock /\ Covers(rows, lockouts, since, clock) =>
                     table \in Times /\ Covers(rows, table, since, clock)
    <3> TAKE rows
    <3> TAKE since \in Int
    <3>1. PICK a : a = call[c].addr
      OBVIOUS
    <3>2. PICK until : until = call[c].until
      OBVIOUS
    <3>3. table = Raised(lockouts, a, until)
      BY <1>2, <1>4, <2>1, <2>2, <3>1, <3>2 DEF Times, Raised
    <3>4. until = clock + Cooldown /\ a \in Addresses
      BY <1>2, <3>1, <3>2
    <3> QED BY <2>2, <3>3, <3>4, SetNow
  <2>4. table \in Times
    BY <2>2, <2>3, TableCoversItself
  <2>5. \A k : CallInv(k, lockouts, clock) => CallInv(k, table, clock)
    BY <2>2, <2>3 DEF CallInv
  <2>6. PICK k : /\ call' = [call EXCEPT ![c] = k]
                 /\ k.at = "remember" /\ k.proc = call[c].proc /\ k.addr = call[c].addr /\ k.until = call[c].until
    <3>1. PICK k : k = [at |-> "remember", proc |-> call[c].proc, addr |-> call[c].addr, until |-> call[c].until]
      OBVIOUS
    <3>2. k.at = "remember" /\ k.proc = call[c].proc /\ k.addr = call[c].addr /\ k.until = call[c].until
      BY <3>1
    <3> QED BY <1>4, <3>1, <3>2
  <2>7. call' = [q \in Requesters |-> call'[q]] /\ \A q \in Requesters : call'[q] = IF q = c THEN k ELSE call[q]
    BY <2>6 DEF DoorInv, CallsInv
  <2>8. CallInv(k, table, clock)
    BY <1>2, <2>6 DEF CallInv
  <2>9. \A q \in Requesters : CallInv(call'[q], table, clock)
    BY <2>5, <2>7, <2>8 DEF DoorInv, CallsInv
  <2>10. CallsInv'
    BY <1>1, <2>1, <2>7, <2>9 DEF CallsInv
  <2>11. \A p \in Procs : Covers(view[p], table, viewedAt[p], clock)
    BY <2>3 DEF DoorInv, ViewsInv
  <2>12. ViewsInv'
    BY <1>1, <2>1, <2>4, <2>11 DEF DoorInv, ViewsInv
  <2> QED BY <1>1, <2>10, <2>12, KeysApart
<1>5. call = [q \in Requesters |-> call[q]]
  BY DEF DoorInv, CallsInv
<1> QED BY <1>3, <1>4, <1>5 DEF PersistTrip

LEMMA RememberKeeps ==
  ASSUME DoorInv, NEW c \in Requesters, RememberTrip(c)
  PROVE  DoorInv'
<1> DEFINE p == call[c].proc
           a == call[c].addr
           until == call[c].until
<1>1. /\ call[c].at = "remember" /\ call' = [call EXCEPT ![c] = Waiting]
      /\ UNCHANGED <<lockouts, viewedAt, published, withdrawn, keys, keysAt, verdict, clock>>
      /\ view' = [view EXCEPT ![p][a] = IF until > @ THEN until ELSE @]
  BY DEF RememberTrip, keyVars
<1>2. p \in Procs /\ a \in Addresses /\ until \in Int
  BY <1>1 DEF DoorInv, CallsInv, CallInv
<1> HIDE DEF p, a, until
<1>3. CallsInv'
  BY <1>1, WaitsForNothing, OneCall DEF DoorInv
<1>4. ViewsInv'
  <2>1. view \in [Procs -> Times] /\ lockouts \in Times /\ view[p] \in Times
    BY <1>2 DEF DoorInv, ViewsInv
  <2>2. PICK rows : rows = Raised(view[p], a, until)
    OBVIOUS
  <2>3. view' = [view EXCEPT ![p] = rows]
    BY <1>1, <1>2, <2>1, <2>2 DEF Times, Raised
  <2>4. Covers(view[p], lockouts, viewedAt[p], clock)
    BY <1>2 DEF DoorInv, ViewsInv
  <2>5. rows \in Times /\ Covers(rows, lockouts, viewedAt[p], clock)
    <3>1. PICK since : since = viewedAt[p]
      OBVIOUS
    <3>2. PICK old : old = view[p]
      OBVIOUS
    <3>3. rows \in Times /\ Covers(rows, lockouts, since, clock)
      BY <1>2, <2>1, <2>2, <2>4, <3>1, <3>2, RowsGrow
    <3> QED BY <3>1, <3>3
  <2>6. view' \in [Procs -> Times] /\ \A q \in Procs : view'[q] = IF q = p THEN rows ELSE view[q]
    BY <2>1, <2>3, <2>5
  <2>7. \A q \in Procs : Covers(view'[q], lockouts, viewedAt[q], clock)
    BY <2>5, <2>6 DEF DoorInv, ViewsInv
  <2> QED BY <1>1, <2>6, <2>7 DEF DoorInv, ViewsInv
<1> QED BY <1>1, <1>3, <1>4, KeysApart

\* What a replica has at hand to verify a JWT is published, or was lately.
LEMMA KeysAtHand ==
  ASSUME DoorInv, NEW p \in Procs, NEW cred, NEW fetched \in Fetches(p, cred), NEW key \in KeysAfter(p, fetched)
  PROVE  key \in SigningKeys /\ (withdrawn[key] = None \/ clock - withdrawn[key] <= JwksTTL)
<1>0. fetched \in {"none", "ok", "failed"}
  BY DEF Fetches
<1>1. /\ published \subseteq SigningKeys /\ withdrawn \in [SigningKeys -> Int] /\ keys[p] \subseteq SigningKeys
      /\ keysAt[p] \in Int /\ clock \in Nat
      /\ \A k \in published : withdrawn[k] = None
      /\ \A k \in keys[p] : withdrawn[k] = None \/ withdrawn[k] >= keysAt[p]
  BY DEF DoorInv, KeysInv
<1>2. CASE fetched = "ok"
  BY <1>1, <1>2 DEF KeysAfter
<1>3. CASE fetched = "failed"
  BY <1>3 DEF KeysAfter
<1>4. CASE fetched = "none"
  <2>1. clock - keysAt[p] <= JwksTTL /\ key \in keys[p]
    BY <1>1, <1>4, AccessAssumption DEF KeysAfter
  <2> QED BY <1>1, <2>1, AccessAssumption
<1> QED BY <1>0, <1>2, <1>3, <1>4

\* What the chain answers to each kind of credential.
LEMMA ChainAnswers ==
  ASSUME NEW p, NEW cred, NEW fetched
  PROVE  LET got == Authenticated(p, cred, fetched)
             ofToken == cred.kind = "token" /\ cred.id \in DOMAIN Tokens /\ clock < Tokens[cred.id].expiry
             ofJwt == cred.kind = "jwt" /\ cred.key \in KeysAfter(p, fetched) /\ (RequireTenant => cred.tenant)
         IN /\ ofToken => got.role = Tokens[cred.id].role
            /\ ofJwt => got.role = RoleFrom(cred)
            /\ cred.kind = "none" /\ AnonymousRole > 0 => got.role = AnonymousRole
            /\ ofToken \/ ofJwt \/ (cred.kind = "none" /\ AnonymousRole > 0) \/ got.role = 0
<1> DEFINE ofToken == cred.kind = "token" /\ cred.id \in DOMAIN Tokens /\ clock < Tokens[cred.id].expiry
           ofJwt == cred.kind = "jwt" /\ cred.key \in KeysAfter(p, fetched) /\ (RequireTenant => cred.tenant)
           ofNone == cred.kind = "none" /\ AnonymousRole > 0
<1>1. CASE ofToken
  <2>1. Authenticated(p, cred, fetched) = [role |-> Tokens[cred.id].role, who |-> "token"]
    BY <1>1 DEF Authenticated
  <2> QED BY <1>1, <2>1
<1>2. CASE ofJwt
  <2>1. Authenticated(p, cred, fetched) = [role |-> RoleFrom(cred), who |-> "jwt"]
    BY <1>2 DEF Authenticated
  <2> QED BY <1>2, <2>1
<1>3. CASE ofNone
  <2>1. Authenticated(p, cred, fetched) = [role |-> AnonymousRole, who |-> "anonymous"]
    BY <1>3 DEF Authenticated
  <2> QED BY <1>3, <2>1
<1>4. CASE ~ofToken /\ ~ofJwt /\ ~ofNone
  <2>1. Authenticated(p, cred, fetched) = NoOne
    BY <1>4 DEF Authenticated
  <2>2. NoOne.role = 0
    BY DEF NoOne
  <2> QED BY <1>4, <2>1, <2>2
<1> QED BY <1>1, <1>2, <1>3, <1>4

LEMMA VerdictIsSound ==
  ASSUME DoorInv, NEW p \in Procs, NEW cred, NEW fetched \in Fetches(p, cred), NEW said,
         said = IF Authenticated(p, cred, fetched).role >= MinRole THEN "admitted" ELSE "denied",
         NEW at, at[p] = IF fetched = "ok" THEN clock ELSE keysAt[p]
  PROVE  VerdictInv([answer |-> said, cred |-> cred, got |-> Authenticated(p, cred, fetched),
                     fetched |-> fetched, proc |-> p, time |-> clock], withdrawn, at, clock)
<1> DEFINE ofToken == cred.kind = "token" /\ cred.id \in DOMAIN Tokens /\ clock < Tokens[cred.id].expiry
           ofJwt == cred.kind = "jwt" /\ cred.key \in KeysAfter(p, fetched) /\ (RequireTenant => cred.tenant)
<1>1. PICK got : got = Authenticated(p, cred, fetched)
  OBVIOUS
<1>2. PICK v : v = [answer |-> said, cred |-> cred, got |-> got, fetched |-> fetched, proc |-> p, time |-> clock]
  OBVIOUS
<1>3. /\ v.answer = said /\ v.cred = cred /\ v.got = got /\ v.fetched = fetched /\ v.proc = p
      /\ v.time = clock
  BY <1>2
<1>4. /\ ofToken => got.role = Tokens[cred.id].role
      /\ ofJwt => got.role = RoleFrom(cred)
      /\ cred.kind = "none" /\ AnonymousRole > 0 => got.role = AnonymousRole
      /\ ofToken \/ ofJwt \/ (cred.kind = "none" /\ AnonymousRole > 0) \/ got.role = 0
  BY <1>1, ChainAnswers
<1>5. clock \in Nat /\ keysAt[p] \in Int
  BY DEF DoorInv, KeysInv
<1>6. said = "admitted" <=> got.role >= MinRole
  BY <1>1
<1>7. said = "admitted" => Grants(v, withdrawn)
  <2> SUFFICES ASSUME said = "admitted" PROVE Grants(v, withdrawn)
    OBVIOUS
  <2>1. got.role # 0
    BY <1>6, AccessAssumption
  <2>2. ofJwt => cred.key \in SigningKeys /\ (withdrawn[cred.key] = None \/ clock - withdrawn[cred.key] <= JwksTTL)
    BY KeysAtHand
  <2> QED BY <1>3, <1>4, <2>1, <2>2 DEF Grants
<1>8. said = "denied" /\ cred.kind = "jwt" /\ RoleFrom(cred) >= MinRole => Excused(v, at)
  <2> SUFFICES ASSUME said = "denied", cred.kind = "jwt", RoleFrom(cred) >= MinRole,
                      ~(RequireTenant /\ ~cred.tenant), fetched # "failed"
               PROVE  at[p] = None \/ clock - at[p] <= MinRefetch
    BY <1>3 DEF Excused
  <2>1. cred.key \notin KeysAfter(p, fetched)
    BY <1>4, <1>6
  <2>2. CASE fetched = "ok"
    BY <2>2, <1>5, AccessAssumption
  <2>3. CASE fetched = "none"
    <3>1. HasKey(p, cred.key) \/ FetchedRecently(p)
      BY <2>3 DEF Fetches
    <3>2. ~HasKey(p, cred.key)
      BY <2>1, <2>3, <1>5, AccessAssumption DEF HasKey, KeysAfter
    <3> QED BY <2>3, <3>1, <3>2 DEF FetchedRecently
  <2> QED BY <2>2, <2>3 DEF Fetches
<1>9. VerdictInv(v, withdrawn, at, clock)
  BY <1>3, <1>5, <1>7, <1>8 DEF VerdictInv
<1> QED BY <1>1, <1>2, <1>9

\* What a request leaves when it has been answered: nothing, or a trip to write.
LEMMA LeavesATrip ==
  ASSUME DoorInv, NEW c \in Requesters, Enter(c)
  PROVE  \E k : call' = [call EXCEPT ![c] = k] /\ CallInv(k, lockouts, clock)
<1> DEFINE trip == [at |-> "trip", proc |-> call[c].proc, addr |-> call[c].addr, until |-> clock + Cooldown]
<1>1. call' = [call EXCEPT ![c] = Waiting] \/ call' = [call EXCEPT ![c] = trip]
  BY DEF Enter, Observe
<1>2. call[c].proc \in Procs /\ call[c].addr \in Addresses /\ clock \in Nat
  BY DEF Enter, DoorInv, CallsInv, CallInv
<1>3. CallInv(trip, lockouts, clock)
  <2>1. /\ trip.at = "trip" /\ trip.proc = call[c].proc /\ trip.addr = call[c].addr
        /\ trip.until = clock + Cooldown /\ clock + Cooldown \in Int
    BY <1>2, AccessAssumption
  <2> HIDE DEF trip
  <2> QED BY <1>2, <2>1 DEF CallInv
<1> HIDE DEF trip
<1> QED BY <1>1, <1>3, WaitsForNothing

LEMMA EnterKeeps ==
  ASSUME DoorInv, NEW c \in Requesters, Enter(c)
  PROVE  DoorInv'
<1> DEFINE p == call[c].proc
           cred == call[c].cred
<1>1. p \in Procs
  BY DEF Enter, DoorInv, CallsInv, CallInv
<1>2. UNCHANGED <<lockouts, view, viewedAt, published, withdrawn, clock>>
  BY DEF Enter, viewVars
<1>3. PICK fetched \in Fetches(p, cred) :
        /\ IF fetched = "ok" THEN keys' = [keys EXCEPT ![p] = published] /\ keysAt' = [keysAt EXCEPT ![p] = clock]
           ELSE keys' = keys /\ keysAt' = keysAt
        /\ verdict' = [answer |-> IF Authenticated(p, cred, fetched).role >= MinRole THEN "admitted" ELSE "denied",
                       cred |-> cred, got |-> Authenticated(p, cred, fetched), fetched |-> fetched,
                       proc |-> p, time |-> clock]
  BY DEF Enter
<1>4. CallsInv'
  BY <1>2, LeavesATrip, OneCall DEF DoorInv
<1>5. ViewsInv'
  BY <1>2 DEF DoorInv, ViewsInv
<1>6. keysAt \in [Procs -> Int] /\ clock \in Nat
  BY DEF DoorInv, KeysInv
<1> HIDE DEF p, cred
<1>7. KeysInv'
  BY <1>1, <1>2, <1>3 DEF DoorInv, KeysInv
<1>8. VerdictInv(verdict, withdrawn, keysAt, clock)'
  <2>1. PICK at : at = keysAt'
    OBVIOUS
  <2>2. at[p] = IF fetched = "ok" THEN clock ELSE keysAt[p]
    BY <1>1, <1>3, <1>6, <2>1
  <2>3. PICK said : said = IF Authenticated(p, cred, fetched).role >= MinRole THEN "admitted" ELSE "denied"
    OBVIOUS
  <2>4. VerdictInv([answer |-> said, cred |-> cred, got |-> Authenticated(p, cred, fetched),
                    fetched |-> fetched, proc |-> p, time |-> clock], withdrawn, at, clock)
    BY <1>1, <2>2, <2>3, VerdictIsSound
  <2>5. PICK v : v = verdict'
    OBVIOUS
  <2>6. VerdictInv(v, withdrawn, at, clock)
    BY <1>3, <2>3, <2>4, <2>5
  <2> QED BY <1>2, <2>1, <2>5, <2>6
<1> QED BY <1>2, <1>4, <1>5, <1>7, <1>8, <1>6 DEF DoorInv

\* A key that is withdrawn was published until now.
LEMMA RotateKeeps ==
  ASSUME DoorInv, NEW k \in SigningKeys, NEW keep \in BOOLEAN, Rotate(k, keep)
  PROVE  DoorInv'
<1>1. /\ k \notin published /\ withdrawn[k] = None
      /\ published' = IF keep THEN published \cup {k} ELSE {k}
      /\ withdrawn' = [j \in SigningKeys |-> IF j \in published \ published' THEN clock ELSE withdrawn[j]]
      /\ UNCHANGED <<lockouts, view, viewedAt, keys, keysAt, call, verdict, clock>>
  BY DEF Rotate, viewVars
<1>2. ViewsInv' /\ CallsInv'
  BY <1>1 DEF DoorInv, ViewsInv, CallsInv
<1>3. /\ clock \in Nat /\ withdrawn \in [SigningKeys -> Int]
      /\ \A j \in published : withdrawn[j] = None
  BY DEF DoorInv, KeysInv
<1>4. \A j \in SigningKeys : withdrawn'[j] = withdrawn[j] \/ (withdrawn[j] = None /\ withdrawn'[j] = clock)
  BY <1>1, <1>3
<1>5. withdrawn' \in [SigningKeys -> Int] /\ published' \subseteq SigningKeys
  BY <1>1, <1>3 DEF DoorInv, KeysInv
<1>6. \A j \in published' : withdrawn'[j] = None
  BY <1>1, <1>3, <1>5
<1>7. \A p \in Procs : \A j \in keys[p] : withdrawn'[j] = None \/ withdrawn'[j] >= keysAt[p]
  BY <1>3, <1>4 DEF DoorInv, KeysInv
<1>8. KeysInv'
  BY <1>1, <1>5, <1>6, <1>7 DEF DoorInv, KeysInv
<1>9. VerdictInv(verdict, withdrawn, keysAt, clock)'
  <2>1. PICK since : since = withdrawn'
    OBVIOUS
  <2>2. verdict # Unasked /\ Grants(verdict, withdrawn) => Grants(verdict, since)
    BY <1>3, <1>4, <2>1, AccessAssumption DEF Grants, DoorInv, VerdictInv
  <2>3. VerdictInv(verdict, since, keysAt, clock)
    BY <2>2 DEF DoorInv, VerdictInv
  <2> QED BY <1>1, <2>1, <2>3
<1> QED BY <1>1, <1>2, <1>8, <1>9, <1>3 DEF DoorInv

\* A replica reads the table, and has no keys.
LEMMA RestartKeepsDoor ==
  ASSUME DoorInv, NEW p \in Procs, RestartDoor(p)
  PROVE  DoorInv'
<1>1. /\ lockouts' = Forgotten(lockouts, Expired(lockouts), None)
      /\ view' = [view EXCEPT ![p] = lockouts'] /\ viewedAt' = [viewedAt EXCEPT ![p] = clock]
      /\ keys' = [keys EXCEPT ![p] = {}] /\ keysAt' = [keysAt EXCEPT ![p] = None]
      /\ call' = [c \in Requesters |-> IF call[c] # Waiting /\ call[c].proc = p THEN Waiting ELSE call[c]]
      /\ UNCHANGED <<published, withdrawn, verdict, clock>>
  BY DEF RestartDoor
<1>2. PICK table : table = lockouts'
  OBVIOUS
<1>3. /\ table \in Times
      /\ \A q \in Procs : Covers(view[q], table, viewedAt[q], clock)
      /\ \A k : CallInv(k, lockouts, clock) => CallInv(k, table, clock)
  BY <1>1, <1>2, TableIsPruned
<1>4. clock \in Nat /\ clock \in Int
  BY DEF DoorInv
<1>5. ViewsInv'
  <2>1. view \in [Procs -> Times] /\ viewedAt \in [Procs -> Int]
    BY DEF DoorInv, ViewsInv
  <2>2. Covers(table, table, clock, clock)
    BY <1>3, TableCoversItself
  <2>3. view' \in [Procs -> Times] /\ viewedAt' \in [Procs -> Int]
    BY <1>1, <1>2, <1>3, <1>4, <2>1
  <2>4. \A q \in Procs : /\ view'[q] = IF q = p THEN table ELSE view[q]
                         /\ viewedAt'[q] = IF q = p THEN clock ELSE viewedAt[q]
    BY <1>1, <1>2, <2>1
  <2>5. \A q \in Procs : viewedAt'[q] <= clock /\ Covers(view'[q], table, viewedAt'[q], clock)
    BY <1>3, <1>4, <2>2, <2>4 DEF DoorInv, ViewsInv
  <2> QED BY <1>1, <1>2, <1>3, <2>3, <2>5 DEF ViewsInv
<1>6. CallsInv'
  <2>1. \A c \in Requesters : call'[c] = Waiting \/ call'[c] = call[c]
    BY <1>1
  <2>2. \A c \in Requesters : CallInv(call'[c], table, clock)
    BY <1>3, <2>1, WaitsForNothing DEF DoorInv, CallsInv
  <2>3. call' = [c \in Requesters |-> call'[c]]
    BY <1>1
  <2> QED BY <1>1, <1>2, <2>2, <2>3 DEF CallsInv
<1>7. keysAt \in [Procs -> Int] /\ keysAt'[p] = None /\ \A q \in Procs : q # p => keysAt'[q] = keysAt[q]
  BY <1>1 DEF DoorInv, KeysInv
<1>8. KeysInv'
  <2>1. None \in Int /\ None <= clock
    BY <1>4 DEF None
  <2>2. keys' \in [Procs -> SUBSET SigningKeys] /\ keysAt' \in [Procs -> Int]
    BY <1>1, <2>1 DEF DoorInv, KeysInv
  <2>3. keys'[p] = {} /\ \A q \in Procs : q # p => keys'[q] = keys[q]
    BY <1>1 DEF DoorInv, KeysInv
  <2> QED BY <1>1, <1>7, <2>1, <2>2, <2>3 DEF DoorInv, KeysInv
<1>9. VerdictInv(verdict, withdrawn, keysAt, clock)'
  <2>1. PICK at : at = keysAt'
    OBVIOUS
  <2>2. verdict # Unasked /\ Excused(verdict, keysAt) => Excused(verdict, at)
    BY <1>7, <2>1 DEF Excused, DoorInv, VerdictInv
  <2>3. VerdictInv(verdict, withdrawn, at, clock)
    BY <2>2 DEF DoorInv, VerdictInv
  <2> QED BY <1>1, <2>1, <2>3
<1> QED BY <1>1, <1>4, <1>5, <1>6, <1>8, <1>9 DEF DoorInv

\* Time passes when no reading or trip is in hand.
LEMMA DoorTickKeeps ==
  ASSUME DoorInv, DoorTick
  PROVE  DoorInv'
<1>1. /\ clock' = clock + 1
      /\ \A c \in Requesters : call[c].at \notin {"selected", "trip", "remember"}
      /\ UNCHANGED <<lockouts, view, viewedAt, published, withdrawn, keys, keysAt, call, verdict>>
  BY DEF DoorTick, viewVars, keyVars
<1>2. clock \in Nat /\ clock' \in Nat
  BY <1>1 DEF DoorInv
<1>3. PICK now : now = clock + 1
  OBVIOUS
<1>4. lockouts \in Times /\ view \in [Procs -> Times] /\ viewedAt \in [Procs -> Int]
  BY DEF DoorInv, ViewsInv
<1>5. \A p \in Procs : viewedAt[p] <= now /\ Covers(view[p], lockouts, viewedAt[p], now)
  <2> TAKE p \in Procs
  <2>1. viewedAt[p] <= clock /\ Covers(view[p], lockouts, viewedAt[p], clock) /\ viewedAt[p] \in Int
    BY <1>4 DEF DoorInv, ViewsInv
  <2>2. \A a \in Addresses : lockouts[a] \in Int
    BY <1>4 DEF Times
  <2> QED BY <1>2, <1>3, <2>1, <2>2 DEF Covers
<1>6. ViewsInv'
  BY <1>1, <1>3, <1>4, <1>5 DEF ViewsInv
<1>7. \A c \in Requesters : CallInv(call[c], lockouts, now)
  BY <1>1 DEF DoorInv, CallsInv, CallInv
<1>8. CallsInv'
  BY <1>1, <1>3, <1>7 DEF DoorInv, CallsInv
<1>9. KeysInv'
  <2>1. clock <= clock'
    BY <1>1, <1>2
  <2>2. \A p \in Procs : keysAt[p] <= clock'
    BY <1>1, <1>2 DEF DoorInv, KeysInv
  <2> QED BY <1>1, <2>2 DEF DoorInv, KeysInv
<1>10. VerdictInv(verdict, withdrawn, keysAt, clock)'
  <2>1. VerdictInv(verdict, withdrawn, keysAt, now)
    BY <1>2, <1>3 DEF DoorInv, VerdictInv
  <2> QED BY <1>1, <1>3, <2>1
<1> QED BY <1>2, <1>6, <1>8, <1>9, <1>10 DEF DoorInv

LEMMA DoorStepKeeps ==
  ASSUME DoorInv, [DoorNext]_doorVars
  PROVE  DoorInv'
<1>1. ASSUME NEW c \in Requesters, NEW p \in Procs, NEW a \in Addresses, NEW cred \in Credentials,
             Arrive(c, p, a, cred)
      PROVE  DoorInv'
  BY <1>1, ArriveKeeps
<1>2. ASSUME NEW c \in Requesters, Consult(c) PROVE DoorInv'
  BY <1>2, ConsultKeeps
<1>3. ASSUME NEW c \in Requesters, Refreshed(c) PROVE DoorInv'
  BY <1>3, RefreshedKeeps
<1>4. ASSUME NEW c \in Requesters, Enter(c) PROVE DoorInv'
  BY <1>4, EnterKeeps
<1>5. ASSUME NEW c \in Requesters, PersistTrip(c) PROVE DoorInv'
  BY <1>5, PersistTripKeeps
<1>6. ASSUME NEW c \in Requesters, RememberTrip(c) PROVE DoorInv'
  BY <1>6, RememberKeeps
<1>7. ASSUME NEW k \in SigningKeys, NEW keep \in BOOLEAN, Rotate(k, keep) PROVE DoorInv'
  BY <1>7, RotateKeeps
<1>8. ASSUME NEW p \in Procs, RestartDoor(p) PROVE DoorInv'
  BY <1>8, RestartKeepsDoor
<1>9. CASE DoorTick
  BY <1>9, DoorTickKeeps
<1>10. CASE UNCHANGED doorVars
  <2>1. UNCHANGED <<lockouts, view, viewedAt, published, withdrawn, keys, keysAt, call, verdict, clock>>
    BY <1>10 DEF doorVars
  <2>2. ViewsInv' /\ CallsInv'
    BY <2>1 DEF DoorInv, ViewsInv, CallsInv
  <2> QED BY <2>1, <2>2, KeysApart
<1> QED BY <1>1, <1>2, <1>3, <1>4, <1>5, <1>6, <1>7, <1>8, <1>9, <1>10 DEF DoorNext

LEMMA DoorBegins == DoorInit => DoorInv
<1> SUFFICES ASSUME DoorInit PROVE DoorInv
  OBVIOUS
<1>1. clock = 0 /\ verdict = Unasked /\ lockouts = NoTimes
  BY DEF DoorInit
<1>2. lockouts \in Times
  BY <1>1 DEF NoTimes, None, Times
<1>3. ViewsInv
  <2>1. view = [p \in Procs |-> lockouts] /\ viewedAt = [p \in Procs |-> 0]
    BY <1>1 DEF DoorInit
  <2>2. \A p \in Procs : view[p] = lockouts /\ viewedAt[p] <= clock
    BY <1>1, <2>1
  <2>3. Covers(lockouts, lockouts, 0, clock)
    BY <1>2, TableCoversItself
  <2> QED BY <1>2, <2>1, <2>2, <2>3 DEF ViewsInv
<1>4. CallsInv
  BY WaitsForNothing DEF DoorInit, CallsInv
<1>5. KeysInv
  <2>1. /\ published \subseteq SigningKeys /\ withdrawn = [k \in SigningKeys |-> None]
        /\ keys = [p \in Procs |-> {}] /\ keysAt = [p \in Procs |-> None]
    BY DEF DoorInit
  <2>2. None \in Int /\ None <= clock
    BY <1>1 DEF None
  <2> QED BY <2>1, <2>2 DEF KeysInv
<1> QED BY <1>1, <1>3, <1>4, <1>5 DEF DoorInv, VerdictInv

\* The books of the door, for any replicas, addresses and keys: what the table of lockouts
\* has and a replica's copy does not is over or was set since the copy was taken, through
\* trips, refreshes and restarts that race one another; a key a replica holds was published
\* when it fetched it (PGTrips.Trip, refresh, jwksCache.refresh).
THEOREM DoorInvariant == DoorSpec => []DoorInv
<1>1. DoorInv /\ [DoorNext]_doorVars => DoorInv'
  BY DoorStepKeeps
<1> QED BY DoorBegins, <1>1, PTL DEF DoorSpec

LEMMA CredentialsDoCount ==
  ASSUME DoorInv
  PROVE  CredentialsCount
<1>1. CASE verdict = Unasked
  BY <1>1 DEF CredentialsCount
<1>2. CASE verdict # Unasked
  <2>1. VerdictInv(verdict, withdrawn, keysAt, clock)
    BY DEF DoorInv
  <2>2. verdict.answer = "admitted" => Grants(verdict, withdrawn)
    BY <1>2, <2>1 DEF VerdictInv
  <2>3. verdict.answer = "denied" /\ verdict.cred.kind = "jwt" /\ RoleFrom(verdict.cred) >= MinRole
          => Excused(verdict, keysAt)
    BY <1>2, <2>1 DEF VerdictInv
  <2> QED BY <2>2, <2>3 DEF CredentialsCount, Grants, Excused
<1> QED BY <1>1, <1>2

\* Only a copy of the table that has no lockout in force lets an address on.
LEMMA OnlyTheUnlockedPass ==
  ASSUME DoorInv, NEW c \in Requesters, [DoorNext]_doorVars,
         call[c].at # "authenticate", call'[c].at = "authenticate"
  PROVE  Consult(c) \/ Refreshed(c)
<1>0. call = [q \in Requesters |-> call[q]]
  BY DEF DoorInv, CallsInv
<1>1. Waiting.at = "idle"
  BY DEF Waiting
<1>2. ASSUME NEW q \in Requesters, NEW p \in Procs, NEW a \in Addresses, NEW cred \in Credentials,
             Arrive(q, p, a, cred)
      PROVE  FALSE
  <2>1. call' = [call EXCEPT ![q] = Waiting]
          \/ call' = [call EXCEPT ![q] = [at |-> "store", proc |-> p, addr |-> a, cred |-> cred]]
    BY <1>2 DEF Arrive
  <2>2. call'[c] = call[c] \/ call'[c] = Waiting
          \/ call'[c] = [at |-> "store", proc |-> p, addr |-> a, cred |-> cred]
    BY <1>0, <2>1
  <2> QED BY <1>1, <2>2
<1>3. ASSUME NEW q \in Requesters, Enter(q) PROVE FALSE
  <2> DEFINE trip == [at |-> "trip", proc |-> call[q].proc, addr |-> call[q].addr, until |-> clock + Cooldown]
  <2>1. call' = [call EXCEPT ![q] = Waiting] \/ call' = [call EXCEPT ![q] = trip]
    BY <1>3 DEF Enter, Observe
  <2>2. call'[c] = call[c] \/ call'[c] = Waiting \/ call'[c] = trip
    BY <1>0, <2>1
  <2> QED BY <1>1, <2>2
<1>4. ASSUME NEW q \in Requesters, PersistTrip(q) PROVE FALSE
  <2> DEFINE on == [at |-> "remember", proc |-> call[q].proc, addr |-> call[q].addr, until |-> call[q].until]
  <2>1. call' = [call EXCEPT ![q] = Waiting] \/ call' = [call EXCEPT ![q] = on]
    BY <1>0, <1>4 DEF PersistTrip
  <2>2. call'[c] = call[c] \/ call'[c] = Waiting \/ call'[c] = on
    BY <1>0, <2>1
  <2> QED BY <1>1, <2>2
<1>5. ASSUME NEW q \in Requesters, RememberTrip(q) PROVE FALSE
  <2>1. call'[c] = call[c] \/ call'[c] = Waiting
    BY <1>0, <1>5 DEF RememberTrip
  <2> QED BY <1>1, <2>1
<1>6. ASSUME NEW p \in Procs, RestartDoor(p) PROVE FALSE
  <2>1. call'[c] = call[c] \/ call'[c] = Waiting
    BY <1>6 DEF RestartDoor
  <2> QED BY <1>1, <2>1
<1>7. ASSUME call' = call PROVE FALSE
  BY <1>7
<1>8. ASSUME NEW q \in Requesters, q # c, Consult(q) \/ Refreshed(q) PROVE FALSE
  <2>1. \E k : call' = [call EXCEPT ![q] = k]
    BY <1>8 DEF Consult, Refreshed, Proceeds
  <2> QED BY <1>0, <1>8, <2>1
<1>9. ASSUME NEW k \in SigningKeys, NEW keep \in BOOLEAN, Rotate(k, keep) PROVE FALSE
  BY <1>7, <1>9 DEF Rotate
<1>10. CASE DoorTick \/ UNCHANGED doorVars
  BY <1>7, <1>10 DEF DoorTick, doorVars
<1> QED BY <1>2, <1>3, <1>4, <1>5, <1>6, <1>8, <1>9, <1>10 DEF DoorNext

LEMMA LockoutsDoSpread ==
  ASSUME DoorInv, [DoorNext]_doorVars
  PROVE  LockoutsSpread
<1> SUFFICES ASSUME NEW c \in Requesters, call[c].at # "authenticate", call'[c].at = "authenticate"
             PROVE  LET a == call[c].addr IN
                      \/ lockouts'[a] <= clock
                      \/ clock - (lockouts'[a] - Cooldown) <= RefreshEvery
                      \/ clock - viewedAt'[call[c].proc] > RefreshEvery
  BY DEF LockoutsSpread
<1> DEFINE a == call[c].addr
           p == call[c].proc
<1>0. call[c].at # "idle" => p \in Procs /\ a \in Addresses
  BY DEF DoorInv, CallsInv, CallInv
<1>1. /\ call = [q \in Requesters |-> call[q]] /\ clock \in Nat /\ lockouts \in Times
      /\ view \in [Procs -> Times] /\ viewedAt \in [Procs -> Int]
  BY DEF DoorInv, CallsInv, ViewsInv
<1>2. Waiting.at = "idle"
  BY DEF Waiting
<1>3. ASSUME NEW rows \in Times, a \in Addresses, Proceeds(c, rows), NEW since \in Int, lockouts' = lockouts,
             Covers(rows, lockouts, since, clock), clock - since <= RefreshEvery
      PROVE  lockouts'[a] <= clock \/ clock - (lockouts'[a] - Cooldown) <= RefreshEvery
  <2>1. ~LockedIn(rows, a)
    BY <1>1, <1>2, <1>3 DEF Proceeds
  <2>2. rows[a] \in Int /\ lockouts[a] \in Int /\ rows[a] <= clock
    BY <1>1, <1>3, <2>1 DEF LockedIn, Times
  <2> QED BY <1>1, <1>3, <2>2, AccessAssumption DEF Covers
<1>4. CASE Consult(c)
  <2>1. p \in Procs /\ a \in Addresses /\ call[c].at = "store"
    BY <1>0, <1>4 DEF Consult
  <2>2. viewedAt' = viewedAt /\ viewedAt[p] \in Int /\ view[p] \in Times
    BY <1>1, <1>4, <2>1 DEF Consult, viewVars
  <2>3. Covers(view[p], lockouts, viewedAt[p], clock)
    BY <2>1 DEF DoorInv, ViewsInv
  <2>4. CASE clock - viewedAt[p] > RefreshEvery
    BY <2>2, <2>4
  <2>5. CASE clock - viewedAt[p] <= RefreshEvery
    <3>1. Proceeds(c, view[p]) /\ lockouts' = lockouts
      BY <1>1, <1>4, <2>2, <2>5, AccessAssumption DEF Consult
    <3> QED BY <1>3, <2>1, <2>2, <2>3, <2>5, <3>1
  <2> QED BY <1>1, <2>2, <2>4, <2>5, AccessAssumption
<1>5. CASE Refreshed(c)
  <2>1. p \in Procs /\ a \in Addresses /\ call[c].at = "selected" /\ lockouts' = lockouts
    BY <1>0, <1>5 DEF Refreshed
  <2>2. call[c].rows \in Times /\ Covers(call[c].rows, lockouts, clock, clock)
    BY <2>1 DEF DoorInv, CallsInv, CallInv
  <2>3. Proceeds(c, call[c].rows)
    BY <1>5 DEF Refreshed
  <2>4. clock - clock <= RefreshEvery /\ clock \in Int
    BY <1>1, AccessAssumption
  <2> QED BY <1>3, <2>1, <2>2, <2>3, <2>4
<1> QED BY <1>4, <1>5, OnlyTheUnlockedPass

\* DoorIsKept, for any replicas, requests, addresses, credentials and keys, and whatever
\* fails and restarts: whoever is let in holds what grants it, nobody is refused without a
\* reason, and an address locked out anywhere is let try elsewhere no longer than a
\* replica goes by its copy of the table (RequireRole, PGTrips, jwksCache).
THEOREM TheDoorIsKept == DoorSpec => DoorIsKept
<1>1. DoorInv /\ DoorInv' /\ [DoorNext]_doorVars => [CredentialsCount' /\ LockoutsSpread]_doorVars
  <2> SUFFICES ASSUME DoorInv, DoorInv', [DoorNext]_doorVars
               PROVE  CredentialsCount' /\ LockoutsSpread
    OBVIOUS
  <2>1. DoorInv => CredentialsCount
    BY CredentialsDoCount
  <2>2. (DoorInv => CredentialsCount)'
    BY CredentialsDoCount, PTL
  <2> QED BY <2>2, LockoutsDoSpread
<1> QED BY DoorInvariant, <1>1, PTL DEF DoorSpec, DoorIsKept
=============================================================================
