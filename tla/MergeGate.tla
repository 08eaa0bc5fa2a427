----------------------------- MODULE MergeGate -----------------------------
(***************************************************************************)
(* The merge gate of a pipeline: one change, one report, one exit code.    *)
(* It asks a running engine to compare the estate with and without the     *)
(* report, or posts the report and waits for the engine's record of the    *)
(* commit, or reads an estate and computes the verdict itself.             *)
(*                                                                         *)
(* The report reaches the graph as several messages; the change is on a    *)
(* critical route once the messages in "route" are in, and the rest of the *)
(* route is in the estate.  Replicas analyse on their own, and a pass says *)
(* when it ended, not when it read the graph.                              *)
(***************************************************************************)
EXTENDS Integers, FiniteSets

CONSTANTS
  Replicas,
  Messages,       \* the messages of the report
  StampedIn,      \* those that hold an asset stamped with the commit
  Settings,       \* the ways the gate is called: see Modes
  RunnerSkew,     \* the runner's clock less the engine's
  MaxGateTime,    \* bound: ticks
  MaxLapses       \* bound: lost marks, failing calls, partial reads

\* How a gate may be called: on an engine that compares or is too old to, that tracks
\* batches or not, with a report or only asking, or on its own.
Modes ==
  [attribution : {"diff", "commit"}, report : BOOLEAN, compares : BOOLEAN, tracked : BOOLEAN,
   persist : BOOLEAN, local : BOOLEAN, unknown : BOOLEAN, allowUnknown : BOOLEAN]

ASSUME GateAssumption == Settings \subseteq Modes /\ RunnerSkew \in Int

VARIABLES
  setting,    \* how the gate was called
  route,      \* the messages that open the critical route, none when there is none
  leg,        \* the estate holds the rest of the route
  inFlight, applied, marked,    \* messages; marked -> when it was recorded
  reading,    \* replica -> the pass under way: what it read
  latest,     \* replica -> its last pass: what it read, and when it ended
  gate,       \* where the gate is
  answer,     \* the verdict it holds
  gateClock, lapses

gateVars == <<setting, route, leg, inFlight, applied, marked, reading, latest, gate, answer, gateClock, lapses>>
engineVars == <<inFlight, applied, marked, reading, latest>>
fixedVars == <<setting, route>>

Never == -1
NoPass == [saw |-> {}, leg |-> FALSE, ended |-> Never]
NoAnswer == [analysed |-> FALSE, blocking |-> 0, at |-> Never, incomplete |-> FALSE, by |-> "none", saw |-> {}]

GateInit ==
  /\ setting \in Settings
  /\ route \in SUBSET Messages
  /\ leg \in BOOLEAN
  /\ inFlight = {} /\ applied = {} /\ marked = [m \in Messages |-> Never]
  /\ reading = [r \in Replicas |-> NoPass] /\ latest = [r \in Replicas |-> NoPass]
  /\ gate = [at |-> "start"]
  /\ answer = NoAnswer
  /\ gateClock = 0 /\ lapses = 0

Lapse == lapses < MaxLapses /\ lapses' = lapses + 1
NoLapse == UNCHANGED lapses

\* The critical routes through the change in a graph.
Routes(messages, hasLeg) == IF route # {} /\ route \subseteq messages /\ hasLeg THEN 1 ELSE 0
Stamped(messages) == messages \cap StampedIn # {}

---------------------------------------------------------------------------
(***************************************************************************)
(* The engine.                                                             *)
(***************************************************************************)

Apply(m) ==
  /\ m \in inFlight
  /\ applied' = applied \cup {m}
  /\ inFlight' = inFlight \ {m}
  /\ \/ NoLapse /\ marked' = [marked EXCEPT ![m] = gateClock]
     \/ Lapse /\ UNCHANGED marked
  /\ UNCHANGED <<fixedVars, leg, reading, latest, gate, answer, gateClock>>

\* runTenant: the graph is read, then analysed; the pass is dated when it ends.
BeginPass(r) ==
  /\ reading[r] = NoPass
  /\ reading' = [reading EXCEPT ![r] = [saw |-> applied, leg |-> leg, ended |-> 0]]
  /\ UNCHANGED <<fixedVars, leg, inFlight, applied, marked, latest, gate, answer, gateClock, lapses>>

EndPass(r) ==
  /\ reading[r] # NoPass
  /\ latest' = [latest EXCEPT ![r] = [reading[r] EXCEPT !.ended = gateClock]]
  /\ reading' = [reading EXCEPT ![r] = NoPass]
  /\ UNCHANGED <<fixedVars, leg, inFlight, applied, marked, gate, answer, gateClock, lapses>>

\* Another feed opens the rest of the route, or closes it.
EstateMoves ==
  /\ Lapse /\ leg' = ~leg
  /\ UNCHANGED <<fixedVars, engineVars, gate, answer, gateClock>>

GateTick ==
  /\ gateClock < MaxGateTime /\ gateClock' = gateClock + 1
  /\ UNCHANGED <<fixedVars, leg, engineVars, gate, answer, lapses>>

---------------------------------------------------------------------------
(***************************************************************************)
(* reportAndExit.                                                          *)
(***************************************************************************)

ExitCode(v) ==
  IF ~v.analysed \/ (v.incomplete /\ v.blocking = 0)
  THEN IF setting.allowUnknown THEN "clean" ELSE "unknown"
  ELSE IF v.blocking > 0 THEN "blocked" ELSE "clean"

Exits(v) == gate' = [at |-> "exit", code |-> ExitCode(v)] /\ answer' = v
Fails == gate' = [at |-> "exit", code |-> "error"] /\ UNCHANGED answer

---------------------------------------------------------------------------
(***************************************************************************)
(* serverVerdict.                                                          *)
(***************************************************************************)

\* A comparison wants a report; without one the engine's record of the commit is asked for.
Begin ==
  /\ gate.at = "start" /\ ~setting.local
  /\ gate' = CASE setting.report /\ setting.attribution = "diff" -> [at |-> "impact"]
               [] setting.report /\ setting.attribution = "commit" -> [at |-> "post"]
               [] OTHER -> [at |-> "poll", floor |-> Never, analysed |-> FALSE]
  /\ UNCHANGED <<fixedVars, leg, engineVars, answer, gateClock, lapses>>

\* What the change adds: the routes the whole report opens in the graph as it stands; all
\* of those through the commit when the graph already holds it.  A report that stamps
\* nothing with the commit leaves it not analysed.
Compared ==
  [analysed |-> Stamped(Messages), at |-> gateClock, incomplete |-> setting.unknown, by |-> "comparison", saw |-> Messages,
   blocking |-> IF Stamped(applied) THEN Routes(Messages, leg) ELSE Routes(Messages, leg) - Routes(applied, leg)]

\* postImpact: an older engine has no comparison to offer; on another, the whole report
\* is compared with the graph as it stands, where it may already have arrived.
AskImpact ==
  /\ gate.at = "impact"
  /\ \/ ~setting.compares /\ gate' = [at |-> "post"] /\ NoLapse /\ UNCHANGED answer
     \/ setting.compares /\ Lapse /\ Fails
     \/ /\ setting.compares /\ NoLapse
        /\ IF setting.persist THEN gate' = [at |-> "persist"] /\ answer' = Compared ELSE Exits(Compared)
  /\ UNCHANGED <<fixedVars, leg, engineVars, gateClock>>

\* The verdict stands, whether the report could be recorded or not.
Persist ==
  /\ gate.at = "persist"
  /\ \/ inFlight' = Messages /\ NoLapse
     \/ Lapse /\ UNCHANGED inFlight
  /\ Exits(answer)
  /\ UNCHANGED <<fixedVars, leg, applied, marked, reading, latest, gateClock>>

\* postGateReport: the floor is the runner's time before it.
Post ==
  /\ gate.at = "post"
  /\ \/ Lapse /\ Fails /\ UNCHANGED inFlight
     \/ /\ NoLapse
        /\ inFlight' = Messages
        /\ gate' = IF setting.tracked THEN [at |-> "batch", floor |-> gateClock + RunnerSkew]
                   ELSE [at |-> "poll", floor |-> gateClock + RunnerSkew, analysed |-> FALSE]
        /\ UNCHANGED answer
  /\ UNCHANGED <<fixedVars, leg, applied, marked, reading, latest, gateClock>>

Complete == \A m \in Messages : marked[m] # Never
MarkedBy(t) == \A m \in Messages : marked[m] <= t

\* Fault: a report that did not all arrive in time is judged by what did.
BatchOverdueGoesOn(floor) == gate' = [at |-> "poll", floor |-> floor, analysed |-> FALSE] /\ UNCHANGED answer

\* A batch that was not applied in time makes the verdict unknown.
BatchOverdue(floor) == Exits([NoAnswer EXCEPT !.by = "record"])

\* waitForBatch: the floor moves to when the last message was applied.
WaitForBatch ==
  /\ gate.at = "batch"
  /\ \/ /\ Complete /\ NoLapse
        /\ \E t \in {marked[m] : m \in Messages} :
             /\ MarkedBy(t)
             /\ gate' = [at |-> "poll", floor |-> IF t > gate.floor THEN t ELSE gate.floor, analysed |-> FALSE]
        /\ UNCHANGED answer
     \/ ~Complete /\ NoLapse /\ BatchOverdue(gate.floor)
     \/ Lapse /\ Fails
  /\ UNCHANGED <<fixedVars, leg, engineVars, gateClock>>

\* prVerdict reads the graph, then the paths of the last pass, then its date.
AskAnalysed(r) ==
  /\ gate.at = "poll"
  /\ \/ NoLapse /\ gate' = [at |-> "paths", floor |-> gate.floor, from |-> r, analysed |-> Stamped(applied)]
        /\ UNCHANGED answer
     \/ Lapse /\ Fails
  /\ UNCHANGED <<fixedVars, leg, engineVars, gateClock>>

ReadPaths ==
  /\ gate.at = "paths"
  /\ LET p == latest[gate.from] IN
       gate' = [at |-> "dated", floor |-> gate.floor, from |-> gate.from, analysed |-> gate.analysed,
                blocking |-> IF Stamped(p.saw) THEN Routes(p.saw, p.leg) ELSE 0, saw |-> p.saw]
  /\ UNCHANGED <<fixedVars, leg, engineVars, answer, gateClock, lapses>>

\* waitForVerdict: a verdict of a pass newer than the floor is taken, another is asked
\* for again until the time is up.
Judge ==
  /\ gate.at = "dated"
  /\ LET at == latest[gate.from].ended
         v == [analysed |-> gate.analysed, blocking |-> gate.blocking, at |-> at, incomplete |-> FALSE,
               by |-> "record", saw |-> gate.saw]
     IN IF gate.analysed /\ (gate.floor = Never \/ at > gate.floor) THEN Exits(v)
        ELSE \/ gate' = [at |-> "poll", floor |-> gate.floor, analysed |-> FALSE] /\ UNCHANGED answer
             \/ Exits([v EXCEPT !.analysed = FALSE])
  /\ UNCHANGED <<fixedVars, leg, engineVars, gateClock, lapses>>

---------------------------------------------------------------------------
(***************************************************************************)
(* localVerdict.                                                           *)
(***************************************************************************)

\* The estate is read whole, or in part, which may lack the leg and is said with the
\* verdict; reading none of it is an error.
EstateReads ==
  {e \in [hasLeg : BOOLEAN, partial : BOOLEAN] : (e.hasLeg => leg) /\ (~e.partial => e.hasLeg = leg)}

\* The report applied to what was read, and judged by the commit's stamp.
LocalVerdict(e) ==
  [analysed |-> Stamped(Messages), blocking |-> Routes(Messages, e.hasLeg),
   at |-> gateClock, incomplete |-> e.partial \/ setting.unknown, by |-> "local", saw |-> Messages]

\* What still waits for an endpoint once all is applied is an error too.
JudgeLocally ==
  /\ gate.at = "start" /\ setting.local
  /\ \/ Lapse /\ Fails
     \/ \E e \in EstateReads : Exits(LocalVerdict(e)) /\ IF e.partial THEN Lapse ELSE NoLapse
  /\ UNCHANGED <<fixedVars, leg, engineVars, gateClock>>

GateNext ==
  \/ \E m \in Messages : Apply(m)
  \/ \E r \in Replicas : BeginPass(r) \/ EndPass(r) \/ AskAnalysed(r)
  \/ EstateMoves \/ GateTick
  \/ Begin \/ AskImpact \/ Persist \/ Post \/ WaitForBatch \/ ReadPaths \/ Judge \/ JudgeLocally

GateSpec == GateInit /\ [][GateNext]_gateVars

---------------------------------------------------------------------------
(***************************************************************************)
(* Properties.                                                             *)
(***************************************************************************)

Cleared == gate.at = "exit" /\ gate.code = "clean" /\ ~setting.allowUnknown

\* A build is let through only if somebody looked: a comparison of the whole report that
\* left nothing unknown, an estate read whole, or an engine whose graph holds the commit
\* and, when it says what became of a report, holds all of it and has ended a pass
\* since.  Lost marks, failing calls, partial reads and time running out do not pass
\* (serverVerdict, waitForBatch, waitForVerdict, collect2, reportAndExit).
CleanMeansLooked ==
  Cleared =>
    /\ answer.analysed /\ ~answer.incomplete
    /\ answer.by = "record" =>
         /\ Stamped(applied)
         /\ setting.report /\ setting.tracked =>
              Complete /\ applied = Messages /\ \A m \in Messages : answer.at > marked[m]

\* What ingestBatch says of appliedAt: "set once the last one landed, so a verdict
\* analysed after it saw the whole report".
VerdictsSawTheReport ==
  Cleared /\ answer.by = "record" /\ setting.report /\ setting.tracked => answer.saw = Messages
=============================================================================
