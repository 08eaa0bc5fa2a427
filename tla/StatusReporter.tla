--------------------------- MODULE StatusReporter ---------------------------
(***************************************************************************)
(* The sink of AnalyzerFleet that gates merges: it posts a commit's status *)
(* red while paths count against it and green once none does.              *)
(*                                                                         *)
(* What a replica has posted it keeps in memory, so that an unchanged      *)
(* verdict is not posted again; the forge keeps the last status it took.   *)
(* Calls to the forge go one commit at a time, between the other replicas' *)
(* steps.                                                                  *)
(***************************************************************************)
EXTENDS AnalyzerFleet, Functions

CONSTANTS
  Commits,
  CommitsOn          \* path -> the commits it counts against

ASSUME ReporterAssumption == CommitsOn \in [Paths -> SUBSET Commits]

VARIABLES
  failing,  \* replica -> the commits it posted red, each with its description
  tried,    \* replica -> the commits this call posted, or tried to
  statuses, \* the forge: commit -> what its status says
  lost      \* the forge took a status, and its answer was lost

reporterVars == <<failing, tried, statuses, lost>>
checkVars == <<fleetVars, reporterVars>>

\* A status: the description of a failure is the number of paths it counts.
None == [state |-> "none", paths |-> 0]
Green == [state |-> "success", paths |-> 0]
Red(n) == [state |-> "failure", paths |-> n]

CheckInit ==
  /\ Init
  /\ failing = [r \in Replicas |-> [c \in {} |-> 0]]
  /\ tried = [r \in Replicas |-> {}]
  /\ statuses = [c \in Commits |-> None]
  /\ lost = FALSE

\* How many paths count against a commit.
CountedOn(c, paths) == Cardinality({p \in paths : c \in CommitsOn[p]})

\* The commits this call has yet to report red: what it would say is not what
\* it said last.
RedDue(r, c) ==
  /\ CountedOn(c, state[r].latest) > 0
  /\ c \notin tried[r]
  /\ c \in DOMAIN failing[r] => failing[r][c] # CountedOn(c, state[r].latest)

\* Those it has yet to clear: red, by its own record, with no path left.
GreenDue(r, c) ==
  /\ c \in DOMAIN failing[r] \ tried[r]
  /\ CountedOn(c, state[r].latest) = 0

\* Fault: a call that failed is remembered like one that succeeded.
RememberedAnyhow(r, recorded) == failing' = [failing EXCEPT ![r] = recorded]

\* What a replica remembers of a call that failed: nothing.
NotRemembered(r, recorded) == UNCHANGED failing

\* A call to the forge: it is taken, or refused, or taken with its answer
\* lost.
Post(r, c, status, recorded) ==
  /\ tried' = [tried EXCEPT ![r] = @ \cup {c}]
  /\ \/ /\ statuses' = [statuses EXCEPT ![c] = status]
        /\ failing' = [failing EXCEPT ![r] = recorded]
        /\ Succeeds
        /\ UNCHANGED lost
     \/ /\ UNCHANGED <<statuses, lost>>
        /\ NotRemembered(r, recorded)
        /\ Fails
     \/ /\ lost' = TRUE
        /\ statuses' = [statuses EXCEPT ![c] = status]
        /\ NotRemembered(r, recorded)
        /\ Fails
  /\ UNCHANGED <<storeVars, holder, state, pass, alertVars, failovers>>

\* A commit that paths count against fails its check.
PostFailure(r, c) ==
  /\ pass[r].step = "sink"
  /\ RedDue(r, c)
  /\ LET n == CountedOn(c, state[r].latest)
     IN Post(r, c, Red(n), [x \in DOMAIN failing[r] \cup {c} |->
                              IF x = c THEN n ELSE failing[r][x]])

\* A commit that no path counts against any more is cleared, after the
\* failures have been posted.
PostSuccess(r, c) ==
  /\ pass[r].step = "sink"
  /\ \A d \in Commits : ~RedDue(r, d)
  /\ GreenDue(r, c)
  /\ Post(r, c, Green, Restrict(failing[r], DOMAIN failing[r] \ {c}))

\* The call returns when there is nothing left to post.
Return(r) ==
  /\ \A c \in Commits : ~RedDue(r, c) /\ ~GreenDue(r, c)
  /\ EndPass(r)
  /\ tried' = [tried EXCEPT ![r] = {}]
  /\ UNCHANGED <<failing, statuses, lost>>

\* A crash takes what the replica remembered posting.
CrashCheck(r) ==
  /\ Crash(r)
  /\ failing' = [failing EXCEPT ![r] = [c \in {} |-> 0]]
  /\ tried' = [tried EXCEPT ![r] = {}]
  /\ UNCHANGED <<statuses, lost>>

Fleet ==
  \/ \E r \in Replicas, g \in SUBSET Paths : Write(r, g)
  \/ DropSession
  \/ \E r \in Replicas : Analysis(r)
  \/ Notified

OnCriticalPaths(r) == Return(r) \/ \E c \in Commits : PostFailure(r, c) \/ PostSuccess(r, c)

CheckNext ==
  \/ Fleet /\ UNCHANGED reporterVars
  \/ \E r \in Replicas : CrashCheck(r) \/ OnCriticalPaths(r)

CheckSpec == CheckInit /\ [][CheckNext]_checkVars

CheckLiveSpec ==
  /\ CheckSpec
  /\ \A r \in Replicas :
       WF_checkVars((Analysis(r) /\ UNCHANGED reporterVars) \/ OnCriticalPaths(r))
  /\ WF_checkVars(Notified /\ UNCHANGED reporterVars)

---------------------------------------------------------------------------
(***************************************************************************)
(* Properties.                                                             *)
(***************************************************************************)

\* One leader speaks, and knows what the forge took.
Undisturbed == failovers = 0 /\ ~lost

\* "An unchanged verdict is not posted again on every pass": a status the
\* forge takes is not the one it shows already.
NothingPostedTwice ==
  \A r \in Replicas, c \in Commits :
    Undisturbed' /\ c \in tried'[r] \ tried[r]
      => statuses'[c] # statuses[c] \/ faults' > faults

\* What was said is not said again: a change to the webhook, a verdict to the forge.
SaidOnce == [][AlertedOnce' /\ NothingPostedTwice]_checkVars

\* Each commit's check comes to say what the graph says of it, red with the
\* paths that count against it and not red without, through reads and posts
\* that fail.
VerdictSettles ==
  <>[](Undisturbed =>
         \A c \in Commits :
           IF CountedOn(c, graph) > 0 THEN statuses[c] = Red(CountedOn(c, graph))
                                    ELSE statuses[c] \in {None, Green})

\* "A status that went red on a route must be told when the last route is
\* gone, or it stays red": no commit stays red with no path against it.
RedIsCleared ==
  <>[](\A c \in Commits : CountedOn(c, graph) = 0 => statuses[c] \in {None, Green})

\* "When a change sits on a critical path it fails that PR's commit status":
\* a commit that paths keep counting against comes to stay red.
RedIsPosted ==
  <>[](\A c \in Commits : CountedOn(c, graph) > 0 => statuses[c] \notin {None, Green})
=============================================================================
