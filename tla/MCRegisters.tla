---------------------------- MODULE MCRegisters ----------------------------
(***************************************************************************)
(* Small instances of the registers kept beside the graph: the audit       *)
(* trail, the triage board, the history of the passes and the verdicts.  A *)
(* behaviour is of one of them, and leaves the others' variables alone.    *)
(***************************************************************************)
EXTENDS AuditLog, TriageBoard, PathHistory, VerdictLog, TLC

CONSTANT Subjects   \* which of "audit", "board", "history" and "verdicts" are run

VARIABLE subject

Finding(p, t, s, o) == [path |-> p, target |-> t, scope |-> s, outcome |-> o, claimed |-> 1]

\* Two verdicts on a path, a miss, a verdict that finds its path by the target,
\* one that finds none, and one that is no verdict.
MCFindings ==
  {Finding("x", "", "path", "confirmed"), Finding("x", "", "path", "refuted"),
   Finding("-", "z", "path", "missed"), Finding("-", "x", "target", "partial"),
   Finding("-", "z", "path", "confirmed"), Finding("x", "", "path", "junk")}

\* Replicas are alike to the audit trail, and so are reports to the verdicts.
RegisterSymmetry == Permutations(AuditReplicas) \cup Permutations(Reporters)

vars == <<subject, auditVars, boardVars, historyVars, verdictVars>>

RegistersInit ==
  /\ subject \in Subjects
  /\ AuditInit /\ BoardInit /\ HistoryInit /\ VerdictInit
  /\ subject # "board" => backend = "file"
  /\ subject # "verdicts" => verdicts = {}

RegistersNext ==
  /\ UNCHANGED subject
  /\ \/ subject = "audit" /\ AuditNext /\ UNCHANGED <<boardVars, historyVars, verdictVars>>
     \/ subject = "board" /\ BoardNext /\ UNCHANGED <<auditVars, historyVars, verdictVars>>
     \/ subject = "history" /\ HistoryNext /\ UNCHANGED <<auditVars, boardVars, verdictVars>>
     \/ subject = "verdicts" /\ VerdictNext /\ UNCHANGED <<auditVars, boardVars, historyVars>>

RegistersSpec == RegistersInit /\ [][RegistersNext]_vars
=============================================================================
