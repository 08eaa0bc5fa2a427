--------------------------- MODULE MCStatusReporter ---------------------------
(***************************************************************************)
(* StatusReporter on two replicas, with one commit that every path counts  *)
(* against.                                                                *)
(***************************************************************************)
EXTENDS StatusReporter

\* A path's commits.
OneCommit == [p \in Paths |-> Commits]
=============================================================================
