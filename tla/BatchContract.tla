--------------------------- MODULE BatchContract ---------------------------
(***************************************************************************)
(* What the event bus promises whoever writes the graph: an event reaches  *)
(* the graph only after it was published, perhaps many times and in any    *)
(* order; the omissions of a complete snapshot are applied at most once,   *)
(* and only after every message of its batch has reached the graph.        *)
(***************************************************************************)
EXTENDS Integers

CONSTANTS Batches, Size, Scopes

VARIABLES
  published,  \* the messages the bus took
  applied,    \* the messages whose event has reached the graph
  sweeps      \* <<batch, scope>> -> times its omissions were applied

contractVars == <<published, applied, sweeps>>

MessagesOf(b) == {b} \X (1..Size[b])
Messages == UNION {MessagesOf(b) : b \in Batches}

Init ==
  /\ published = {}
  /\ applied = {}
  /\ sweeps = [x \in Batches \X Scopes |-> 0]

\* The bus takes a message.
Publish(m) ==
  /\ m \in Messages
  /\ published' = published \cup {m}
  /\ UNCHANGED <<applied, sweeps>>

\* A message's event is written to the graph, for the first time or again.
Apply(m) ==
  /\ m \in published
  /\ applied' = applied \cup {m}
  /\ UNCHANGED <<published, sweeps>>

\* What batch b omits of scope s is retracted.
Retract(b, s) ==
  /\ MessagesOf(b) \subseteq applied
  /\ sweeps[<<b, s>>] = 0
  /\ sweeps' = [sweeps EXCEPT ![<<b, s>>] = 1]
  /\ UNCHANGED <<published, applied>>

Next ==
  \/ \E m \in Messages : Publish(m) \/ Apply(m)
  \/ \E b \in Batches, s \in Scopes : Retract(b, s)

Spec == Init /\ [][Next]_contractVars
=============================================================================
