--------------------------- MODULE PriorityQueue ---------------------------
(***************************************************************************)
(* What a search may rely on: how often each key is queued, and that the   *)
(* least of them is taken.                                                 *)
(***************************************************************************)
EXTENDS Integers

CONSTANT Keys
VARIABLES items, popped

QueueInit == items = [key \in Keys |-> 0] /\ popped = -1

Put(key) ==
  /\ items' = [items EXCEPT ![key] = @ + 1]
  /\ popped' = -1

TakeLeast(key) ==
  /\ items[key] > 0
  /\ \A k \in Keys : items[k] > 0 => key <= k
  /\ items' = [items EXCEPT ![key] = @ - 1]
  /\ popped' = key

QueueNext == \E key \in Keys : Put(key) \/ TakeLeast(key)

QueueSpec == QueueInit /\ [][QueueNext]_<<items, popped>>
=============================================================================
