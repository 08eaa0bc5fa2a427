------------------------------ MODULE MinHeap ------------------------------
(***************************************************************************)
(* The binary heap the path searches take their next node from: an array   *)
(* whose sifts mirror container/heap.  What it promises is PriorityQueue:  *)
(* whatever was pushed comes out, the least first.                         *)
(***************************************************************************)
EXTENDS Integers, Sequences, FiniteSets

CONSTANTS
  Distances,   \* what is queued: a distance each
  MaxItems     \* bound on the items held at once

ASSUME HeapAssumption == Distances \subseteq Nat /\ MaxItems \in Nat

VARIABLES
  heap,        \* the array
  popped       \* what the last pop returned, or -1

heapVars == <<heap, popped>>

HeapInit == heap = << >> /\ popped = -1

Swapped(h, i, k) == [h EXCEPT ![i] = h[k], ![k] = h[i]]

Parent(k) == k \div 2

\* A sift is a loop, at a place in an array.
Sifting == [at : Nat, items : Seq(Distances)]

\* A turn of push's loop: the item moves up while it is less than its parent.
Rise[s \in Sifting] ==
  IF s.at = 1 \/ ~(s.items[s.at] < s.items[Parent(s.at)]) THEN s
  ELSE [at |-> Parent(s.at), items |-> Swapped(s.items, Parent(s.at), s.at)]

\* The last item moves up.  As many turns as there are items are enough.
SiftUp(h) ==
  LET turn[i \in 0..Len(h)] == IF i = 0 THEN [at |-> Len(h), items |-> h] ELSE Rise[turn[i - 1]]
  IN turn[Len(h)].items

\* Fault: the left child is taken, whichever is less.
LeftChild(a, k) == 2 * k

\* The lesser child, the left one when they are equal.
LesserChild(a, k) ==
  IF 2 * k + 1 <= Len(a) /\ a[2 * k + 1] < a[2 * k] THEN 2 * k + 1 ELSE 2 * k

\* A turn of pop's loop: the item moves down while a child is less.
Sink[s \in Sifting] ==
  IF 2 * s.at > Len(s.items) \/ ~(s.items[LesserChild(s.items, s.at)] < s.items[s.at]) THEN s
  ELSE [at |-> LesserChild(s.items, s.at), items |-> Swapped(s.items, s.at, LesserChild(s.items, s.at))]

\* The root moves down.
SiftDown(h) ==
  LET turn[i \in 0..Len(h)] == IF i = 0 THEN [at |-> 1, items |-> h] ELSE Sink[turn[i - 1]]
  IN turn[Len(h)].items

Push(key) ==
  /\ Len(heap) < MaxItems
  /\ heap' = SiftUp(Append(heap, key))
  /\ popped' = -1

\* The last item takes the root's place, and is sifted down over the rest.
PopLeast ==
  /\ heap # << >>
  /\ heap' = SiftDown(SubSeq([heap EXCEPT ![1] = heap[Len(heap)]], 1, Len(heap) - 1))
  /\ popped' = heap[1]

HeapNext == (\E key \in Distances : Push(key)) \/ PopLeast

HeapSpec == HeapInit /\ [][HeapNext]_heapVars

---------------------------------------------------------------------------
\* What is in the heap, order aside: how often a distance is.
Content == [key \in Distances |-> Cardinality({i \in DOMAIN heap : heap[i] = key})]

\* The heap is a queue of which the least leaves first, and from which
\* nothing is lost or repeated (push, pop).
Queue == INSTANCE PriorityQueue WITH Keys <- Distances, items <- Content
KeepsTheQueue == Queue!QueueSpec
=============================================================================
