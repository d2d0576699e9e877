---------------------------- MODULE OrderedQueue ----------------------------
(***************************************************************************)
(* What the live work queue promises: a line of items in which an item is  *)
(* put at one place or taken out, and nothing else moves.                  *)
(***************************************************************************)
EXTENDS SequencesExt, FiniteSets

CONSTANT Items

VARIABLES queue, used

vars == <<queue, used>>

Init == queue = <<>> /\ used = {}

Enter(i, at) ==
  /\ i \notin used
  /\ queue' = InsertAt(queue, at, i)
  /\ used' = used \union {i}

Leave(k) == queue' = RemoveAt(queue, k) /\ UNCHANGED used

Next ==
  \/ \E i \in Items, at \in 1..Len(queue) + 1 : Enter(i, at)
  \/ \E k \in 1..Len(queue) : Leave(k)

Spec == Init /\ [][Next]_vars
=============================================================================
