---------------------------- MODULE WorkLifecycle ----------------------------
(***************************************************************************)
(* What the ledger of work items promises to those who plan with it: an    *)
(* item is proposed, may wait and be redefined, is worked on by at most    *)
(* one attempt, which starts only after everything the item waits for has  *)
(* ended, and ends for good.  WorkLedger implements this specification.    *)
(***************************************************************************)
CONSTANTS
    Items,          \* identities of work items
    Attempts        \* identities of attempts

VARIABLES
    stage,          \* of each item
    waitsFor,       \* the items each item depends on
    workers         \* the attempts that have ever worked on an item

lifecycleVars == <<stage, waitsFor, workers>>

Init ==
    /\ stage = [i \in Items |-> "absent"]
    /\ waitsFor = [i \in Items |-> {}]
    /\ workers = [i \in Items |-> {}]

Known(i) == stage[i] # "absent"
Open(i) == stage[i] \in {"waiting", "underway"}

\* No set of items leaves every one of its members waiting for another.
Ordered(graph) ==
    \A S \in SUBSET Items : S # {} => \E x \in S : graph[x] \cap S = {}

\* A new item waits for nothing, or for one item that is known; or one that
\* has not ended waits for it from now on.
Propose(i) ==
    /\ ~Known(i)
    /\ stage' = [stage EXCEPT ![i] = "waiting"]
    /\ \/ UNCHANGED waitsFor
       \/ \E j \in Items : Known(j) /\ waitsFor' = [waitsFor EXCEPT ![i] = {j}]
       \/ \E j \in Items : Open(j) /\ waitsFor' = [waitsFor EXCEPT ![j] = @ \cup {i}]
    /\ UNCHANGED workers

\* What an item waits for may be replaced until it ends, never by a circle.
Redefine(i, D) ==
    /\ Open(i)
    /\ \A d \in D : Known(d)
    /\ waitsFor' = [waitsFor EXCEPT ![i] = D]
    /\ Ordered(waitsFor')
    /\ UNCHANGED <<stage, workers>>

\* Work starts once, by an attempt that has worked on nothing else, and waits
\* until all it depends on has ended.
Start(i, a) ==
    /\ stage[i] = "waiting"
    /\ workers[i] = {}
    /\ \A j \in Items : a \notin workers[j]
    /\ \A d \in waitsFor[i] : stage[d] = "ended"
    /\ stage' = [stage EXCEPT ![i] = "underway"]
    /\ workers' = [workers EXCEPT ![i] = {a}]
    /\ UNCHANGED waitsFor

\* An item ends after its work or without any.
End(i) ==
    /\ Open(i)
    /\ stage' = [stage EXCEPT ![i] = "ended"]
    /\ UNCHANGED <<waitsFor, workers>>

Next ==
    \E i \in Items :
        \/ Propose(i)
        \/ \E D \in SUBSET Items : Redefine(i, D)
        \/ \E a \in Attempts : Start(i, a)
        \/ End(i)

Spec == Init /\ [][Next]_lifecycleVars

=============================================================================
