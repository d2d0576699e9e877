--------------------------- MODULE PreparationLease ---------------------------
(***************************************************************************)
(* The preparation claim of one item: the tables of AuthorityTables with a *)
(* pinned definition, the commands of `pinboard preparation`, activation,  *)
(* which consumes the claim, and the decisions about the item while such   *)
(* commands are under way.                                                 *)
(*                                                                         *)
(* Commands that a coordinator's user typed from an earlier display carry  *)
(* the project revision that display showed: `expected` says whether any   *)
(* transaction was committed since.                                        *)
(***************************************************************************)
EXTENDS AuthorityTables

CONSTANT MaxRevision    \* bound of the model: definition revisions

ASSUME RevisionsAssumption == MaxRevision \in Nat \ {0}

VARIABLES
    stage,          \* of the item: "ready", "elsewhere" or "activated"
    waiting,        \* some dependency of the item is live
    definition,     \* current definition revision of the item
    pin,            \* definition revision the claim row names
    expected        \* commands whose expected project revision is current

itemVars == <<stage, waiting, definition>>
vars == <<clock, tables, command, itemVars, pin, expected>>

Init ==
    /\ InitTables
    /\ stage = "ready"
    /\ waiting = FALSE
    /\ definition = 1
    /\ pin = 0
    /\ expected = {}

\* A claim is granted only on a ready item with every dependency ended.
Claimable == stage = "ready" /\ ~waiting

\* Any commit advances the project revision.
Advance == expected' = {}

-----------------------------------------------------------------------------
(* Commands.                                                               *)

ResolveAcquisition(c, duration) ==
    /\ ResolveInitial(c, duration)
    /\ expected' \in {expected \cup {c}, expected}

ResolveChange(c) ==
    /\ \/ \E duration \in Durations : ResolveAcquisition(c, duration)
       \/ /\ \/ \E duration \in Durations :
                   \/ ResolveTransfer(c, duration)
                   \/ \E pair \in Shown : ResolveRenew(c, duration, pair)
             \/ \E pair \in Shown :
                   ResolveRelease(c, pair) \/ ResolveRevoke(c, pair)
          /\ UNCHANGED expected
    /\ UNCHANGED <<itemVars, pin>>

\* The preparer selects activation while its claim is live, and presents it
\* at any later time.
ResolveActivation(c) ==
    /\ stage = "ready" /\ LiveAt(clock)
    /\ Resolve(c, "activate", 0, Retained)
    /\ UNCHANGED <<itemVars, pin, expected>>

\* The exact project revision carries the exact definition and ready item.
AcquireInitially(c) ==
    /\ c \in expected
    /\ Claimable
    /\ CommitInitial(c)
    /\ pin' = definition
    /\ Advance
    /\ UNCHANGED itemVars

\* Fault: a claim is transferred whatever became of its item.
TransferAnyItem(c) ==
    /\ CommitTransfer(c)
    /\ pin' = definition
    /\ Advance
    /\ UNCHANGED itemVars

\* A transfer pins the definition that is current when it is decided.
AcquireByTransfer(c) ==
    /\ Claimable
    /\ CommitTransfer(c)
    /\ pin' = definition
    /\ Advance
    /\ UNCHANGED itemVars

ChangeOwn(c) ==
    /\ CommitRenew(c) \/ CommitRelease(c) \/ CommitRevoke(c)
    /\ Advance
    /\ UNCHANGED <<itemVars, pin>>

\* Fault: activation does not compare the pinned definition again.
ActivateUnpinned(c) ==
    /\ Requested(c, "activate")
    /\ stage = "ready"
    /\ Retained = command[c].seen
    /\ \E now \in command[c].now..clock : LiveAt(now) /\ Fence(now)
    /\ stage' = "activated"
    /\ Advance
    /\ UNCHANGED <<waiting, definition, pin>>

\* Activation rereads the item, its definition and the claim, but not the
\* dependencies.
Activate(c) ==
    /\ Requested(c, "activate")
    /\ stage = "ready" /\ pin = definition
    /\ Retained = command[c].seen
    /\ \E now \in command[c].now..clock : LiveAt(now) /\ Fence(now)
    /\ stage' = "activated"
    /\ Advance
    /\ UNCHANGED <<waiting, definition, pin>>

-----------------------------------------------------------------------------
(* Decisions about the item; a live claim keeps it from being changed by a *)
(* coordinator, who samples the time too, at most one tick before.         *)

Unclaimed == \E now \in {clock, clock - 1} : now \in Nat /\ ~LiveAt(now)

\* A revision, or a prerequisite attached to the item, may add or remove a
\* live dependency.
ReviseItem ==
    /\ stage # "activated" /\ definition < MaxRevision
    /\ Unclaimed
    /\ definition' = definition + 1
    /\ waiting' \in BOOLEAN
    /\ Advance
    /\ UNCHANGED <<clock, tables, command, stage, pin>>

\* Deferral, blocking, closing, and their way back.  None of them adds a
\* dependency without a revision, and a dependency that ended stays ended.
MoveItem ==
    /\ stage # "activated"
    /\ Unclaimed
    /\ stage' = IF stage = "ready" THEN "elsewhere" ELSE "ready"
    /\ Advance
    /\ UNCHANGED <<clock, tables, command, waiting, definition, pin>>

\* The last live dependency ends; no claim of this item is asked.
DependenciesEnd ==
    /\ waiting
    /\ waiting' = FALSE
    /\ Advance
    /\ UNCHANGED <<clock, tables, command, stage, definition, pin>>

-----------------------------------------------------------------------------

CommandStep(c) ==
    \/ ResolveChange(c)
    \/ ResolveActivation(c)
    \/ AcquireInitially(c)
    \/ AcquireByTransfer(c)
    \/ ChangeOwn(c)
    \/ Activate(c)
    \/ Abandon(c) /\ expected' = expected \ {c} /\ UNCHANGED <<itemVars, pin>>

ItemStep == ReviseItem \/ MoveItem \/ DependenciesEnd

Next ==
    \/ \E c \in Commands : CommandStep(c)
    \/ ItemStep
    \/ Tick /\ UNCHANGED <<itemVars, pin, expected>>

Spec == Init /\ [][Next]_vars

-----------------------------------------------------------------------------

\* Activation is the end of preparing: no command resolved before it claims
\* or renews the item afterwards, so nobody prepares work that has started.
NoClaimAfterActivation == stage = "activated" => row.status # "active"

\* Work starts only with every dependency ended, on the definition that was
\* pinned then, although activation asks about dependencies no more and the
\* claim it consumes was granted before other commands changed the item.
StartsPrepared ==
    [][stage' = "activated" /\ stage # "activated" => ~waiting]_vars

=============================================================================
