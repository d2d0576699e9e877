---------------------------- MODULE FocusRecord -----------------------------
(***************************************************************************)
(* The current-focus row of the ledger, composed with WorkLedger.  Every   *)
(* lifecycle decision (but not the creation or negative disposal of a      *)
(* proposal, a definition revision, or an authority change) ends by        *)
(* replacing the single row of current_focus, in the same transaction.     *)
(*                                                                         *)
(* The write is a compare-and-set on subject_revision.  The transaction    *)
(* has just read the value it compares with, so it can fail in one way     *)
(* only: there is no row.  Reading invents a default in that case.         *)
(***************************************************************************)
EXTENDS WorkLedger, TLC

CONSTANTS
    NoRow,          \* the table is empty
    Nothing         \* a null identity

VARIABLES
    focus,          \* current_focus
    outcome         \* of the latest lifecycle decision: was it persisted?

focusVars == <<vars, focus, outcome>>

NextActions == {"select", "resume", "review", "continue", "reopen", "activate",
                "accept-checkpoint", "accept-proposal"}

FocusRows == [item : Items \cup {Nothing}, attempt : Attempts \cup {Nothing},
              next : NextActions]

\* An empty table is no row, and a null identity no identity.
ASSUME FocusAssumption == NoRow \notin FocusRows /\ Nothing \notin Items \cup Attempts

Settled == [item |-> Nothing, attempt |-> Nothing, next |-> "select"]

\* The database initialize_database creates: project_meta and nothing else.
InitFresh == Init /\ focus = NoRow /\ outcome = "none"

\* The database the repository's tests build: the row is inserted by them.
InitSeeded == Init /\ focus = Settled /\ outcome = "none"

\* Fault: nobody looks whether the UPDATE found a row.
UpdateFocusUnchecked(after) ==
    /\ focus' = IF focus = NoRow THEN NoRow ELSE after
    /\ outcome' = "persisted"

\* The single UPDATE of the row; it changes no row when there is none.
UpdateFocus(after) ==
    /\ focus # NoRow
    /\ focus' = after
    /\ outcome' = "persisted"

\* Fault: a terminal decision leaves the row on the item it closed.
KeepSettled == UNCHANGED focus /\ outcome' = "persisted"

SettleFocus == UpdateFocus(Settled)

FocusOn(i, a, next) == UpdateFocus([item |-> i, attempt |-> a, next |-> next])

KeepFocus == UNCHANGED <<focus, outcome>>

\* Decisions on an item without its attempt, with the row each one writes.
ItemDecision(i, now) ==
    \/ MarkReady(i, now) /\ FocusOn(i, Nothing, "continue")
    \/ BlockItem(i, now) /\ FocusOn(i, Nothing, "resume")
    \/ Defer(i, now) /\ FocusOn(i, Nothing, "reopen")
    \/ Reopen(i, now) /\ FocusOn(i, Nothing, "continue")
    \/ ResumeItem(i, now) /\ FocusOn(i, Nothing, "continue")
    \/ \E result \in CloseOutcomes : CloseItem(i, now, result) /\ SettleFocus
    \/ \E after \in AcceptedStates, extra \in SUBSET Items :
            /\ AcceptProposal(i, now, after, extra)
            /\ FocusOn(i, Nothing, "accept-proposal")

\* Decisions on an item together with its attempt.
AttemptDecision(i, a, now) ==
    \/ Activate(i, a, now) /\ FocusOn(i, a, "activate")
    \/ SubmitReview(i, a, now) /\ FocusOn(i, a, "review")
    \/ Pause(i, a, now) /\ FocusOn(i, a, "resume")
    \/ BlockAttempt(i, a, now) /\ FocusOn(i, a, "resume")
    \/ /\ \E rebrief \in BOOLEAN : ResumeAttempt(i, a, now, rebrief)
       /\ FocusOn(i, a, "continue")
    \/ Complete(i, a, now) /\ SettleFocus
    \/ \E result \in CloseOutcomes :
            CloseAttempt(i, a, now, result) /\ SettleFocus
    \/ ReturnForCorrection(i, a, now) /\ FocusOn(i, a, "continue")
    \/ AcceptCheckpoint(i, a, now) /\ FocusOn(i, a, "accept-checkpoint")
    \/ AcceptReviewAndContinue(i, a, now) /\ FocusOn(i, a, "continue")

\* Decisions whose mutation names no focus.
OtherMutation(i, now) ==
    \/ \E D \in SUBSET Items : ReviseItem(i, now, D)
    \/ CreateUnrelated(i, now)
    \/ \E target \in Items : CreateFollowUp(i, now, target)
    \/ \E target \in Items : CreatePrerequisite(i, now, target)
    \/ \E target \in Items : MergeProposal(i, now, target)
    \/ RejectProposal(i, now)
    \/ ReturnProposal(i, now)
    \/ ClaimMutation(i, now)

\* An accepted decision finds no row to update: the transaction rolls back
\* and its caller is told the action is not available.
LifecycleDecision(i, now) ==
    \/ MarkReady(i, now)
    \/ BlockItem(i, now)
    \/ Defer(i, now)
    \/ CloseItem(i, now, "done")
    \/ \E after \in AcceptedStates : AcceptProposal(i, now, after, {})

RefuseDecision(i, now) ==
    /\ focus = NoRow
    /\ ENABLED LifecycleDecision(i, now)
    /\ outcome' = "refused"
    /\ UNCHANGED <<vars, focus>>

FocusMutation(now) ==
    /\ Sampled(now)
    /\ \/ \E i \in Items : ItemDecision(i, now)
       \/ \E i \in Items, a \in Attempts : AttemptDecision(i, a, now)
       \/ \E i \in Items : OtherMutation(i, now) /\ KeepFocus
       \/ \E a \in Attempts : LeaseMutation(a, now) /\ KeepFocus
       \/ \E i \in Items : RefuseDecision(i, now)

FocusNext ==
    \/ Tick /\ KeepFocus
    \/ \E now \in 0..Horizon : FocusMutation(now)

FreshSpec == InitFresh /\ [][FocusNext]_focusVars
FocusSpec == (InitFresh \/ InitSeeded) /\ [][FocusNext]_focusVars

-----------------------------------------------------------------------------

\* The states an item may be in while the focus row names it with a next
\* action.  A reopened intake item can still be the subject of a proposal,
\* whose negative disposal ends the item and does not touch the row.
StatesUnder(next) ==
    CASE next = "resume" -> {"paused", "blocked"}
      [] next = "review" -> {"review"}
      [] next = "continue" -> {"intake", "ready", "active", "dropped", "superseded"}
      [] next = "reopen" -> {"deferred"}
      [] next = "activate" -> {"active"}
      [] next = "accept-checkpoint" -> {"paused"}
      [] next = "accept-proposal" -> AcceptedStates

\* The row always tells where work stands: no step changes the state of the
\* item in focus and leaves behind a next action of its earlier state, and
\* the attempt it names is that item's and is not done.
FocusTellsTheState ==
    focus \notin {NoRow, Settled} =>
        /\ itemState[focus.item] \in StatesUnder(focus.next)
        /\ focus.attempt # Nothing => Holds(focus.item, focus.attempt)

\* On a ledger the program itself initialized, items are proposed and
\* negatively disposed of, and nothing else ever happens to one: no item
\* becomes ready, so none is prepared, activated or completed.
FreshLedgerOnlyCollects ==
    focus = NoRow =>
    \A i \in Items : itemState[i] \in {"absent", "intake", "dropped", "superseded"}

\* Initialization creates the exact empty schema and "live state enters only
\* through focused mutations" (ARCHITECTURE.md), so a decision accepted
\* against the state its own transaction read is written.
AcceptedDecisionIsPersisted == outcome # "refused"

=============================================================================
