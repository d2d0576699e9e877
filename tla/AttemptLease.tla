----------------------------- MODULE AttemptLease -----------------------------
(***************************************************************************)
(* The worker lease of one attempt: the tables of AuthorityTables, the     *)
(* commands of `pinboard attempt`, and the lifecycle decisions that fence  *)
(* the lease while such commands are under way.                            *)
(*                                                                         *)
(* The attempt is "active", "stopped" (paused, blocked or in review) or    *)
(* "done"; which decisions move it there is WorkLedger's subject.  That    *)
(* coordination is current, where a command needs it, is left out: a       *)
(* coordinator can always obtain it.                                       *)
(***************************************************************************)
EXTENDS AuthorityTables

VARIABLE attemptState

vars == <<clock, tables, command, attemptState>>

Init == InitTables /\ attemptState = "active"

-----------------------------------------------------------------------------
(* Commands.                                                               *)

\* A first acquisition is requested where the snapshot shows no lease row.
ResolveAcquisition(c, duration) ==
    \/ row.status = "none" /\ ResolveInitial(c, duration)
    \/ ResolveTransfer(c, duration)

ResolveChange(c) ==
    /\ \/ \E duration \in Durations : ResolveAcquisition(c, duration)
       \/ \E duration \in Durations, pair \in Shown :
              ResolveRenew(c, duration, pair)
       \/ \E pair \in Shown : ResolveRelease(c, pair) \/ ResolveRevoke(c, pair)
    /\ UNCHANGED attemptState

\* Fault: whether the attempt may be transferred is read from the snapshot.
AcquireByTransferAnyState(c) == CommitTransfer(c) /\ UNCHANGED attemptState

AcquireInitially(c) ==
    attemptState = "active" /\ CommitInitial(c) /\ UNCHANGED attemptState

AcquireByTransfer(c) ==
    attemptState # "done" /\ CommitTransfer(c) /\ UNCHANGED attemptState

ChangeOwn(c) ==
    /\ CommitRenew(c) \/ CommitRelease(c) \/ CommitRevoke(c)
    /\ UNCHANGED attemptState

-----------------------------------------------------------------------------
(* Lifecycle decisions, each one transaction.                              *)

\* Pausing, blocking and submitting keep the lease; so does resuming.
Stop ==
    /\ attemptState = "active"
    /\ attemptState' = "stopped"
    /\ UNCHANGED <<clock, tables, command>>

Continue ==
    /\ attemptState = "stopped"
    /\ attemptState' = "active"
    /\ UNCHANGED <<clock, tables, command>>

\* Returning a review, and accepting a checkpoint, fence a retained lease.
AnswerReview(after) ==
    /\ attemptState = "stopped"
    /\ row.status # "none"
    /\ Fence(clock)
    /\ attemptState' = after
    /\ UNCHANGED command

\* Completion and closure fence one if there is one.
Finish ==
    /\ attemptState # "done"
    /\ attemptState' = "done"
    /\ IF row.status = "none" THEN UNCHANGED <<clock, tables>> ELSE Fence(clock)
    /\ UNCHANGED command

-----------------------------------------------------------------------------

CommandStep(c) ==
    \/ ResolveChange(c)
    \/ AcquireInitially(c)
    \/ AcquireByTransfer(c)
    \/ ChangeOwn(c)
    \/ Abandon(c) /\ UNCHANGED attemptState

LifecycleStep ==
    \/ Stop
    \/ Continue
    \/ \E after \in {"active", "stopped"} : AnswerReview(after)
    \/ Finish

Next ==
    \/ \E c \in Commands : CommandStep(c)
    \/ LifecycleStep
    \/ Tick /\ UNCHANGED attemptState

Spec == Init /\ [][Next]_vars

-----------------------------------------------------------------------------

\* Nobody holds the lease of a finished attempt, nor regains it with a
\* command resolved before the attempt was finished.
FinishedStaysFenced == attemptState = "done" => row.status # "active"

\* Two commands that observed the same state do not both change it: what a
\* command transfers, renews, releases or revokes is still the generation it
\* was resolved for, so the later one cannot undo the earlier.
NoChangeIsLost ==
    [][\A c \in Commands :
          /\ command[c].kind \in {"transfer", "renew", "release", "revoke"}
          /\ command'[c] = Idle
          /\ row' # row
          => /\ command[c].seen.generation = row.generation
             /\ command[c].seen.holder = Retained.holder]_vars

=============================================================================
