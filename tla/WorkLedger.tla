----------------------------- MODULE WorkLedger -----------------------------
(***************************************************************************)
(* The lifecycle core of Pinboard: work items, their definitions and       *)
(* dependencies, the one attempt an item may have, the preparation claim   *)
(* that leads to it and the worker lease that drives it.                   *)
(*                                                                         *)
(* Every action is one complete write transaction of the program           *)
(* (application/service.py): BEGIN IMMEDIATE, reread the state, decide     *)
(* against it at a time `now` sampled before the lock was obtained, write  *)
(* the focused change, advance project_meta, read the whole state back,    *)
(* commit.  A decision that is refused, or a readback that raises, rolls   *)
(* back and is no step of the model.                                       *)
(*                                                                         *)
(* Left to other modules, and why that is sound here: lease generations    *)
(* and tokens (an operation on a lease is taken here by whoever holds the  *)
(* current token); coordination authority (a coordinator can always obtain *)
(* it, so its steps are always possible); queue positions; the focus row   *)
(* (assumed present); artifact bytes.                                      *)
(***************************************************************************)
EXTENDS Naturals, FiniteSets

CONSTANTS
    Items,          \* identities of work items (a proposal has its item's)
    Attempts,       \* identities of attempts, disjoint in use from items
    NoItem,         \* the item of an attempt identity not yet used
    Durations,      \* lengths of a preparation claim or worker lease
    Horizon,        \* bound of the model: the clock stops here
    MaxRevision,    \* bound of the model: definition revisions of one item
    MaxLag          \* how old `now` may be when its transaction commits

ASSUME ItemsAssumption == NoItem \notin Items
ASSUME DurationsAssumption == Durations \subseteq Nat \ {0}
ASSUME BoundsAssumption ==
    Horizon \in Nat /\ MaxRevision \in Nat \ {0} /\ MaxLag \in Nat

VARIABLES
    clock,          \* the real time
    updatedAt,      \* project_meta.updated_at
    itemState,      \* work_items.state
    revision,       \* highest definition revision of an item, 0 when absent
    dependencies,   \* item_dependencies, as a set
    pending,        \* items whose proposal has no disposition
    claim,          \* preparation_leases
    attemptItem,    \* attempts.item_id
    attemptState,   \* attempts.state
    scope,          \* attempts.accepted_scope_revision
    candidate,      \* definition revision the protected candidate answers
    lease           \* attempt_leases

timeVars == <<clock, updatedAt>>
itemVars == <<itemState, revision, dependencies, pending>>
attemptVars == <<attemptItem, attemptState, scope, candidate>>
vars == <<timeVars, itemVars, claim, attemptVars, lease>>

TerminalStates == {"done", "superseded", "dropped"}
LiveStates ==
    {"intake", "ready", "active", "paused", "blocked", "deferred", "review"}

AttemptStates == {"unused", "active", "paused", "blocked", "review", "done"}
CloseOutcomes == {"done", "dropped"}
AcceptedStates == {"intake", "ready", "blocked", "deferred"}

\* A lease that was released, revoked or consumed keeps no fact any rule of
\* this module reads, so its expiry and pin are normalised to 0.
LeaseStatuses == {"none", "active", "ended"}
NoClaim == [status |-> "none", expires |-> 0, pin |-> 0]
EndedClaim == [status |-> "ended", expires |-> 0, pin |-> 0]
NoLease == [status |-> "none", expires |-> 0]
EndedLease == [status |-> "ended", expires |-> 0]

Init ==
    /\ clock = 0
    /\ updatedAt = 0
    /\ itemState = [i \in Items |-> "absent"]
    /\ revision = [i \in Items |-> 0]
    /\ dependencies = [i \in Items |-> {}]
    /\ pending = {}
    /\ claim = [i \in Items |-> NoClaim]
    /\ attemptItem = [a \in Attempts |-> NoItem]
    /\ attemptState = [a \in Attempts |-> "unused"]
    /\ scope = [a \in Attempts |-> 0]
    /\ candidate = [a \in Attempts |-> 0]
    /\ lease = [a \in Attempts |-> NoLease]

-----------------------------------------------------------------------------
(* Facts a decision reads from the locked snapshot.                        *)

Exists(i) == itemState[i] # "absent"
IsLive(i) == itemState[i] \in LiveStates
DependenciesLive(i) == \E d \in dependencies[i] : IsLive(d)
LiveDependents(i) == \E j \in Items : IsLive(j) /\ i \in dependencies[j]

ClaimLive(i, now) == claim[i].status = "active" /\ claim[i].expires > now
LeaseLive(a, now) == lease[a].status = "active" /\ lease[a].expires > now

\* The item's attempt is the one that is not done (attempts_by_item).
Holds(i, a) == attemptItem[a] = i /\ attemptState[a] \notin {"unused", "done"}
HasAttempt(i) == \E a \in Attempts : Holds(i, a)

DefinitionStale(i, a) == scope[a] # revision[i]
\* Fault: the walk stops after one step.
ShallowIntroducesCycle(i, D) ==
    i \in D \/ \E d \in D : i \in dependencies[d]

\* A depth-first walk from D over current definitions reaches item i exactly
\* when every dependency-closed set of items that contains D contains i.
IntroducesCycle(i, D) ==
    \A C \in SUBSET Items :
        (D \subseteq C /\ \A c \in C : dependencies[c] \subseteq C) => i \in C

(* Effects shared by several transitions.  They only assign: what a        *)
(* decision refuses is in its guard, so a guard that holds is a decision   *)
(* that some step takes.                                                   *)

Commit(now) == updatedAt' = now /\ UNCHANGED clock

SetItemState(i, after) == itemState' = [itemState EXCEPT ![i] = after]

\* Leaving or entering review stores or clears the candidate; only a
\* terminal attempt keeps whatever it had.
SetAttemptState(a, after) ==
    /\ attemptState' = [attemptState EXCEPT ![a] = after]
    /\ candidate' = IF after = "done" THEN candidate
                    ELSE [candidate EXCEPT ![a] =
                            IF after = "review" THEN scope[a] ELSE 0]

\* Completion and closure fence a retained worker lease if there is one.
FenceRetained(a) ==
    lease' = IF lease[a].status = "none" THEN lease
             ELSE [lease EXCEPT ![a] = EndedLease]

\* A review decision fences the lease row it has required.
FenceRequired(a) == lease' = [lease EXCEPT ![a] = EndedLease]

-----------------------------------------------------------------------------
(* Item transitions of the coordinator.  available_actions offers none of  *)
(* them, nor a definition revision, while the item's claim is live.        *)

ItemTransition(i, now, after) ==
    /\ SetItemState(i, after)
    /\ Commit(now)
    /\ UNCHANGED <<revision, dependencies, pending, claim, attemptVars, lease>>

CanLeaveIntake(i, now) == itemState[i] = "intake" /\ ~ClaimLive(i, now)

MarkReady(i, now) == CanLeaveIntake(i, now) /\ ItemTransition(i, now, "ready")

BlockItem(i, now) == CanLeaveIntake(i, now) /\ ItemTransition(i, now, "blocked")

\* A blocked item is offered for deferral only once nothing blocks it.
CanDefer(i, now) ==
    /\ \/ itemState[i] \in {"intake", "ready"}
       \/ itemState[i] = "blocked" /\ ~DependenciesLive(i)
    /\ ~HasAttempt(i)
    /\ ~ClaimLive(i, now)

Defer(i, now) == CanDefer(i, now) /\ ItemTransition(i, now, "deferred")

CanReopen(i, now) == itemState[i] = "deferred" /\ ~ClaimLive(i, now)

Reopen(i, now) == CanReopen(i, now) /\ ItemTransition(i, now, "intake")

CanResumeItem(i, now) ==
    /\ itemState[i] \in {"paused", "blocked"}
    /\ ~HasAttempt(i)
    /\ ~DependenciesLive(i)
    /\ ~ClaimLive(i, now)

ResumeItem(i, now) == CanResumeItem(i, now) /\ ItemTransition(i, now, "ready")

\* Active and reviewed work ends by acceptance only.
Closable(i, now, outcome) ==
    /\ itemState[i] \in LiveStates \ {"active", "review"}
    /\ outcome = "dropped" => ~LiveDependents(i)
    /\ ~ClaimLive(i, now)

CanCloseItem(i, now, outcome) == Closable(i, now, outcome) /\ ~HasAttempt(i)

CloseItem(i, now, outcome) ==
    CanCloseItem(i, now, outcome) /\ ItemTransition(i, now, outcome)

\* Fault: history items are revised too.
CanReviseTerminal(i, now, D) ==
    /\ Exists(i)
    /\ ~ClaimLive(i, now)
    /\ revision[i] < MaxRevision
    /\ \A d \in D : Exists(d)
    /\ ~IntroducesCycle(i, D)

CanRevise(i, now, D) ==
    /\ IsLive(i)
    /\ ~ClaimLive(i, now)
    /\ revision[i] < MaxRevision
    /\ \A d \in D : Exists(d)
    /\ ~IntroducesCycle(i, D)

\* Revision appends a definition and replaces the dependency rows; it never
\* touches the lifecycle, so it may make a running attempt stale.
ReviseItem(i, now, D) ==
    /\ CanRevise(i, now, D)
    /\ revision' = [revision EXCEPT ![i] = @ + 1]
    /\ dependencies' = [dependencies EXCEPT ![i] = D]
    /\ Commit(now)
    /\ UNCHANGED <<itemState, pending, claim, attemptVars, lease>>

-----------------------------------------------------------------------------
(* Proposals.  Creation writes the intake item and its first definition.   *)

CreateProposal(i, now) ==
    /\ ~Exists(i)
    /\ SetItemState(i, "intake")
    /\ pending' = pending \cup {i}
    /\ Commit(now)
    /\ UNCHANGED <<claim, attemptVars, lease>>

\* Independent, clarification, duplicate and contradiction relations add no
\* dependency, and neither does a prerequisite of a terminal item.
CreateUnrelated(i, now) ==
    /\ CreateProposal(i, now)
    /\ revision' = [revision EXCEPT ![i] = 1]
    /\ UNCHANGED dependencies

CreateFollowUp(i, now, target) ==
    /\ Exists(target)
    /\ CreateProposal(i, now)
    /\ revision' = [revision EXCEPT ![i] = 1]
    /\ dependencies' = [dependencies EXCEPT ![i] = {target}]

\* Fault: a live claim does not protect its item from a prerequisite.
CreatePrerequisiteOfClaimed(i, now, target) ==
    /\ IsLive(target)
    /\ revision[target] < MaxRevision
    /\ CreateProposal(i, now)
    /\ revision' = [revision EXCEPT ![i] = 1, ![target] = @ + 1]
    /\ dependencies' = [dependencies EXCEPT ![target] = @ \cup {i}]

\* A prerequisite revises the definition of its live target.
CreatePrerequisite(i, now, target) ==
    /\ IsLive(target)
    /\ ~ClaimLive(target, now)
    /\ revision[target] < MaxRevision
    /\ CreateProposal(i, now)
    /\ revision' = [revision EXCEPT ![i] = 1, ![target] = @ + 1]
    /\ dependencies' = [dependencies EXCEPT ![target] = @ \cup {i}]

CurrentIntakeProposal(i) ==
    i \in pending /\ itemState[i] = "intake" /\ ~HasAttempt(i)

DisposeProposal(i, now) ==
    /\ CurrentIntakeProposal(i)
    /\ pending' = pending \ {i}
    /\ Commit(now)
    /\ UNCHANGED <<claim, attemptVars, lease>>

\* A definition revision is appended only when dependencies really change.
AcceptProposal(i, now, after, extra) ==
    LET D == dependencies[i] \cup extra IN
    /\ DisposeProposal(i, now)
    /\ \A d \in D : Exists(d)
    /\ ~IntroducesCycle(i, D)
    /\ D # dependencies[i] => revision[i] < MaxRevision
    /\ SetItemState(i, after)
    /\ dependencies' = [dependencies EXCEPT ![i] = D]
    /\ revision' = IF D = dependencies[i] THEN revision
                   ELSE [revision EXCEPT ![i] = @ + 1]

MergeProposal(i, now, target) ==
    /\ Exists(target)
    /\ DisposeProposal(i, now)
    /\ SetItemState(i, "superseded")
    /\ UNCHANGED <<revision, dependencies>>

\* Fault: the disposition is written where the item state belongs.
RejectIntoDisposition(i, now) ==
    /\ DisposeProposal(i, now)
    /\ SetItemState(i, "rejected")
    /\ UNCHANGED <<revision, dependencies>>

RejectProposal(i, now) ==
    /\ DisposeProposal(i, now)
    /\ SetItemState(i, "dropped")
    /\ UNCHANGED <<revision, dependencies>>

ReturnProposal(i, now) ==
    /\ DisposeProposal(i, now)
    /\ UNCHANGED <<itemState, revision, dependencies>>

-----------------------------------------------------------------------------
(* Preparation claims on ready items, and activation, which consumes one.  *)

ClaimChange(i, now, after) ==
    /\ claim' = [claim EXCEPT ![i] = after]
    /\ Commit(now)
    /\ UNCHANGED <<itemVars, attemptVars, lease>>

\* Only a ready item that waits for nothing is prepared.
Preparable(i) == itemState[i] = "ready" /\ ~DependenciesLive(i)

GrantClaim(i, now, duration) ==
    ClaimChange(i, now, [status |-> "active", expires |-> now + duration,
                         pin |-> revision[i]])

CanAcquireClaim(i) == claim[i].status = "none" /\ Preparable(i)

AcquireClaim(i, now, duration) == CanAcquireClaim(i) /\ GrantClaim(i, now, duration)

CanTransferClaim(i, now) ==
    claim[i].status # "none" /\ ~ClaimLive(i, now) /\ Preparable(i)

TransferClaim(i, now, duration) ==
    CanTransferClaim(i, now) /\ GrantClaim(i, now, duration)

RenewClaim(i, now, duration) ==
    /\ ClaimLive(i, now)
    /\ now + duration > claim[i].expires
    /\ ClaimChange(i, now, [status |-> "active", expires |-> now + duration,
                            pin |-> claim[i].pin])

ReleaseClaim(i, now) ==
    /\ ClaimLive(i, now)
    /\ ClaimChange(i, now, EndedClaim)

RevokeClaim(i, now) ==
    /\ claim[i].status # "none"
    /\ ClaimChange(i, now, EndedClaim)

\* Fault: activation trusts the claim without comparing its pin.
CanActivateUnpinned(i, a, now) ==
    /\ itemState[i] = "ready" /\ ~HasAttempt(i)
    /\ ClaimLive(i, now)
    /\ attemptState[a] = "unused"

CanActivate(i, a, now) ==
    /\ itemState[i] = "ready" /\ ~HasAttempt(i)
    /\ ClaimLive(i, now) /\ claim[i].pin = revision[i]
    /\ attemptState[a] = "unused"

Activate(i, a, now) ==
    /\ CanActivate(i, a, now)
    /\ SetItemState(i, "active")
    /\ claim' = [claim EXCEPT ![i] = EndedClaim]
    /\ attemptItem' = [attemptItem EXCEPT ![a] = i]
    /\ SetAttemptState(a, "active")
    /\ scope' = [scope EXCEPT ![a] = revision[i]]
    /\ Commit(now)
    /\ UNCHANGED <<revision, dependencies, pending, lease>>

-----------------------------------------------------------------------------
(* Transitions of an item together with its attempt.                       *)

AttemptTransition(i, a, now, itemAfter, attemptAfter) ==
    /\ SetItemState(i, itemAfter)
    /\ SetAttemptState(a, attemptAfter)
    /\ Commit(now)
    /\ UNCHANGED <<revision, dependencies, pending, claim, attemptItem>>

\* Item i and its attempt a are both in this state.
BothIn(i, a, state) ==
    Holds(i, a) /\ itemState[i] = state /\ attemptState[a] = state

\* Fault: a candidate is submitted without a live worker lease.
CanSubmitUnleased(i, a, now) == BothIn(i, a, "active") /\ ~DefinitionStale(i, a)

\* The worker acts under its live lease; the coordinator under none.
CanSubmit(i, a, now) ==
    BothIn(i, a, "active") /\ ~DefinitionStale(i, a) /\ LeaseLive(a, now)

SubmitReview(i, a, now) ==
    /\ CanSubmit(i, a, now)
    /\ AttemptTransition(i, a, now, "review", "review")
    /\ UNCHANGED <<scope, lease>>

Pause(i, a, now) ==
    /\ BothIn(i, a, "active")
    /\ AttemptTransition(i, a, now, "paused", "paused")
    /\ UNCHANGED <<scope, lease>>

\* Fault: the attempt is written with the pause state.
BlockAttemptAsPause(i, a, now) ==
    /\ BothIn(i, a, "active")
    /\ AttemptTransition(i, a, now, "blocked", "paused")
    /\ UNCHANGED <<scope, lease>>

BlockAttempt(i, a, now) ==
    /\ BothIn(i, a, "active")
    /\ AttemptTransition(i, a, now, "blocked", "blocked")
    /\ UNCHANGED <<scope, lease>>

CanResumeAttempt(i, a, now) ==
    /\ BothIn(i, a, "paused") \/ BothIn(i, a, "blocked")
    /\ ~ClaimLive(i, now)
    /\ ~DependenciesLive(i)

\* A revised brief binds the attempt to the current definition; resuming
\* without one keeps the scope the attempt had.
ResumeAttempt(i, a, now, rebrief) ==
    /\ CanResumeAttempt(i, a, now)
    /\ AttemptTransition(i, a, now, "active", "active")
    /\ scope' = IF rebrief THEN [scope EXCEPT ![a] = revision[i]] ELSE scope
    /\ UNCHANGED lease

CanComplete(i, a) ==
    /\ BothIn(i, a, "active") \/ BothIn(i, a, "review")
    /\ ~DefinitionStale(i, a)

\* Fault: completing the attempt hands its item back as ready.
CompleteAttemptOnly(i, a, now) ==
    /\ CanComplete(i, a)
    /\ AttemptTransition(i, a, now, "ready", "done")
    /\ FenceRetained(a)
    /\ UNCHANGED scope

Complete(i, a, now) ==
    /\ CanComplete(i, a)
    /\ AttemptTransition(i, a, now, "done", "done")
    /\ FenceRetained(a)
    /\ UNCHANGED scope

CanCloseAttempt(i, a, now, outcome) == Closable(i, now, outcome) /\ Holds(i, a)

CloseAttempt(i, a, now, outcome) ==
    /\ CanCloseAttempt(i, a, now, outcome)
    /\ AttemptTransition(i, a, now, outcome, "done")
    /\ FenceRetained(a)
    /\ UNCHANGED scope

\* Review decisions refuse an attempt that never had a worker lease.
CanReturn(i, a) == BothIn(i, a, "review") /\ lease[a].status # "none"

ReturnForCorrection(i, a, now) ==
    /\ CanReturn(i, a)
    /\ AttemptTransition(i, a, now, "active", "active")
    /\ FenceRequired(a)
    /\ UNCHANGED scope

\* Fault: a checkpoint is accepted against an outdated definition.
CanAcceptStale(i, a) == BothIn(i, a, "review") /\ lease[a].status # "none"

CanAccept(i, a) ==
    /\ BothIn(i, a, "review") /\ lease[a].status # "none"
    /\ ~DefinitionStale(i, a)

AcceptCheckpoint(i, a, now) ==
    /\ CanAccept(i, a)
    /\ AttemptTransition(i, a, now, "paused", "paused")
    /\ FenceRequired(a)
    /\ UNCHANGED scope

AcceptReviewAndContinue(i, a, now) ==
    /\ CanAccept(i, a)
    /\ AttemptTransition(i, a, now, "active", "active")
    /\ FenceRequired(a)
    /\ UNCHANGED scope

-----------------------------------------------------------------------------
(* Worker leases.                                                          *)

LeaseChange(a, now, after) ==
    /\ lease' = [lease EXCEPT ![a] = after]
    /\ Commit(now)
    /\ UNCHANGED <<itemVars, claim, attemptVars>>

GrantedLease(now, duration) ==
    [status |-> "active", expires |-> now + duration]

CanAcquireLease(a) == attemptState[a] = "active" /\ lease[a].status = "none"

AcquireLease(a, now, duration) ==
    CanAcquireLease(a) /\ LeaseChange(a, now, GrantedLease(now, duration))

CanTransferLease(a, now) ==
    /\ attemptState[a] \notin {"unused", "done"}
    /\ lease[a].status # "none" /\ ~LeaseLive(a, now)

TransferLease(a, now, duration) ==
    CanTransferLease(a, now) /\ LeaseChange(a, now, GrantedLease(now, duration))

RenewLease(a, now, duration) ==
    /\ LeaseLive(a, now)
    /\ now + duration > lease[a].expires
    /\ LeaseChange(a, now, GrantedLease(now, duration))

ReleaseLease(a, now) ==
    /\ LeaseLive(a, now)
    /\ LeaseChange(a, now, EndedLease)

RevokeLease(a, now) ==
    /\ lease[a].status # "none"
    /\ LeaseChange(a, now, EndedLease)

-----------------------------------------------------------------------------

Tick ==
    /\ clock < Horizon
    /\ clock' = clock + 1
    /\ UNCHANGED <<updatedAt, itemVars, claim, attemptVars, lease>>

ItemMutation(i, now) ==
    \/ MarkReady(i, now)
    \/ BlockItem(i, now)
    \/ Defer(i, now)
    \/ Reopen(i, now)
    \/ ResumeItem(i, now)
    \/ \E outcome \in CloseOutcomes : CloseItem(i, now, outcome)
    \/ \E D \in SUBSET Items : ReviseItem(i, now, D)

ProposalMutation(i, now) ==
    \/ CreateUnrelated(i, now)
    \/ \E target \in Items : CreateFollowUp(i, now, target)
    \/ \E target \in Items : CreatePrerequisite(i, now, target)
    \/ \E after \in AcceptedStates, extra \in SUBSET Items :
            AcceptProposal(i, now, after, extra)
    \/ \E target \in Items : MergeProposal(i, now, target)
    \/ RejectProposal(i, now)
    \/ ReturnProposal(i, now)

ClaimMutation(i, now) ==
    \/ \E duration \in Durations : AcquireClaim(i, now, duration)
    \/ \E duration \in Durations : TransferClaim(i, now, duration)
    \/ \E duration \in Durations : RenewClaim(i, now, duration)
    \/ ReleaseClaim(i, now)
    \/ RevokeClaim(i, now)

AttemptMutation(i, a, now) ==
    \/ Activate(i, a, now)
    \/ SubmitReview(i, a, now)
    \/ Pause(i, a, now)
    \/ BlockAttempt(i, a, now)
    \/ \E rebrief \in BOOLEAN : ResumeAttempt(i, a, now, rebrief)
    \/ Complete(i, a, now)
    \/ \E outcome \in CloseOutcomes : CloseAttempt(i, a, now, outcome)
    \/ ReturnForCorrection(i, a, now)
    \/ AcceptCheckpoint(i, a, now)
    \/ AcceptReviewAndContinue(i, a, now)

LeaseMutation(a, now) ==
    \/ \E duration \in Durations : AcquireLease(a, now, duration)
    \/ \E duration \in Durations : TransferLease(a, now, duration)
    \/ \E duration \in Durations : RenewLease(a, now, duration)
    \/ ReleaseLease(a, now)
    \/ RevokeLease(a, now)

\* A time sampled at most MaxLag before the transaction commits.
Sampled(now) == now <= clock /\ clock <= now + MaxLag

Mutation(now) ==
    /\ Sampled(now)
    /\ \/ \E i \in Items : ItemMutation(i, now)
       \/ \E i \in Items : ProposalMutation(i, now)
       \/ \E i \in Items : ClaimMutation(i, now)
       \/ \E i \in Items, a \in Attempts : AttemptMutation(i, a, now)
       \/ \E a \in Attempts : LeaseMutation(a, now)

\* The readback only takes steps away (AcceptedDecisionsReadBack says when it
\* takes none), so what holds of every decided step holds of the program.
Next == Tick \/ \E now \in 0..Horizon : Mutation(now)

Spec == Init /\ [][Next]_vars

-----------------------------------------------------------------------------
(* Correctness.                                                            *)

\* The readback of a transaction raises on a state that breaks one of these
\* (_validate_current_state and _validate_dependencies).
ClaimsValid ==
    \A i \in Items :
        ClaimLive(i, updatedAt) =>
            itemState[i] = "ready" /\ claim[i].pin = revision[i]

\* No set of items leaves every one of its members waiting for another.
DependenciesAcyclic ==
    \A S \in SUBSET Items :
        S # {} => \E x \in S : dependencies[x] \cap S = {}

Readback == ClaimsValid /\ DependenciesAcyclic

ClaimType ==
    [status : LeaseStatuses, expires : Nat, pin : Nat]

LeaseType == [status : LeaseStatuses, expires : Nat]

\* Every column holds a value of its declared domain.
TypeOK ==
    /\ clock \in Nat
    /\ updatedAt \in Nat
    /\ itemState \in [Items -> LiveStates \cup TerminalStates \cup {"absent"}]
    /\ revision \in [Items -> Nat]
    /\ dependencies \in [Items -> SUBSET Items]
    /\ pending \in SUBSET Items
    /\ claim \in [Items -> ClaimType]
    /\ attemptItem \in [Attempts -> Items \cup {NoItem}]
    /\ attemptState \in [Attempts -> AttemptStates]
    /\ scope \in [Attempts -> Nat]
    /\ candidate \in [Attempts -> Nat]
    /\ lease \in [Attempts -> LeaseType]

\* The two state columns, written by separate statements, always agree: an
\* item is active, paused or in review exactly while its attempt is, and the
\* attempt of a terminal item is done.
ItemAttemptAgreement ==
    \A i \in Items :
        /\ itemState[i] \in {"active", "paused", "review"} => HasAttempt(i)
        /\ \A a \in Attempts : Holds(i, a) => itemState[i] = attemptState[a]

\* The schema forbids two live attempts of one item; the program never even
\* creates a second one after the first is done, which is why picking the
\* first attempt of an item when a revised brief is checked is right.
OneAttemptEver ==
    \A a, b \in Attempts :
        attemptItem[a] = attemptItem[b] /\ attemptItem[a] # NoItem => a = b

\* Work in review can always be returned for correction: that decision
\* refuses an attempt without a retained worker lease, and nothing but it
\* leaves review once the definition is stale.
ReviewCanBeReturned ==
    \A a \in Attempts : attemptState[a] = "review" => lease[a].status # "none"

\* Once an attempt is done no worker holds or can regain its lease.
DoneAttemptIsFenced ==
    \A a \in Attempts : attemptState[a] = "done" => lease[a].status # "active"

\* An attempt protects a candidate in review and in no other live state, and
\* that candidate answers the definition the attempt had accepted.
CandidateOnlyInReview ==
    \A a \in Attempts :
        IF attemptState[a] = "review"
        THEN candidate[a] = scope[a] /\ candidate[a] # 0
        ELSE attemptState[a] # "done" => candidate[a] = 0

\* A decision that was accepted is not rolled back by the readback, unless its
\* time is before that of the transaction it follows: a live claim keeps its
\* item ready, pinned, and free of live dependencies whatever is committed.
ReadsBack ==
    /\ Readback
    /\ \A i \in Items : ClaimLive(i, updatedAt) => ~DependenciesLive(i)

AcceptedDecisionsReadBack ==
    [][ReadsBack /\ updatedAt' >= updatedAt => ReadsBack']_vars

\* An attempt starts only on the current definition with every dependency
\* terminal, although the claim that allows it checked them long before and
\* activation itself rereads neither the dependencies nor their states.
ActivationIsPrepared ==
    [][\A a \in Attempts :
          attemptState[a] = "unused" /\ attemptState'[a] # "unused" =>
              LET i == attemptItem'[a] IN
              /\ ~DependenciesLive(i)
              /\ scope'[a] = revision[i]]_vars

\* Whatever review accepts (completion, a checkpoint, or leave to continue)
\* was submitted under the item's current definition: a revision committed
\* after submission leaves only the way back to correction.
AcceptsReview(i, a, now) ==
    /\ itemState[i] = "review"
    /\ \/ Complete(i, a, now)
       \/ AcceptCheckpoint(i, a, now)
       \/ AcceptReviewAndContinue(i, a, now)

AcceptedCandidateIsCurrent ==
    [][\A i \in Items, a \in Attempts :
          (\E now \in 0..Horizon : AcceptsReview(i, a, now)) =>
              candidate[a] = revision[i]]_vars

\* A terminal item is final: its state, definition and dependencies never
\* change again, and its attempt keeps its state and accepted scope.
TerminalIsFinal ==
    [][\A i \in Items : itemState[i] \in TerminalStates =>
          /\ itemState'[i] = itemState[i]
          /\ revision'[i] = revision[i]
          /\ dependencies'[i] = dependencies[i]
          /\ \A a \in Attempts :
                attemptItem[a] = i \/ attemptItem'[a] = i =>
                    attemptState'[a] = attemptState[a] /\ scope'[a] = scope[a]
      ]_vars

\* HOW_IT_WORKS.md states that "Resume requires a brief matching the current
\* definition": an attempt leaves pause or block only bound to that
\* definition.  The program also resumes with no brief at all.
ResumeBindsCurrentDefinition ==
    [][\A a \in Attempts :
          attemptState[a] \in {"paused", "blocked"}
          /\ attemptState'[a] = "active" =>
              scope'[a] = revision[attemptItem[a]]]_vars

-----------------------------------------------------------------------------
(* The lifecycle this ledger keeps, told in the terms of WorkLifecycle.    *)

Stage(i) ==
    IF ~Exists(i) THEN "absent"
    ELSE IF ~IsLive(i) THEN "ended"
    ELSE IF HasAttempt(i) THEN "underway" ELSE "waiting"

Stages == [i \in Items |-> Stage(i)]

Workers == [i \in Items |-> {a \in Attempts : attemptItem[a] = i}]

Lifecycle == INSTANCE WorkLifecycle
    WITH stage <- Stages, waitsFor <- dependencies, workers <- Workers

\* Whatever transactions commit, an item has one life: it is proposed, waits,
\* is worked on by one attempt that starts when all it waits for has ended,
\* and ends for good; pausing, blocking, review and return are all one work.
KeepsLifecycle == Lifecycle!Spec

=============================================================================
