-------------------------- MODULE ActionCatalogue ---------------------------
(***************************************************************************)
(* The catalogue of `pinboard actions`: what each role is offered in one   *)
(* snapshot (domain/decisions.py), and what every kind of action promises  *)
(* of itself, its lifecycle precondition and the roles it is for           *)
(* (action_semantics in domain/decision_models.py).  The offers, the       *)
(* promises and the decisions are three lists kept in step by hand; here   *)
(* the decisions are the actions of WorkLedger.                            *)
(*                                                                         *)
(* The coordinator is one that holds the coordination lease; without it    *)
(* the three answers to a review are missing.  A worker and a preparer are *)
(* whoever holds the live grant of the attempt or item.  The action on the *)
(* ledger itself, the transfer, is CoordinationLease's.                    *)
(***************************************************************************)
EXTENDS WorkLedger

Roles == {"coordinator", "worker", "preparer"}

-----------------------------------------------------------------------------
(* What is offered.                                                        *)

\* _worker_actions, for the attempts discover_actions selects.
WorkerOffers(i, a, now) ==
    IF ~LeaseLive(a, now) \/ itemState[i] # "active" THEN {}
    ELSE {"report-blocker"}
         \cup IF DefinitionStale(i, a) THEN {} ELSE {"continue", "submit-review"}

\* _preparer_actions
PreparerOffers(i, now) ==
    IF ClaimLive(i, now) /\ itemState[i] = "ready" THEN {"activate"} ELSE {}

\* Fault: a checkpoint is offered while the definition is stale.
OffersStaleCheckpoint(i, a) ==
    LET current == ~DefinitionStale(i, a) IN
    CASE itemState[i] = "active" ->
             {"pause", "block"}
             \cup IF current THEN {"continue", "dispatch", "complete"} ELSE {}
      [] itemState[i] = "review" ->
             {"return-for-correction", "accept-checkpoint"}
             \cup IF current THEN {"complete"} ELSE {}
      [] OTHER -> {}

\* _active_coordinator_actions
AttemptOffers(i, a) ==
    LET current == ~DefinitionStale(i, a) IN
    CASE itemState[i] = "active" ->
             {"pause", "block"}
             \cup IF current THEN {"continue", "dispatch", "complete"} ELSE {}
      [] itemState[i] = "review" ->
             {"return-for-correction"}
             \cup (IF current THEN {"complete", "accept-checkpoint"} ELSE {})
             \cup (IF current /\ attemptState[a] = "review"
                   THEN {"accept-review-and-continue"} ELSE {})
      [] OTHER -> {}

\* Fault: resumable work may be deferred whether or not it was started.
ItemOffersDeferStarted(i, now) ==
    IF ~IsLive(i) \/ ClaimLive(i, now) THEN {}
    ELSE {"revise-item"} \cup
        CASE itemState[i] = "intake" -> {"mark-ready", "block-item", "defer", "close"}
          [] itemState[i] = "ready" -> {"defer", "close"}
          [] itemState[i] = "deferred" -> {"reopen", "close"}
          [] itemState[i] \in {"paused", "blocked"} ->
                 IF DependenciesLive(i) THEN {"close"} ELSE {"resume", "defer", "close"}
          [] OTHER -> {}

\* _item_actions, and the definition revision of every item that nobody prepares.
ItemOffers(i, now) ==
    IF ~IsLive(i) \/ ClaimLive(i, now) THEN {}
    ELSE {"revise-item"} \cup
        CASE itemState[i] = "intake" -> {"mark-ready", "block-item", "defer", "close"}
          [] itemState[i] = "ready" -> {"defer", "close"}
          [] itemState[i] = "deferred" -> {"reopen", "close"}
          [] itemState[i] \in {"paused", "blocked"} ->
                 {"close"}
                 \cup (IF DependenciesLive(i) THEN {} ELSE {"resume"})
                 \cup (IF DependenciesLive(i) \/ HasAttempt(i) THEN {} ELSE {"defer"})
          [] OTHER -> {}

\* Every proposal without a disposition is in the snapshot, whatever has
\* become of its item.
ProposalOffers(i) ==
    IF i \in pending
    THEN {"accept-proposal", "merge-proposal", "return-proposal", "reject-proposal"}
    ELSE {}

\* What `role` is offered on the attempt a of item i.
OfferedOnAttempt(role, i, a, now) ==
    CASE role = "worker" -> WorkerOffers(i, a, now)
      [] role = "preparer" -> {}
      [] role = "coordinator" -> AttemptOffers(i, a)

OfferedOnItem(role, i, now) ==
    CASE role = "worker" -> {}
      [] role = "preparer" -> PreparerOffers(i, now)
      [] role = "coordinator" -> ItemOffers(i, now)

-----------------------------------------------------------------------------
(* What is promised (action_semantics).                                    *)

PermittedRoles(kind) ==
    CASE kind \in {"report-blocker", "submit-review"} -> {"worker"}
      [] kind = "activate" -> {"preparer"}
      [] kind = "continue" -> {"coordinator", "worker"}
      [] OTHER -> {"coordinator"}

AttemptPrecondition(kind, i, a) ==
    LET state == attemptState[a]
        currentScope == ~DefinitionStale(i, a) IN
    CASE kind \in {"pause", "block", "continue", "report-blocker"} -> state = "active"
      [] kind \in {"dispatch", "submit-review"} -> state = "active" /\ currentScope
      [] kind = "complete" -> state \in {"active", "review"} /\ currentScope
      [] kind \in {"return-for-correction", "accept-checkpoint",
                   "accept-review-and-continue"} -> state = "review"

ItemPrecondition(kind, i) ==
    LET state == itemState[i] IN
    CASE kind = "activate" -> state = "ready"
      [] kind \in {"mark-ready", "block-item"} -> state = "intake"
      [] kind = "defer" -> state \in {"intake", "ready", "blocked"} /\ ~HasAttempt(i)
      [] kind = "reopen" -> state = "deferred"
      [] kind = "resume" -> state \in {"paused", "blocked"} /\ ~DependenciesLive(i)
      [] kind = "close" -> IsLive(i) /\ state \notin {"active", "review"}
      [] kind = "revise-item" -> IsLive(i)

ProposalPrecondition(i) == i \in pending /\ itemState[i] = "intake"

-----------------------------------------------------------------------------
(* What is decided: does the decision accept some payload at `now`?  The   *)
(* advisory kinds have none.                                               *)

AttemptAccepts(kind, i, a, now) ==
    CASE kind = "submit-review" -> CanSubmit(i, a, now)
      [] kind \in {"pause", "block"} -> BothIn(i, a, "active")
      [] kind = "complete" -> CanComplete(i, a)
      [] kind = "return-for-correction" -> CanReturn(i, a)
      [] kind \in {"accept-checkpoint", "accept-review-and-continue"} -> CanAccept(i, a)
      [] OTHER -> TRUE

ItemAccepts(kind, i, now) ==
    CASE kind \in {"mark-ready", "block-item"} -> CanLeaveIntake(i, now)
      [] kind = "defer" -> CanDefer(i, now)
      [] kind = "reopen" -> CanReopen(i, now)
      [] kind = "resume" ->
             CanResumeItem(i, now) \/ \E a \in Attempts : CanResumeAttempt(i, a, now)
      [] kind = "close" ->
             \/ CanCloseItem(i, now, "done")
             \/ \E a \in Attempts : CanCloseAttempt(i, a, now, "done")
      [] kind = "revise-item" ->
             revision[i] < MaxRevision => CanRevise(i, now, dependencies[i])
      [] kind = "activate" ->
             (\E a \in Attempts : attemptState[a] = "unused") =>
                 \E a \in Attempts : CanActivate(i, a, now)

-----------------------------------------------------------------------------

\* Someone asks at a time not before the last commit, and the ledger is one that
\* its readback lets stand.  A claim that ran out before that commit is live
\* again for whoever asks with an older time, and is refused for its pin.
Asked(now) == Readback /\ Sampled(now) /\ updatedAt <= now

\* Every action that is offered meets the precondition its kind advertises and
\* is offered to a role the kind is for, although the offers look at the item's
\* state and the preconditions speak of the attempt's.
OfferedAsAdvertised ==
    \A now \in 0..Horizon : Sampled(now) =>
        \A role \in Roles, i \in Items :
            /\ \A kind \in OfferedOnItem(role, i, now) :
                  role \in PermittedRoles(kind) /\ ItemPrecondition(kind, i)
            /\ \A a \in Attempts : Holds(i, a) =>
                  \A kind \in OfferedOnAttempt(role, i, a, now) :
                      role \in PermittedRoles(kind) /\ AttemptPrecondition(kind, i, a)

\* No offer on an item or an attempt is a dead end: the decision it leads to,
\* with stricter checks of its own, accepts some payload as long as nothing
\* else is committed.
OfferedIsAccepted ==
    \A now \in 0..Horizon : Asked(now) =>
        \A role \in Roles, i \in Items :
            /\ \A kind \in OfferedOnItem(role, i, now) : ItemAccepts(kind, i, now)
            /\ \A a \in Attempts : Holds(i, a) =>
                  \A kind \in OfferedOnAttempt(role, i, a, now) :
                      AttemptAccepts(kind, i, a, now)

\* action_semantics says that the four actions on a proposal need an "intake
\* proposal": one is offered only while its item is in intake.
OfferedProposalIsIntake ==
    \A i \in Items : ProposalOffers(i) # {} => ProposalPrecondition(i)

=============================================================================
