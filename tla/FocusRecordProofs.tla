-------------------------- MODULE FocusRecordProofs --------------------------
(***************************************************************************)
(* Proofs about the row of current_focus for every value of the constants: *)
(* it changes nothing of the ledger and always tells where work stands, a  *)
(* ledger without it only collects proposals, every offer of the catalogue *)
(* matches what is advertised of its kind and is accepted by its decision, *)
(* and what people are told to do next can be done.                        *)
(***************************************************************************)
EXTENDS FocusRecord, WorkOverview, ReadbackProofs

-----------------------------------------------------------------------------
(* Every step of the composition is a step of the ledger, or none of it.   *)

\* A step with the focus record beside the ledger is a step of the ledger.
LEMMA FocusStepsLedger == [FocusNext]_focusVars => [Next]_vars
<1> SUFFICES ASSUME FocusNext PROVE [Next]_vars
  BY DEF focusVars
<1>1. CASE Tick /\ KeepFocus
  BY <1>1 DEF Next
<1>2. ASSUME NEW now \in 0..Horizon, FocusMutation(now) PROVE [Next]_vars
  <2>1. ASSUME NEW i \in Items, ItemDecision(i, now)
        PROVE  ItemMutation(i, now) \/ ProposalMutation(i, now)
    BY <2>1 DEF ItemDecision, ItemMutation, ProposalMutation
  <2>2. ASSUME NEW i \in Items, NEW a \in Attempts, AttemptDecision(i, a, now)
        PROVE  AttemptMutation(i, a, now)
    BY <2>2 DEF AttemptDecision, AttemptMutation
  <2>3. ASSUME NEW i \in Items, OtherMutation(i, now)
        PROVE  ItemMutation(i, now) \/ ProposalMutation(i, now) \/ ClaimMutation(i, now)
    BY <2>3 DEF OtherMutation, ItemMutation, ProposalMutation
  <2>4. ASSUME NEW i \in Items, RefuseDecision(i, now) PROVE UNCHANGED vars
    BY <2>4 DEF RefuseDecision
  <2> QED
    BY <1>2, <2>1, <2>2, <2>3, <2>4 DEF FocusMutation, Mutation, Next
<1> QED
  BY <1>1, <1>2 DEF FocusNext

\* Writing the focus row with every decision leaves the ledger what it was:
\* whatever is proved of WorkLedger holds of it with the row.
THEOREM FocusIsLedger == FocusSpec => Spec
<1>1. InitFresh \/ InitSeeded => Init
  BY DEF InitFresh, InitSeeded
<1> QED
  BY <1>1, FocusStepsLedger, PTL DEF FocusSpec, Spec

\* So the ledger's agreement of recorded and calculated states holds beside the focus.
LEMMA FocusAgrees == FocusSpec => []Agreement
  BY FocusIsLedger, AgreementCorrect

-----------------------------------------------------------------------------
(* The row tells where work stands.  What takes an item out of intake      *)
(* without the row is a negative disposal, hence of a pending proposal; an *)
(* accepted one is not pending, which is what the row must remember.       *)

Told ==
    /\ focus \in [item : Items, attempt : Attempts \cup {Nothing},
                  next : NextActions \ {"select"}]
    /\ itemState[focus.item] \in StatesUnder(focus.next)
    /\ focus.attempt # Nothing => Holds(focus.item, focus.attempt)
    /\ focus.next = "accept-proposal" => focus.item \notin pending

FocusInv == focus \in {NoRow, Settled} \/ Told

\* What happens to items while the row stays as it is.
ItemsUnfocused ==
    /\ UNCHANGED attemptVars
    /\ pending' \subseteq pending \cup {i \in Items : itemState[i] = "absent"}
    /\ \A i \in Items :
          \/ itemState'[i] = itemState[i]
          \/ itemState[i] = "absent" /\ itemState'[i] = "intake"
          \/ /\ i \in pending /\ itemState[i] = "intake" /\ ~HasAttempt(i)
             /\ itemState'[i] \in {"dropped", "superseded"}

\* A mutation that is no transition creates items at most: no other item changes state.
LEMMA OthersUnfocused ==
    ASSUME TypeOK, NEW i \in Items, NEW now, OtherMutation(i, now)
    PROVE  ItemsUnfocused
<1>1. CASE (\E D \in SUBSET Items : ReviseItem(i, now, D)) \/ ClaimMutation(i, now)
  BY <1>1 DEF ReviseItem, ClaimMutation, AcquireClaim, TransferClaim, GrantClaim,
     RenewClaim, ReleaseClaim, RevokeClaim, ClaimChange, itemVars, ItemsUnfocused
<1>2. CASE \/ CreateUnrelated(i, now)
           \/ \E target \in Items :
                 CreateFollowUp(i, now, target) \/ CreatePrerequisite(i, now, target)
  <2>1. CreateProposal(i, now)
    BY <1>2 DEF CreateUnrelated, CreateFollowUp, CreatePrerequisite
  <2> QED
    BY <2>1 DEF CreateProposal, Exists, SetItemState, ItemsUnfocused, TypeOK
<1>3. CASE \/ \E target \in Items : MergeProposal(i, now, target)
           \/ RejectProposal(i, now) \/ ReturnProposal(i, now)
  <2>1. /\ DisposeProposal(i, now)
        /\ \/ itemState' = itemState
           \/ SetItemState(i, "superseded") \/ SetItemState(i, "dropped")
    BY <1>3 DEF MergeProposal, RejectProposal, ReturnProposal
  <2> QED
    BY <2>1 DEF DisposeProposal, CurrentIntakeProposal, SetItemState,
       ItemsUnfocused, TypeOK
<1> QED
  BY <1>1, <1>2, <1>3 DEF OtherMutation

\* A row that is not rewritten keeps telling the truth.
LEMMA ToldKept ==
    ASSUME Told, ItemsUnfocused, focus' = focus
    PROVE  Told'
<1> DEFINE i == focus.item
<1>1. /\ i \in Items
      /\ focus.next \in NextActions \ {"select"}
      /\ itemState[i] \in StatesUnder(focus.next)
      /\ focus.next = "accept-proposal" => i \notin pending
  BY DEF Told
<1>2. itemState[i] # "absent"
  BY <1>1 DEF StatesUnder, NextActions, AcceptedStates
<1>3. itemState'[i] \in StatesUnder(focus.next)
  BY <1>1, <1>2 DEF StatesUnder, NextActions, AcceptedStates, ItemsUnfocused
<1>4. focus.next = "accept-proposal" => i \notin pending'
  BY <1>1, <1>2 DEF ItemsUnfocused
<1>5. focus.attempt # Nothing => Holds(i, focus.attempt)'
  BY DEF Told, Holds, ItemsUnfocused, attemptVars
<1> QED
  BY <1>3, <1>4, <1>5 DEF Told

\* A decision on an item alone writes the state it leaves behind.
LEMMA ItemTold ==
    ASSUME TypeOK, NEW i \in Items, NEW now, ItemDecision(i, now)
    PROVE  FocusInv'
<1>1. ASSUME NEW next \in NextActions \ {"select"}, FocusOn(i, Nothing, next),
             itemState'[i] \in StatesUnder(next),
             next = "accept-proposal" => i \notin pending'
      PROVE  Told'
  BY <1>1 DEF FocusOn, UpdateFocus, Told
<1>2. ASSUME NEW after, ItemTransition(i, now, after)
      PROVE  itemState'[i] = after
  BY <1>2 DEF ItemTransition, SetItemState, TypeOK
<1>3. CASE \/ MarkReady(i, now) /\ FocusOn(i, Nothing, "continue")
           \/ Reopen(i, now) /\ FocusOn(i, Nothing, "continue")
           \/ ResumeItem(i, now) /\ FocusOn(i, Nothing, "continue")
  <2>1. itemState'[i] \in {"ready", "intake"} /\ FocusOn(i, Nothing, "continue")
    BY <1>2, <1>3 DEF MarkReady, Reopen, ResumeItem
  <2> QED
    BY <1>1, <2>1 DEF StatesUnder, NextActions, FocusInv
<1>4. CASE BlockItem(i, now) /\ FocusOn(i, Nothing, "resume")
  BY <1>1, <1>2, <1>4 DEF BlockItem, StatesUnder, NextActions, FocusInv
<1>5. CASE Defer(i, now) /\ FocusOn(i, Nothing, "reopen")
  BY <1>1, <1>2, <1>5 DEF Defer, StatesUnder, NextActions, FocusInv
<1>6. ASSUME NEW after \in AcceptedStates, NEW extra \in SUBSET Items,
             AcceptProposal(i, now, after, extra), FocusOn(i, Nothing, "accept-proposal")
      PROVE  FocusInv'
  <2>1. itemState'[i] = after /\ i \notin pending'
    BY <1>6 DEF AcceptProposal, DisposeProposal, SetItemState, TypeOK
  <2> QED
    BY <1>1, <1>6, <2>1 DEF StatesUnder, NextActions, FocusInv
<1>7. CASE SettleFocus
  BY <1>7 DEF SettleFocus, UpdateFocus, FocusInv, Settled
<1> QED
  BY <1>3, <1>4, <1>5, <1>6, <1>7 DEF ItemDecision

\* So does one on an item and its attempt, which the item still holds.
LEMMA AttemptTold ==
    ASSUME TypeOK, NEW i \in Items, NEW a \in Attempts, NEW now, AttemptDecision(i, a, now)
    PROVE  FocusInv'
<1>1. ASSUME NEW next \in NextActions \ {"select", "accept-proposal"}, FocusOn(i, a, next),
             itemState'[i] \in StatesUnder(next), Holds(i, a)'
      PROVE  FocusInv'
  BY <1>1 DEF FocusOn, UpdateFocus, Told, FocusInv
<1>2. ASSUME NEW after, NEW left \in {"active", "paused", "blocked", "review"},
             Holds(i, a), AttemptTransition(i, a, now, after, left)
      PROVE  itemState'[i] = after /\ Holds(i, a)'
  BY <1>2 DEF AttemptTransition, SetItemState, SetAttemptState, Holds, TypeOK
<1>3. CASE Activate(i, a, now) /\ FocusOn(i, a, "activate")
  <2>1. itemState'[i] = "active" /\ Holds(i, a)'
    BY <1>3 DEF Activate, SetItemState, SetAttemptState, Holds, TypeOK
  <2> QED
    BY <1>1, <1>3, <2>1 DEF StatesUnder, NextActions
<1>4. CASE SubmitReview(i, a, now) /\ FocusOn(i, a, "review")
  BY <1>1, <1>2, <1>4 DEF SubmitReview, CanSubmit, BothIn, StatesUnder, NextActions
<1>5. CASE \/ Pause(i, a, now) /\ FocusOn(i, a, "resume")
           \/ BlockAttempt(i, a, now) /\ FocusOn(i, a, "resume")
  BY <1>1, <1>2, <1>5 DEF Pause, BlockAttempt, BothIn, StatesUnder, NextActions
<1>6. CASE /\ \/ \E rebrief \in BOOLEAN : ResumeAttempt(i, a, now, rebrief)
              \/ ReturnForCorrection(i, a, now)
              \/ AcceptReviewAndContinue(i, a, now)
           /\ FocusOn(i, a, "continue")
  BY <1>1, <1>2, <1>6 DEF ResumeAttempt, CanResumeAttempt, ReturnForCorrection,
     CanReturn, AcceptReviewAndContinue, CanAccept, BothIn, StatesUnder, NextActions
<1>7. CASE AcceptCheckpoint(i, a, now) /\ FocusOn(i, a, "accept-checkpoint")
  BY <1>1, <1>2, <1>7 DEF AcceptCheckpoint, CanAccept, BothIn, StatesUnder, NextActions
<1>8. CASE SettleFocus
  BY <1>8 DEF SettleFocus, UpdateFocus, FocusInv, Settled
<1> QED
  BY <1>3, <1>4, <1>5, <1>6, <1>7, <1>8 DEF AttemptDecision

\* The row always tells where work stands (put_focus in the transaction of
\* every lifecycle decision): no step moves the item in focus and leaves the
\* next action of its earlier state behind.
THEOREM FocusCorrect == FocusSpec => []FocusTellsTheState
<1>1. InitFresh \/ InitSeeded => FocusInv
  BY DEF InitFresh, InitSeeded, FocusInv
<1>2. Agreement /\ FocusInv /\ [FocusNext]_focusVars => FocusInv'
  <2> SUFFICES ASSUME TypeOK, FocusInv, [FocusNext]_focusVars PROVE FocusInv'
    BY DEF Agreement
  <2>1. ASSUME ItemsUnfocused, focus' = focus PROVE FocusInv'
    BY <2>1, ToldKept DEF FocusInv, Settled
  <2>2. ASSUME itemVars' = itemVars, attemptVars' = attemptVars, focus' = focus
        PROVE  FocusInv'
    BY <2>1, <2>2 DEF ItemsUnfocused, itemVars
  <2>3. CASE UNCHANGED focusVars
    BY <2>2, <2>3 DEF focusVars, vars
  <2>4. CASE Tick /\ KeepFocus
    BY <2>2, <2>4 DEF Tick, KeepFocus
  <2>5. ASSUME NEW now \in 0..Horizon, FocusMutation(now) PROVE FocusInv'
    <3>1. ASSUME NEW i \in Items, OtherMutation(i, now), KeepFocus PROVE FocusInv'
      BY <2>1, <3>1, OthersUnfocused DEF KeepFocus
    <3>2. ASSUME NEW a \in Attempts, LeaseMutation(a, now), KeepFocus PROVE FocusInv'
      BY <2>2, <3>2 DEF LeaseMutation, AcquireLease, TransferLease, RenewLease,
         ReleaseLease, RevokeLease, LeaseChange, KeepFocus
    <3>3. ASSUME NEW i \in Items, RefuseDecision(i, now) PROVE FocusInv'
      BY <2>2, <3>3 DEF RefuseDecision, vars
    <3> QED
      BY <2>5, <3>1, <3>2, <3>3, ItemTold, AttemptTold DEF FocusMutation
  <2> QED
    BY <2>3, <2>4, <2>5 DEF FocusNext
<1>3. FocusInv => FocusTellsTheState
  BY DEF FocusInv, Told, FocusTellsTheState
<1> QED
  BY <1>1, <1>2, <1>3, FocusAgrees, PTL DEF FocusSpec

-----------------------------------------------------------------------------

\* A ledger the program itself initialized has no row to update, so items are
\* proposed and negatively disposed of there and nothing else happens to one.
THEOREM CollectsCorrect == FocusSpec => []FreshLedgerOnlyCollects
<1>1. InitFresh \/ InitSeeded => FreshLedgerOnlyCollects
  BY DEF InitFresh, InitSeeded, Init, FreshLedgerOnlyCollects
<1>2. Agreement /\ FreshLedgerOnlyCollects /\ [FocusNext]_focusVars
         => FreshLedgerOnlyCollects'
  <2> SUFFICES ASSUME TypeOK, FreshLedgerOnlyCollects, [FocusNext]_focusVars,
                      focus' = NoRow
               PROVE  FreshLedgerOnlyCollects'
    BY DEF Agreement, FreshLedgerOnlyCollects
  <2>1. ASSUME NEW i \in Items, NEW a \in Attempts \cup {Nothing},
               NEW next \in NextActions
        PROVE  ~FocusOn(i, a, next) /\ ~SettleFocus
    <3>1. [item |-> i, attempt |-> a, next |-> next] # NoRow /\ Settled # NoRow
      BY FocusAssumption DEF FocusRows, Settled, NextActions
    <3> QED
      BY <3>1 DEF FocusOn, SettleFocus, UpdateFocus
  <2>2. ASSUME NEW i \in Items, NEW now PROVE ~ItemDecision(i, now)
    BY <2>1 DEF ItemDecision, NextActions
  <2>3. ASSUME NEW i \in Items, NEW a \in Attempts, NEW now
        PROVE  ~AttemptDecision(i, a, now)
    BY <2>1 DEF AttemptDecision, NextActions
  <2>4. /\ focus = NoRow
        /\ itemState' = itemState \/ \E now : \E i \in Items : OtherMutation(i, now)
    BY <2>2, <2>3 DEF FocusNext, FocusMutation, KeepFocus, RefuseDecision, Tick,
       LeaseMutation, AcquireLease, TransferLease, RenewLease, ReleaseLease,
       RevokeLease, LeaseChange, focusVars, vars, itemVars
  <2>5. CASE itemState' = itemState
    BY <2>4, <2>5 DEF FreshLedgerOnlyCollects
  <2>6. CASE \E now : \E i \in Items : OtherMutation(i, now)
    BY <2>4, <2>6, OthersUnfocused DEF ItemsUnfocused, FreshLedgerOnlyCollects
  <2> QED
    BY <2>4, <2>5, <2>6
<1> QED
  BY <1>1, <1>2, FocusAgrees, PTL DEF FocusSpec

-----------------------------------------------------------------------------

\* Every action offered meets the precondition its kind advertises, and is
\* offered to a role the kind is for (action_semantics): the offers look at
\* the item's state, and the attempt's always agrees with it.
THEOREM OfferedCorrect == Spec => []OfferedAsAdvertised
<1>1. ASSUME TypeOK, ItemAttemptAgreement, NEW role \in Roles, NEW i \in Items,
             NEW now, NEW kind \in OfferedOnItem(role, i, now)
      PROVE  role \in PermittedRoles(kind) /\ ItemPrecondition(kind, i)
  <2>1. CASE role = "worker"
    BY <1>1, <2>1 DEF OfferedOnItem
  <2>2. CASE role = "preparer"
    BY <1>1, <2>2 DEF OfferedOnItem, PreparerOffers, PermittedRoles, ItemPrecondition
  <2>3. CASE role = "coordinator"
    <3>1. IsLive(i) /\ kind \in ItemOffers(i, now)
      BY <1>1, <2>3 DEF OfferedOnItem, ItemOffers
    <3>2. CASE kind = "revise-item"
      BY <2>3, <3>1, <3>2 DEF PermittedRoles, ItemPrecondition
    <3>3. CASE itemState[i] \in {"intake", "ready", "deferred"} /\ kind # "revise-item"
      <4>1. \/ itemState[i] = "intake" /\ kind \in {"mark-ready", "block-item", "defer", "close"}
            \/ itemState[i] = "ready" /\ kind \in {"defer", "close"}
            \/ itemState[i] = "deferred" /\ kind \in {"reopen", "close"}
        BY <3>1, <3>3 DEF ItemOffers
      <4>2. ~HasAttempt(i)
        BY <1>1, <3>3 DEF HasAttempt, ItemAttemptAgreement, TypeOK, AttemptStates
      <4> QED
        BY <2>3, <3>1, <4>1, <4>2 DEF PermittedRoles, ItemPrecondition
    <3>4. CASE itemState[i] \in {"paused", "blocked"} /\ kind # "revise-item"
      <4>1. \/ kind = "close"
            \/ kind = "resume" /\ ~DependenciesLive(i)
            \/ kind = "defer" /\ ~DependenciesLive(i) /\ ~HasAttempt(i)
        BY <3>1, <3>4 DEF ItemOffers
      <4>2. kind = "defer" => itemState[i] = "blocked"
        BY <1>1, <3>4, <4>1 DEF ItemAttemptAgreement
      <4> QED
        BY <2>3, <3>1, <3>4, <4>1, <4>2 DEF PermittedRoles, ItemPrecondition
    <3> QED
      BY <3>1, <3>2, <3>3, <3>4 DEF ItemOffers
  <2> QED
    BY <2>1, <2>2, <2>3 DEF Roles
<1>2. ASSUME TypeOK, ItemAttemptAgreement, NEW role \in Roles, NEW i \in Items,
             NEW a \in Attempts, Holds(i, a), NEW now,
             NEW kind \in OfferedOnAttempt(role, i, a, now)
      PROVE  role \in PermittedRoles(kind) /\ AttemptPrecondition(kind, i, a)
  <2>0. itemState[i] = attemptState[a]
    BY <1>2 DEF ItemAttemptAgreement
  <2>1. CASE role = "worker"
    BY <1>2, <2>0, <2>1 DEF OfferedOnAttempt, WorkerOffers, PermittedRoles,
       AttemptPrecondition
  <2>2. CASE role = "preparer"
    BY <1>2, <2>2 DEF OfferedOnAttempt
  <2>3. CASE role = "coordinator"
    BY <1>2, <2>0, <2>3 DEF OfferedOnAttempt, AttemptOffers, PermittedRoles,
       AttemptPrecondition
  <2> QED
    BY <2>1, <2>2, <2>3 DEF Roles
<1>3. Agreement => OfferedAsAdvertised
  BY <1>1, <1>2 DEF Agreement, OfferedAsAdvertised
<1> QED
  BY <1>3, AgreementCorrect, PTL

-----------------------------------------------------------------------------
(* Nothing that is offered, shown as launchable or called immediate is a   *)
(* dead end.  What the decisions demand beyond what was looked at follows  *)
(* from the agreement of the columns, the readback and the graph.          *)

\* What may be said of an item whose claim the asker sees.
LEMMA SeenClaim ==
    ASSUME Prepared, NEW now \in 0..Horizon, Asked(now), NEW i \in Items, ClaimLive(i, now)
    PROVE  itemState[i] = "ready" /\ claim[i].pin = revision[i]
<1>1. claim[i].expires \in Nat /\ updatedAt \in Nat /\ now \in Nat
  BY BoundsAssumption DEF Prepared, Agreement, TypeOK, ClaimType
<1>2. ClaimLive(i, updatedAt)
  BY <1>1 DEF ClaimLive, Asked
<1> QED
  BY <1>2 DEF Asked, Readback, ClaimsValid

\* Every offer on an item is accepted.
LEMMA ItemOfferAccepted ==
    ASSUME Prepared, NEW now \in 0..Horizon, Asked(now), NEW role \in Roles,
           NEW i \in Items, NEW kind \in OfferedOnItem(role, i, now)
    PROVE  ItemAccepts(kind, i, now)
<1>0. Agreement /\ TypeOK /\ ItemAttemptAgreement
  BY DEF Prepared, Agreement
<1>1. CASE role = "worker"
  BY <1>1 DEF OfferedOnItem
<1>2. CASE role = "preparer"
  <2>1. kind = "activate" /\ ClaimLive(i, now) /\ itemState[i] = "ready"
    BY <1>2 DEF OfferedOnItem, PreparerOffers
  <2>2. claim[i].pin = revision[i] /\ ~HasAttempt(i)
    BY <1>0, <2>1, SeenClaim, NoAttemptOutside DEF HasAttempt
  <2> QED
    BY <2>1, <2>2 DEF ItemAccepts, CanActivate
<1>3. CASE role = "coordinator"
  <2>1. IsLive(i) /\ ~ClaimLive(i, now) /\ kind \in ItemOffers(i, now)
    BY <1>3 DEF OfferedOnItem, ItemOffers
  <2>2. CASE kind = "revise-item"
    <3>1. \A d \in dependencies[i] : Exists(d)
      BY DEF Prepared, EdgesExist
    <3>2. ~IntroducesCycle(i, dependencies[i])
      BY <1>0, OwnDependenciesAreAcyclic DEF Prepared
    <3> QED
      BY <2>1, <2>2, <3>1, <3>2 DEF ItemAccepts, CanRevise
  <2>3. CASE itemState[i] \in {"intake", "ready", "deferred"} /\ kind # "revise-item"
    <3>1. \/ itemState[i] = "intake" /\ kind \in {"mark-ready", "block-item", "defer", "close"}
          \/ itemState[i] = "ready" /\ kind \in {"defer", "close"}
          \/ itemState[i] = "deferred" /\ kind \in {"reopen", "close"}
      BY <2>1, <2>3 DEF ItemOffers
    <3>2. ~HasAttempt(i)
      BY <1>0, <2>3, NoAttemptOutside DEF HasAttempt
    <3> QED
      BY <2>1, <3>1, <3>2
      DEF ItemAccepts, CanLeaveIntake, CanDefer, CanReopen, CanCloseItem, Closable,
          LiveStates
  <2>4. CASE itemState[i] \in {"paused", "blocked"} /\ kind # "revise-item"
    <3>1. \/ kind = "close"
          \/ kind = "resume" /\ ~DependenciesLive(i)
          \/ kind = "defer" /\ ~DependenciesLive(i) /\ ~HasAttempt(i)
      BY <2>1, <2>4 DEF ItemOffers
    <3>2. CASE HasAttempt(i)
      <4>1. PICK a \in Attempts : Holds(i, a)
        BY <3>2 DEF HasAttempt
      <4>2. BothIn(i, a, "paused") \/ BothIn(i, a, "blocked")
        BY <1>0, <2>4, <4>1 DEF BothIn, ItemAttemptAgreement
      <4> QED
        BY <2>1, <2>4, <3>1, <3>2, <4>1, <4>2
        DEF ItemAccepts, CanResumeAttempt, CanCloseAttempt, Closable, LiveStates
    <3>3. CASE ~HasAttempt(i)
      <4>1. itemState[i] = "blocked"
        BY <1>0, <2>4, <3>3 DEF ItemAttemptAgreement
      <4> QED
        BY <2>1, <3>1, <3>3, <4>1
        DEF ItemAccepts, CanResumeItem, CanDefer, CanCloseItem, Closable, LiveStates
    <3> QED
      BY <3>2, <3>3
  <2> QED
    BY <2>1, <2>2, <2>3, <2>4 DEF ItemOffers
<1> QED
  BY <1>1, <1>2, <1>3 DEF Roles

\* Every offer on an attempt is accepted.
LEMMA AttemptOfferAccepted ==
    ASSUME Agreement, NEW now, NEW role \in Roles, NEW i \in Items,
           NEW a \in Attempts, Holds(i, a),
           NEW kind \in OfferedOnAttempt(role, i, a, now)
    PROVE  AttemptAccepts(kind, i, a, now)
<1>0. itemState[i] = attemptState[a]
  BY DEF Agreement, ItemAttemptAgreement
<1>1. attemptState[a] = "review" => lease[a].status # "none"
  BY DEF Agreement, ReviewCanBeReturned
<1>2. CASE role = "worker"
  BY <1>0, <1>2 DEF OfferedOnAttempt, WorkerOffers, AttemptAccepts, CanSubmit, BothIn
<1>3. CASE role = "preparer"
  BY <1>3 DEF OfferedOnAttempt
<1>4. CASE role = "coordinator"
  <2>1. kind \in AttemptOffers(i, a)
    BY <1>4 DEF OfferedOnAttempt
  <2>2. CASE itemState[i] = "active"
    BY <1>0, <2>1, <2>2 DEF AttemptOffers, AttemptAccepts, CanComplete, BothIn
  <2>3. CASE itemState[i] = "review"
    BY <1>0, <1>1, <2>1, <2>3
    DEF AttemptOffers, AttemptAccepts, CanComplete, CanReturn, CanAccept, BothIn
  <2> QED
    BY <2>1, <2>2, <2>3 DEF AttemptOffers
<1> QED
  BY <1>2, <1>3, <1>4 DEF Roles

\* Every action the catalogue offers on an item or an attempt is accepted by
\* its decision (available_actions, decide), whose checks are stricter: the
\* offers read the item's state where the decisions read the attempt's, its
\* lease, the claim's pin and the whole graph of dependencies.
THEOREM AcceptedCorrect == Spec => []OfferedIsAccepted
<1>1. Prepared => OfferedIsAccepted
  BY ItemOfferAccepted, AttemptOfferAccepted DEF OfferedIsAccepted, Prepared
<1> QED
  BY <1>1, PreparedCorrect, PTL

\* A ready item that waits for nothing can be claimed unless somebody has.
LEMMA UnclaimedIsObtainable ==
    ASSUME NEW i \in Items, NEW now, itemState[i] = "ready"
    PROVE  ClaimObtainable(i, now) <=> ~DependenciesLive(i) /\ ~ClaimLive(i, now)
  BY DEF ClaimObtainable, CanAcquireClaim, CanTransferClaim, Preparable, ClaimLive

\* What the parallel preview shows can be started, and a ready item that it
\* excludes cannot (project_parallel_preview).
THEOREM LaunchableCorrect == Spec => []LaunchableStarts
<1>1. ASSUME Agreement, NEW now \in 0..Horizon, NEW i \in Launchable(now)
      PROVE  IF itemState[i] = "ready" THEN ClaimObtainable(i, now)
             ELSE \E a \in ActiveAttempts(i) : LeaseObtainable(a, now)
  <2>1. /\ itemState[i] \in {"ready", "active"}
        /\ ~ClaimLive(i, now) /\ ~DependenciesLive(i)
        /\ \A a \in ActiveAttempts(i) : ~LeaseLive(a, now)
    BY <1>1 DEF Launchable, ExclusionReason
  <2>2. CASE itemState[i] = "ready"
    BY <2>1, <2>2, UnclaimedIsObtainable DEF Launchable
  <2>3. CASE itemState[i] = "active"
    <3>1. PICK a \in Attempts : Holds(i, a)
      BY <1>1, <2>3 DEF Launchable, Agreement, ItemAttemptAgreement, HasAttempt
    <3>2. attemptState[a] = "active" /\ a \in ActiveAttempts(i)
      BY <1>1, <2>3, <3>1
      DEF Launchable, Agreement, ItemAttemptAgreement, ActiveAttempts
    <3>3. LeaseObtainable(a, now)
      BY <2>1, <3>2 DEF LeaseObtainable, CanAcquireLease, CanTransferLease
    <3> QED
      BY <2>3, <3>2, <3>3
  <2> QED
    BY <2>1, <2>2, <2>3
<1>2. ASSUME Agreement, NEW now \in 0..Horizon, NEW i \in Items,
             itemState[i] = "ready", i \notin Launchable(now)
      PROVE  ~ClaimObtainable(i, now)
  <2>1. ActiveAttempts(i) = {}
    BY <1>2, NoAttemptOutside DEF ActiveAttempts
  <2>2. ClaimLive(i, now) \/ DependenciesLive(i)
    BY <1>2, <2>1 DEF Launchable, ExclusionReason, IsLive, LiveStates
  <2> QED
    BY <1>2, <2>2, UnclaimedIsObtainable
<1>3. Agreement => LaunchableStarts
  BY <1>1, <1>2 DEF LaunchableStarts
<1> QED
  BY <1>3, AgreementCorrect, PTL

\* Whatever the overview calls immediate can move now (project_overview).
THEOREM ImmediateCorrect == Spec => []ImmediateCanMove
<1>1. ASSUME Agreement, NEW now \in 0..Horizon, NEW i \in Immediate(now)
      PROVE  \/ ItemOffers(i, now) \cap {"mark-ready", "reopen", "resume"} # {}
             \/ ClaimObtainable(i, now)
  <2>1. /\ i \in Items /\ IsLive(i) /\ ~DependenciesLive(i)
        /\ PreparationStatus(i, now) # "active"
        /\ itemState[i] \in ImmediateStates
    BY <1>1 DEF Immediate, Eligible
  <2>2. claim[i].expires \in Nat /\ now \in Nat
    BY <1>1, <2>1, BoundsAssumption DEF Agreement, TypeOK, ClaimType
  <2>3. ~ClaimLive(i, now)
    BY <2>1, <2>2 DEF PreparationStatus, ClaimLive
  <2>4. CASE itemState[i] = "ready"
    BY <2>1, <2>3, <2>4, UnclaimedIsObtainable
  <2>5. CASE itemState[i] = "intake"
    BY <2>1, <2>3, <2>5, "mark-ready" \in ItemOffers(i, now) DEF ItemOffers
  <2>6. CASE itemState[i] = "deferred"
    BY <2>1, <2>3, <2>6, "reopen" \in ItemOffers(i, now) DEF ItemOffers
  <2>7. CASE itemState[i] \in {"paused", "blocked"}
    BY <2>1, <2>3, <2>7, "resume" \in ItemOffers(i, now) DEF ItemOffers
  <2> QED
    BY <2>1, <2>4, <2>5, <2>6, <2>7 DEF ImmediateStates
<1>2. Agreement => ImmediateCanMove
  BY <1>1 DEF ImmediateCanMove
<1> QED
  BY <1>2, AgreementCorrect, PTL

=============================================================================
