-------------------------- MODULE WorkLedgerProofs --------------------------
(***************************************************************************)
(* Proofs about WorkLedger for every set of items and attempts and every   *)
(* value of the bounds: type correctness, the agreement between the        *)
(* columns of an item, its attempt, the attempt's lease and its candidate, *)
(* and that what is terminal is final.                                     *)
(***************************************************************************)
EXTENDS WorkLedger, TLAPS

-----------------------------------------------------------------------------
(* Type correctness.                                                       *)

\* The empty ledger is well typed.
LEMMA InitType == Init => TypeOK
  BY BoundsAssumption DEF Init, TypeOK, NoClaim, NoLease, ClaimType, LeaseType,
     LeaseStatuses, AttemptStates

\* The records written into the lease columns are well typed.
LEMMA LeaseRecordTypes ==
    /\ EndedClaim \in ClaimType
    /\ EndedLease \in LeaseType
    /\ \A t \in Nat, r \in Nat :
          [status |-> "active", expires |-> t, pin |-> r] \in ClaimType
    /\ \A t \in Nat : [status |-> "active", expires |-> t] \in LeaseType
  BY DEF EndedClaim, EndedLease, ClaimType, LeaseType, LeaseStatuses

\* Item transitions and definition revisions keep the types.
LEMMA ItemMutationType ==
    ASSUME TypeOK, NEW now \in Nat, NEW i \in Items, ItemMutation(i, now)
    PROVE  TypeOK'
<1> USE DEF Commit, SetItemState, ItemTransition, attemptVars, TypeOK,
        LiveStates, TerminalStates
<1>1. CASE MarkReady(i, now)
  BY <1>1 DEF MarkReady
<1>2. CASE BlockItem(i, now)
  BY <1>2 DEF BlockItem
<1>3. CASE Defer(i, now)
  BY <1>3 DEF Defer
<1>4. CASE Reopen(i, now)
  BY <1>4 DEF Reopen
<1>5. CASE ResumeItem(i, now)
  BY <1>5 DEF ResumeItem
<1>6. ASSUME NEW outcome \in CloseOutcomes, CloseItem(i, now, outcome)
      PROVE  TypeOK'
  BY <1>6 DEF CloseItem, CloseOutcomes
<1>7. ASSUME NEW D \in SUBSET Items, ReviseItem(i, now, D)
      PROVE  TypeOK'
  BY <1>7 DEF ReviseItem
<1> QED
  BY <1>1, <1>2, <1>3, <1>4, <1>5, <1>6, <1>7 DEF ItemMutation

\* Proposal creation and disposition keep the types.
LEMMA ProposalMutationType ==
    ASSUME TypeOK, NEW now \in Nat, NEW i \in Items, ProposalMutation(i, now)
    PROVE  TypeOK'
<1> USE DEF Commit, SetItemState, CreateProposal, DisposeProposal, attemptVars,
        TypeOK, LiveStates, TerminalStates
<1>1. CASE CreateUnrelated(i, now)
  BY <1>1 DEF CreateUnrelated
<1>2. ASSUME NEW target \in Items, CreateFollowUp(i, now, target)
      PROVE  TypeOK'
  BY <1>2 DEF CreateFollowUp
<1>3. ASSUME NEW target \in Items, CreatePrerequisite(i, now, target)
      PROVE  TypeOK'
  BY <1>3 DEF CreatePrerequisite
<1>4. ASSUME NEW after \in AcceptedStates, NEW extra \in SUBSET Items,
             AcceptProposal(i, now, after, extra)
      PROVE  TypeOK'
  BY <1>4 DEF AcceptProposal, AcceptedStates
<1>5. ASSUME NEW target \in Items, MergeProposal(i, now, target)
      PROVE  TypeOK'
  BY <1>5 DEF MergeProposal
<1>6. CASE RejectProposal(i, now)
  BY <1>6 DEF RejectProposal
<1>7. CASE ReturnProposal(i, now)
  BY <1>7 DEF ReturnProposal
<1> QED
  BY <1>1, <1>2, <1>3, <1>4, <1>5, <1>6, <1>7 DEF ProposalMutation

\* Operations on preparation claims keep the types.
LEMMA ClaimMutationType ==
    ASSUME TypeOK, NEW now \in Nat, NEW i \in Items, ClaimMutation(i, now)
    PROVE  TypeOK'
<1>1. ASSUME NEW c \in ClaimType, ClaimChange(i, now, c)
      PROVE  TypeOK'
  BY <1>1 DEF ClaimChange, Commit, itemVars, attemptVars, TypeOK
<1>2. claim[i].pin \in Nat /\ revision[i] \in Nat
  BY DEF TypeOK, ClaimType
<1>3. \A d \in Durations : now + d \in Nat
  BY DurationsAssumption
<1>4. \E c \in ClaimType : ClaimChange(i, now, c)
  BY <1>2, <1>3, LeaseRecordTypes
  DEF ClaimMutation, AcquireClaim, TransferClaim, GrantClaim, RenewClaim,
      ReleaseClaim, RevokeClaim
<1> QED
  BY <1>1, <1>4

\* Operations on worker leases keep the types.
LEMMA LeaseMutationType ==
    ASSUME TypeOK, NEW now \in Nat, NEW a \in Attempts, LeaseMutation(a, now)
    PROVE  TypeOK'
<1>1. ASSUME NEW l \in LeaseType, LeaseChange(a, now, l)
      PROVE  TypeOK'
  BY <1>1 DEF LeaseChange, Commit, itemVars, attemptVars, TypeOK
<1>2. \A d \in Durations : now + d \in Nat
  BY DurationsAssumption
<1>3. \E l \in LeaseType : LeaseChange(a, now, l)
  BY <1>2, LeaseRecordTypes
  DEF LeaseMutation, AcquireLease, TransferLease, RenewLease, GrantedLease,
      ReleaseLease, RevokeLease
<1> QED
  BY <1>1, <1>3

\* Activation, and transitions of an item with its attempt, keep the types.
LEMMA AttemptMutationType ==
    ASSUME TypeOK, NEW now \in Nat, NEW i \in Items, NEW a \in Attempts,
           AttemptMutation(i, a, now)
    PROVE  TypeOK'
<1> USE LeaseRecordTypes
    DEF Commit, SetItemState, SetAttemptState, AttemptTransition, TypeOK,
        LiveStates, TerminalStates, AttemptStates
<1>1. CASE Activate(i, a, now)
  BY <1>1 DEF Activate
<1>2. CASE SubmitReview(i, a, now)
  BY <1>2 DEF SubmitReview
<1>3. CASE Pause(i, a, now)
  BY <1>3 DEF Pause
<1>4. CASE BlockAttempt(i, a, now)
  BY <1>4 DEF BlockAttempt
<1>5. ASSUME NEW rebrief \in BOOLEAN, ResumeAttempt(i, a, now, rebrief)
      PROVE  TypeOK'
  BY <1>5 DEF ResumeAttempt
<1>6. CASE Complete(i, a, now)
  BY <1>6 DEF Complete, FenceRetained
<1>7. ASSUME NEW outcome \in CloseOutcomes, CloseAttempt(i, a, now, outcome)
      PROVE  TypeOK'
  BY <1>7 DEF CloseAttempt, CloseOutcomes, FenceRetained
<1>8. CASE ReturnForCorrection(i, a, now)
  BY <1>8 DEF ReturnForCorrection, FenceRequired
<1>9. CASE AcceptCheckpoint(i, a, now)
  BY <1>9 DEF AcceptCheckpoint, FenceRequired
<1>10. CASE AcceptReviewAndContinue(i, a, now)
  BY <1>10 DEF AcceptReviewAndContinue, FenceRequired
<1> QED
  BY <1>1, <1>2, <1>3, <1>4, <1>5, <1>6, <1>7, <1>8, <1>9, <1>10
  DEF AttemptMutation

\* Every step of the ledger keeps the types.
LEMMA NextType == TypeOK /\ [Next]_vars => TypeOK'
<1> SUFFICES ASSUME TypeOK, [Next]_vars PROVE TypeOK'
  OBVIOUS
<1>1. CASE Tick
  BY <1>1 DEF Tick, TypeOK, itemVars, attemptVars
<1>2. ASSUME NEW now \in 0..Horizon, Mutation(now)
      PROVE  TypeOK'
  <2>1. now \in Nat
    BY BoundsAssumption
  <2> QED
    BY <1>2, <2>1, ItemMutationType, ProposalMutationType, ClaimMutationType,
       AttemptMutationType, LeaseMutationType DEF Mutation
<1>3. CASE UNCHANGED vars
  BY <1>3 DEF vars, timeVars, itemVars, attemptVars, TypeOK
<1> QED
  BY <1>1, <1>2, <1>3 DEF Next

\* Every reachable ledger is well typed: no decision writes a state outside
\* the column's declared domain, whatever the interleaving.
THEOREM TypeCorrect == Spec => []TypeOK
<1>1. Init => TypeOK
  BY InitType
<1>2. TypeOK /\ [Next]_vars => TypeOK'
  BY NextType
<1> QED
  BY <1>1, <1>2, PTL DEF Spec

-----------------------------------------------------------------------------
(* Agreement of the columns.  The invariants the runs check are not        *)
(* inductive alone: a second attempt is impossible only because a done     *)
(* attempt belongs to a terminal item, and a candidate answers a real      *)
(* definition only because no live attempt was accepted at revision 0.     *)

Presence == \A i \in Items : itemState[i] = "absent" <=> revision[i] = 0

AttemptPresence ==
    \A a \in Attempts :
        /\ attemptItem[a] = NoItem <=> attemptState[a] = "unused"
        /\ attemptState[a] = "unused" => lease[a].status = "none"
        /\ attemptState[a] # "unused" => scope[a] # 0

DoneIsTerminal ==
    \A a \in Attempts :
        attemptState[a] = "done" => itemState[attemptItem[a]] \in TerminalStates

Agreement ==
    /\ TypeOK
    /\ Presence
    /\ AttemptPresence
    /\ DoneIsTerminal
    /\ ItemAttemptAgreement
    /\ OneAttemptEver
    /\ ReviewCanBeReturned
    /\ DoneAttemptIsFenced
    /\ CandidateOnlyInReview

\* The empty ledger agrees with itself.
LEMMA InitAgreement == Init => Agreement
<1> SUFFICES ASSUME Init PROVE Agreement
  OBVIOUS
<1>1. TypeOK
  BY InitType
<1>2. \A a \in Attempts : attemptState[a] = "unused" /\ attemptItem[a] = NoItem
                          /\ candidate[a] = 0 /\ lease[a].status = "none"
  BY DEF Init, NoLease
<1>3. \A i \in Items : itemState[i] = "absent" /\ revision[i] = 0
  BY DEF Init
<1> QED
  BY <1>1, <1>2, <1>3
  DEF Agreement, Presence, AttemptPresence, DoneIsTerminal, HasAttempt, Holds,
      ItemAttemptAgreement, OneAttemptEver, ReviewCanBeReturned,
      DoneAttemptIsFenced, CandidateOnlyInReview

\* An item outside the attempt states has no attempt to disagree with.
LEMMA NoAttemptOutside ==
    ASSUME Agreement, NEW i \in Items, NEW a \in Attempts,
           itemState[i] \notin {"active", "paused", "blocked", "review"}
    PROVE  ~Holds(i, a)
  BY DEF Agreement, ItemAttemptAgreement, Holds, TypeOK, AttemptStates

\* A step that moves one live item without an attempt, or creates it, among
\* the states that need no attempt keeps the agreement.
LEMMA ItemStep ==
    ASSUME Agreement, TypeOK', Presence', NEW i \in Items,
           NEW after \in {"intake", "ready", "blocked", "deferred",
                          "done", "dropped", "superseded"},
           itemState[i] \notin TerminalStates,
           \A a \in Attempts : ~Holds(i, a),
           itemState' = [itemState EXCEPT ![i] = after],
           UNCHANGED <<attemptVars, lease>>
    PROVE  Agreement'
<1> USE DEF Agreement, attemptVars, TypeOK, Holds, HasAttempt
<1>1. AttemptPresence' /\ OneAttemptEver' /\ ReviewCanBeReturned'
      /\ DoneAttemptIsFenced' /\ CandidateOnlyInReview'
  BY DEF AttemptPresence, OneAttemptEver, ReviewCanBeReturned,
         DoneAttemptIsFenced, CandidateOnlyInReview
<1>2. DoneIsTerminal'
  BY DEF DoneIsTerminal
<1>3. ItemAttemptAgreement'
  BY DEF ItemAttemptAgreement
<1> QED
  BY <1>1, <1>2, <1>3

\* A step that leaves items and attempts alone, and worker leases too but
\* for granting or ending one that a live attempt may have, keeps it.
LEMMA LeaseStep ==
    ASSUME Agreement, TypeOK', UNCHANGED <<itemVars, attemptVars>>,
           \A a \in Attempts :
              \/ lease'[a] = lease[a]
              \/ /\ lease'[a].status = "ended"
                 /\ lease[a].status # "none"
              \/ /\ lease'[a].status = "active"
                 /\ \/ lease[a].status = "active"
                    \/ attemptState[a] \notin {"unused", "done"}
    PROVE  Agreement'
<1> USE DEF Agreement, itemVars, attemptVars
<1>1. Presence' /\ DoneIsTerminal' /\ ItemAttemptAgreement' /\ OneAttemptEver'
      /\ CandidateOnlyInReview'
  BY DEF Presence, DoneIsTerminal, ItemAttemptAgreement, OneAttemptEver,
         CandidateOnlyInReview, HasAttempt, Holds
<1>2. AttemptPresence' /\ ReviewCanBeReturned' /\ DoneAttemptIsFenced'
  BY DEF AttemptPresence, ReviewCanBeReturned, DoneAttemptIsFenced
<1> QED
  BY <1>1, <1>2

\* A step that moves an item together with its attempt keeps the agreement
\* when both move to the same live state or both become terminal, the attempt
\* keeps a scope, and the lease satisfies what the new state asks of it.
LEMMA AttemptStep ==
    ASSUME Agreement, TypeOK', NEW i \in Items, NEW a \in Attempts, NEW now,
           NEW itemAfter, NEW attemptAfter, Holds(i, a),
           AttemptTransition(i, a, now, itemAfter, attemptAfter),
           \/ itemAfter = attemptAfter
              /\ itemAfter \in {"active", "paused", "blocked", "review"}
           \/ itemAfter \in CloseOutcomes /\ attemptAfter = "done",
           \A b \in Attempts : (b # a => scope'[b] = scope[b]) /\ scope'[a] # 0,
           attemptAfter = "review" => scope' = scope,
           \A b \in Attempts : b # a => lease'[b] = lease[b],
           attemptAfter = "review" => lease'[a].status # "none",
           attemptAfter = "done" => lease'[a].status # "active"
    PROVE  Agreement'
<1> USE DEF Agreement, AttemptTransition, SetItemState, SetAttemptState, TypeOK,
        Holds, CloseOutcomes
<1>0. itemState[i] \in {"active", "paused", "blocked", "review"}
  BY DEF ItemAttemptAgreement, AttemptStates
<1>1. Presence'
  BY <1>0 DEF Presence, TerminalStates, LiveStates
<1>2. AttemptPresence'
  BY DEF AttemptPresence
<1>3. DoneIsTerminal'
  <2>1. \A b \in Attempts : b # a => attemptItem[b] # i
    BY DEF OneAttemptEver, AttemptPresence
  <2>2. \A b \in Attempts : attemptState[b] = "done" => attemptItem[b] \in Items
    BY DEF AttemptPresence
  <2> QED
    BY <2>1, <2>2 DEF DoneIsTerminal, TerminalStates
<1>4. ItemAttemptAgreement'
  <2>1. \A b \in Attempts : Holds(i, b) => b = a
    BY ItemsAssumption DEF OneAttemptEver
  <2> QED
    BY <2>1 DEF ItemAttemptAgreement, HasAttempt
<1>5. OneAttemptEver'
  BY DEF OneAttemptEver
<1>6. ReviewCanBeReturned'
  BY DEF ReviewCanBeReturned
<1>7. DoneAttemptIsFenced'
  BY DEF DoneAttemptIsFenced
<1>8. CandidateOnlyInReview'
  BY DEF CandidateOnlyInReview, AttemptPresence
<1> QED
  BY <1>1, <1>2, <1>3, <1>4, <1>5, <1>6, <1>7, <1>8

\* Activation keeps the agreement: an item that is ready never had an attempt.
LEMMA ActivateStep ==
    ASSUME Agreement, TypeOK', NEW i \in Items, NEW a \in Attempts, NEW now,
           Activate(i, a, now)
    PROVE  Agreement'
<1> USE ItemsAssumption DEF Agreement, Activate, CanActivate, SetItemState, SetAttemptState, TypeOK, Holds
<1>1. \A b \in Attempts : attemptItem[b] # i
  <2>1. itemState[i] = "ready"
    OBVIOUS
  <2>2. \A b \in Attempts : ~Holds(i, b)
    BY <2>1, NoAttemptOutside
  <2>3. \A b \in Attempts : attemptItem[b] = i => attemptState[b] # "done"
    BY <2>1 DEF DoneIsTerminal, TerminalStates
  <2>4. \A b \in Attempts : attemptItem[b] = i => attemptState[b] # "unused"
    BY DEF AttemptPresence
  <2> QED
    BY <2>2, <2>3, <2>4
<1>2. Presence' /\ revision[i] # 0
  BY DEF Presence
<1>3. AttemptPresence'
  BY <1>2 DEF AttemptPresence
<1>4. DoneIsTerminal'
  BY <1>1 DEF DoneIsTerminal, AttemptPresence, TerminalStates
<1>5. ItemAttemptAgreement'
  BY <1>1 DEF ItemAttemptAgreement, HasAttempt
<1>6. OneAttemptEver'
  BY <1>1 DEF OneAttemptEver
<1>7. ReviewCanBeReturned' /\ DoneAttemptIsFenced'
  BY DEF ReviewCanBeReturned, DoneAttemptIsFenced
<1>8. CandidateOnlyInReview'
  BY DEF CandidateOnlyInReview
<1> QED
  BY <1>2, <1>3, <1>4, <1>5, <1>6, <1>7, <1>8

\* Item transitions and definition revisions keep the agreement.
LEMMA ItemMutationAgreement ==
    ASSUME Agreement, TypeOK', NEW now \in Nat, NEW i \in Items,
           ItemMutation(i, now)
    PROVE  Agreement'
<1> DEFINE States == {"intake", "ready", "blocked", "deferred",
                      "done", "dropped", "superseded"}
<1>1. ASSUME NEW after \in States, ItemTransition(i, now, after),
             IsLive(i), \A a \in Attempts : ~Holds(i, a)
      PROVE  Agreement'
  <2>1. itemState' = [itemState EXCEPT ![i] = after]
        /\ UNCHANGED <<revision, attemptVars, lease>>
    BY <1>1 DEF ItemTransition, SetItemState
  <2>2. itemState[i] \notin TerminalStates
    BY <1>1 DEF IsLive, LiveStates, TerminalStates
  <2>3. Presence'
    BY <2>1, <1>1 DEF Agreement, Presence, TypeOK, IsLive, LiveStates
  <2> QED
    BY <2>1, <2>2, <2>3, <1>1, ItemStep
<1>2. CASE MarkReady(i, now)
  BY <1>2, <1>1, NoAttemptOutside DEF MarkReady, CanLeaveIntake, IsLive, LiveStates
<1>3. CASE BlockItem(i, now)
  BY <1>3, <1>1, NoAttemptOutside DEF BlockItem, CanLeaveIntake, IsLive, LiveStates
<1>4. CASE Defer(i, now)
  BY <1>4, <1>1 DEF Defer, CanDefer, HasAttempt, IsLive, LiveStates
<1>5. CASE Reopen(i, now)
  BY <1>5, <1>1, NoAttemptOutside DEF Reopen, CanReopen, IsLive, LiveStates
<1>6. CASE ResumeItem(i, now)
  BY <1>6, <1>1 DEF ResumeItem, CanResumeItem, HasAttempt, IsLive, LiveStates
<1>7. ASSUME NEW outcome \in CloseOutcomes, CloseItem(i, now, outcome)
      PROVE  Agreement'
  BY <1>7, <1>1 DEF CloseItem, CanCloseItem, Closable, CloseOutcomes, HasAttempt, IsLive
<1>8. ASSUME NEW D \in SUBSET Items, ReviseItem(i, now, D)
      PROVE  Agreement'
  <2>1. Presence'
    BY <1>8 DEF ReviseItem, CanRevise, Agreement, Presence, TypeOK, IsLive, LiveStates
  <2>2. UNCHANGED <<itemState, attemptVars, lease>>
    BY <1>8 DEF ReviseItem
  <2> QED
    BY <2>1, <2>2
    DEF Agreement, attemptVars, AttemptPresence, DoneIsTerminal,
        ItemAttemptAgreement, OneAttemptEver, ReviewCanBeReturned,
        DoneAttemptIsFenced, CandidateOnlyInReview, HasAttempt, Holds
<1> QED
  BY <1>2, <1>3, <1>4, <1>5, <1>6, <1>7, <1>8 DEF ItemMutation

\* Creating and disposing of proposals keeps the agreement.
LEMMA ProposalMutationAgreement ==
    ASSUME Agreement, TypeOK', NEW now \in Nat, NEW i \in Items,
           ProposalMutation(i, now)
    PROVE  Agreement'
<1>1. ASSUME CreateProposal(i, now), Presence'
      PROVE  Agreement'
  <2>1. itemState[i] = "absent"
    BY <1>1 DEF CreateProposal, Exists
  <2>2. \A a \in Attempts : ~Holds(i, a)
    BY <2>1, NoAttemptOutside
  <2> QED
    BY <1>1, <2>1, <2>2, ItemStep
    DEF CreateProposal, SetItemState, TerminalStates
<1>2. ASSUME DisposeProposal(i, now), Presence',
             NEW after \in AcceptedStates \cup {"superseded", "dropped"},
             SetItemState(i, after)
      PROVE  Agreement'
  <2>1. itemState[i] = "intake"
    BY <1>2 DEF DisposeProposal, CurrentIntakeProposal
  <2>2. \A a \in Attempts : ~Holds(i, a)
    BY <2>1, NoAttemptOutside
  <2> QED
    BY <1>2, <2>1, <2>2, ItemStep
    DEF DisposeProposal, SetItemState, TerminalStates, AcceptedStates
<1> USE DEF Agreement, Presence, TypeOK, SetItemState
<1>3. CASE CreateUnrelated(i, now)
  BY <1>3, <1>1 DEF CreateUnrelated, CreateProposal
<1>4. ASSUME NEW target \in Items, CreateFollowUp(i, now, target)
      PROVE  Agreement'
  BY <1>4, <1>1 DEF CreateFollowUp, CreateProposal
<1>5. ASSUME NEW target \in Items, CreatePrerequisite(i, now, target)
      PROVE  Agreement'
  BY <1>5, <1>1 DEF CreatePrerequisite, CreateProposal, IsLive, LiveStates,
                    Exists
<1>6. ASSUME NEW after \in AcceptedStates, NEW extra \in SUBSET Items,
             AcceptProposal(i, now, after, extra)
      PROVE  Agreement'
  <2>1. Presence'
    BY <1>6 DEF AcceptProposal, DisposeProposal, CurrentIntakeProposal,
                AcceptedStates
  <2> QED
    BY <1>6, <2>1, <1>2 DEF AcceptProposal
<1>7. ASSUME NEW target \in Items, MergeProposal(i, now, target)
      PROVE  Agreement'
  BY <1>7, <1>2 DEF MergeProposal, DisposeProposal, CurrentIntakeProposal
<1>8. CASE RejectProposal(i, now)
  BY <1>8, <1>2 DEF RejectProposal, DisposeProposal, CurrentIntakeProposal
<1>9. CASE ReturnProposal(i, now)
  BY <1>9
  DEF ReturnProposal, DisposeProposal, attemptVars, AttemptPresence,
      DoneIsTerminal, ItemAttemptAgreement, OneAttemptEver,
      ReviewCanBeReturned, DoneAttemptIsFenced, CandidateOnlyInReview,
      HasAttempt, Holds
<1> QED
  BY <1>3, <1>4, <1>5, <1>6, <1>7, <1>8, <1>9 DEF ProposalMutation

\* Operations on preparation claims keep the agreement: it reads no claim.
LEMMA ClaimMutationAgreement ==
    ASSUME Agreement, TypeOK', NEW now \in Nat, NEW i \in Items,
           ClaimMutation(i, now)
    PROVE  Agreement'
<1>1. UNCHANGED <<itemVars, attemptVars, lease>>
  BY DEF ClaimMutation, AcquireClaim, TransferClaim, GrantClaim, RenewClaim,
         ReleaseClaim, RevokeClaim, ClaimChange
<1> QED
  BY <1>1, LeaseStep

\* Operations on worker leases keep the agreement.
LEMMA LeaseMutationAgreement ==
    ASSUME Agreement, TypeOK', NEW now \in Nat, NEW a \in Attempts,
           LeaseMutation(a, now)
    PROVE  Agreement'
<1> USE DEF Agreement, TypeOK, LeaseChange
<1>1. ASSUME NEW duration \in Durations,
             \/ AcquireLease(a, now, duration)
             \/ TransferLease(a, now, duration)
             \/ RenewLease(a, now, duration)
      PROVE  Agreement'
  BY <1>1, LeaseStep
  DEF AcquireLease, CanAcquireLease, TransferLease, CanTransferLease, RenewLease,
      GrantedLease, LeaseLive
<1>2. CASE ReleaseLease(a, now) \/ RevokeLease(a, now)
  BY <1>2, LeaseStep DEF ReleaseLease, RevokeLease, EndedLease, LeaseLive
<1> QED
  BY <1>1, <1>2 DEF LeaseMutation

\* Activation, and transitions of an item with its attempt, keep it.
LEMMA AttemptMutationAgreement ==
    ASSUME Agreement, TypeOK', NEW now \in Nat, NEW i \in Items,
           NEW a \in Attempts, AttemptMutation(i, a, now)
    PROVE  Agreement'
<1>1. CASE Activate(i, a, now)
  BY <1>1, ActivateStep
<1>2. scope[a] # 0 \/ ~Holds(i, a)
  BY DEF Agreement, AttemptPresence, Holds
<1>3. revision[i] # 0 \/ ~Holds(i, a)
  BY DEF Agreement, Presence, ItemAttemptAgreement, Holds, TypeOK,
         AttemptStates
<1> USE DEF AttemptTransition, CloseOutcomes, EndedLease, Agreement, TypeOK
<1>4. CASE SubmitReview(i, a, now)
  <2>1. lease[a].status = "active" /\ UNCHANGED <<scope, lease>>
    BY <1>4 DEF SubmitReview, CanSubmit, LeaseLive
  <2>2. Holds(i, a) /\ AttemptTransition(i, a, now, "review", "review")
    BY <1>4 DEF SubmitReview, CanSubmit, BothIn
  <2> QED
    BY <2>1, <2>2, <1>2, AttemptStep
<1>5. CASE Pause(i, a, now)
  BY <1>5, <1>2, AttemptStep DEF Pause, BothIn
<1>6. CASE BlockAttempt(i, a, now)
  BY <1>6, <1>2, AttemptStep DEF BlockAttempt, BothIn
<1>7. ASSUME NEW rebrief \in BOOLEAN, ResumeAttempt(i, a, now, rebrief)
      PROVE  Agreement'
  <2>1. \A b \in Attempts : (b # a => scope'[b] = scope[b]) /\ scope'[a] # 0
    BY <1>2, <1>3, <1>7 DEF ResumeAttempt, CanResumeAttempt, BothIn
  <2> QED
    BY <1>7, <2>1, AttemptStep DEF ResumeAttempt, CanResumeAttempt, BothIn
<1>8. CASE Complete(i, a, now)
  BY <1>8, <1>2, AttemptStep
  DEF Complete, CanComplete, BothIn, FenceRetained
<1>9. ASSUME NEW outcome \in CloseOutcomes, CloseAttempt(i, a, now, outcome)
      PROVE  Agreement'
  BY <1>9, <1>2, AttemptStep DEF CloseAttempt, CanCloseAttempt, FenceRetained
<1>10. CASE ReturnForCorrection(i, a, now)
  BY <1>10, <1>2, AttemptStep
  DEF ReturnForCorrection, CanReturn, BothIn, FenceRequired
<1>11. CASE AcceptCheckpoint(i, a, now)
  BY <1>11, <1>2, AttemptStep
  DEF AcceptCheckpoint, CanAccept, BothIn, FenceRequired
<1>12. CASE AcceptReviewAndContinue(i, a, now)
  BY <1>12, <1>2, AttemptStep
  DEF AcceptReviewAndContinue, CanAccept, BothIn, FenceRequired
<1> QED
  BY <1>1, <1>4, <1>5, <1>6, <1>7, <1>8, <1>9, <1>10, <1>11, <1>12
  DEF AttemptMutation

\* Every step of the ledger keeps the agreement.
LEMMA NextAgreement == Agreement /\ [Next]_vars => Agreement'
<1> SUFFICES ASSUME Agreement, [Next]_vars PROVE Agreement'
  OBVIOUS
<1>1. TypeOK'
  BY NextType DEF Agreement
<1>2. CASE Tick \/ UNCHANGED vars
  BY <1>1, <1>2, LeaseStep DEF Tick, vars
<1>3. ASSUME NEW now \in 0..Horizon, Mutation(now)
      PROVE  Agreement'
  <2>1. now \in Nat
    BY BoundsAssumption
  <2> QED
    BY <1>1, <1>3, <2>1, ItemMutationAgreement, ProposalMutationAgreement,
       ClaimMutationAgreement, AttemptMutationAgreement, LeaseMutationAgreement
    DEF Mutation
<1> QED
  BY <1>2, <1>3 DEF Next

\* The columns of every item, its attempt, that attempt's lease and its
\* candidate agree in every reachable ledger.
THEOREM AgreementCorrect == Spec => []Agreement
<1>1. Init => Agreement
  BY InitAgreement
<1>2. Agreement /\ [Next]_vars => Agreement'
  BY NextAgreement
<1> QED
  BY <1>1, <1>2, PTL DEF Spec

\* The state columns of an item and of its attempt never disagree.
THEOREM AttemptAgreementCorrect == Spec => []ItemAttemptAgreement
<1>1. Agreement => ItemAttemptAgreement
  BY DEF Agreement
<1> QED
  BY <1>1, AgreementCorrect, PTL

\* No item ever has a second attempt, not even after the first is done.
THEOREM OneAttemptCorrect == Spec => []OneAttemptEver
<1>1. Agreement => OneAttemptEver
  BY DEF Agreement
<1> QED
  BY <1>1, AgreementCorrect, PTL

\* Every attempt in review retains the lease its return requires.
THEOREM ReviewReturnCorrect == Spec => []ReviewCanBeReturned
<1>1. Agreement => ReviewCanBeReturned
  BY DEF Agreement
<1> QED
  BY <1>1, AgreementCorrect, PTL

\* No worker drives an attempt that is done.
THEOREM DoneFencedCorrect == Spec => []DoneAttemptIsFenced
<1>1. Agreement => DoneAttemptIsFenced
  BY DEF Agreement
<1> QED
  BY <1>1, AgreementCorrect, PTL

\* A candidate is protected in review only, and answers the accepted scope.
THEOREM CandidateCorrect == Spec => []CandidateOnlyInReview
<1>1. Agreement => CandidateOnlyInReview
  BY DEF Agreement
<1> QED
  BY <1>1, AgreementCorrect, PTL

-----------------------------------------------------------------------------
(* Action properties.                                                      *)

\* Review accepts only a candidate that answers the current definition,
\* however many revisions were committed while it waited.
THEOREM AcceptedCandidateCorrect == Spec => AcceptedCandidateIsCurrent
<1> DEFINE Current == \A i \in Items, a \in Attempts :
                         (\E now \in 0..Horizon : AcceptsReview(i, a, now)) =>
                             candidate[a] = revision[i]
<1>1. Agreement => Current
  BY DEF Agreement, CandidateOnlyInReview, ItemAttemptAgreement, AcceptsReview,
         Complete, CanComplete, AcceptCheckpoint, AcceptReviewAndContinue,
         CanAccept, BothIn, DefinitionStale
<1>2. Spec => []Agreement
  BY AgreementCorrect
<1>3. [][Agreement /\ [Next]_vars => Current]_vars
  BY <1>1, PTL
<1> QED
  BY <1>1, <1>2, PTL DEF AcceptedCandidateIsCurrent, Spec

-----------------------------------------------------------------------------
(* Terminal items.  Nothing guards a terminal item as such; what is final  *)
(* follows from what every decision demands of the item it moves.          *)

\* One step that leaves terminal items and their attempts as they are.
FinalStep ==
    \A i \in Items : itemState[i] \in TerminalStates =>
        /\ itemState'[i] = itemState[i]
        /\ revision'[i] = revision[i]
        /\ dependencies'[i] = dependencies[i]
        /\ \A a \in Attempts :
              attemptItem[a] = i \/ attemptItem'[a] = i =>
                  attemptState'[a] = attemptState[a] /\ scope'[a] = scope[a]

\* A step that moves only items that are not terminal, and no attempt.
LEMMA ItemsFinal ==
    ASSUME TypeOK, NEW S \in SUBSET Items,
           \A i \in S : itemState[i] \notin TerminalStates,
           \A i \in Items \ S : /\ itemState'[i] = itemState[i]
                                /\ revision'[i] = revision[i]
                                /\ dependencies'[i] = dependencies[i],
           UNCHANGED attemptVars
    PROVE  FinalStep
  BY DEF FinalStep, attemptVars

\* A step of one item that is not terminal and one attempt that is its own.
LEMMA AttemptsFinal ==
    ASSUME TypeOK, NEW i \in Items, NEW a \in Attempts,
           itemState[i] \notin TerminalStates,
           UNCHANGED <<revision, dependencies>>,
           \A j \in Items \ {i} : itemState'[j] = itemState[j],
           \A b \in Attempts \ {a} : /\ attemptItem'[b] = attemptItem[b]
                                     /\ attemptState'[b] = attemptState[b]
                                     /\ scope'[b] = scope[b],
           attemptItem[a] \in {i, NoItem}, attemptItem'[a] = i
    PROVE  FinalStep
  BY ItemsAssumption DEF FinalStep

\* What the coordinator does to an item, it does to a live one.
LEMMA ItemMutationFinal ==
    ASSUME TypeOK, NEW now, NEW i \in Items, ItemMutation(i, now)
    PROVE  FinalStep
<1>1. CASE \E after : ItemTransition(i, now, after) /\ itemState[i] \in LiveStates
  <2>1. itemState[i] \notin TerminalStates
    BY <1>1 DEF LiveStates, TerminalStates
  <2>2. \A j \in Items \ {i} : itemState'[j] = itemState[j]
    BY <1>1 DEF ItemTransition, SetItemState, TypeOK
  <2>3. UNCHANGED <<revision, dependencies, attemptVars>>
    BY <1>1 DEF ItemTransition
  <2> QED
    BY <2>1, <2>2, <2>3, ItemsFinal, {i} \in SUBSET Items
<1>2. ASSUME NEW D \in SUBSET Items, ReviseItem(i, now, D)
      PROVE  FinalStep
  <2>1. itemState[i] \notin TerminalStates
    BY <1>2 DEF ReviseItem, CanRevise, IsLive, LiveStates, TerminalStates
  <2>2. /\ UNCHANGED <<itemState, attemptVars>>
        /\ \A j \in Items \ {i} : /\ revision'[j] = revision[j]
                                  /\ dependencies'[j] = dependencies[j]
    BY <1>2 DEF ReviseItem, TypeOK
  <2> QED
    BY <2>1, <2>2, ItemsFinal, {i} \in SUBSET Items
<1>3. (\E D \in SUBSET Items : ReviseItem(i, now, D))
      \/ \E after : ItemTransition(i, now, after) /\ itemState[i] \in LiveStates
  BY DEF ItemMutation, MarkReady, BlockItem, CanLeaveIntake, Defer, CanDefer,
         Reopen, CanReopen, ResumeItem, CanResumeItem, CloseItem, CanCloseItem,
         Closable, LiveStates
<1> QED
  BY <1>1, <1>2, <1>3

\* A proposal's item is new or in intake, and only a live target is revised.
LEMMA ProposalMutationFinal ==
    ASSUME TypeOK, NEW now, NEW i \in Items, ProposalMutation(i, now)
    PROVE  FinalStep
<1> DEFINE OnlyItem == /\ itemState[i] \notin TerminalStates
                       /\ UNCHANGED attemptVars
                       /\ \A j \in Items \ {i} :
                             /\ itemState'[j] = itemState[j]
                             /\ revision'[j] = revision[j]
                             /\ dependencies'[j] = dependencies[j]
<1>0. OnlyItem => FinalStep
  BY ItemsFinal, {i} \in SUBSET Items
<1>1. CASE CreateUnrelated(i, now) \/ \E target \in Items : CreateFollowUp(i, now, target)
  <2>1. OnlyItem
    BY <1>1 DEF CreateUnrelated, CreateFollowUp, CreateProposal, SetItemState,
                Exists, TerminalStates, TypeOK
  <2> QED
    BY <2>1, <1>0
<1>2. ASSUME NEW target \in Items, CreatePrerequisite(i, now, target)
      PROVE  FinalStep
  <2>1. \A j \in {i, target} : itemState[j] \notin TerminalStates
    BY <1>2 DEF CreatePrerequisite, CreateProposal, Exists, IsLive, LiveStates,
                TerminalStates
  <2>2. /\ UNCHANGED attemptVars
        /\ \A j \in Items \ {i, target} : /\ itemState'[j] = itemState[j]
                                          /\ revision'[j] = revision[j]
                                          /\ dependencies'[j] = dependencies[j]
    BY <1>2 DEF CreatePrerequisite, CreateProposal, SetItemState, TypeOK
  <2> QED
    BY <2>1, <2>2, ItemsFinal, {i, target} \in SUBSET Items
<1>3. ASSUME NEW after \in AcceptedStates, NEW extra \in SUBSET Items,
             AcceptProposal(i, now, after, extra)
      PROVE  FinalStep
  <2>1. OnlyItem
    BY <1>3 DEF AcceptProposal, DisposeProposal, CurrentIntakeProposal,
                SetItemState, TerminalStates, TypeOK
  <2> QED
    BY <2>1, <1>0
<1>4. CASE \/ \E target \in Items : MergeProposal(i, now, target)
           \/ RejectProposal(i, now)
           \/ ReturnProposal(i, now)
  <2>1. OnlyItem
    BY <1>4 DEF MergeProposal, RejectProposal, ReturnProposal, DisposeProposal,
                CurrentIntakeProposal, SetItemState, TerminalStates, TypeOK
  <2> QED
    BY <2>1, <1>0
<1> QED
  BY <1>1, <1>2, <1>3, <1>4 DEF ProposalMutation

\* A step that moves an item together with the attempt it holds.
HoldingStep(i, a, now) ==
    /\ Holds(i, a)
    /\ \E itemAfter, attemptAfter :
          AttemptTransition(i, a, now, itemAfter, attemptAfter)
    /\ scope' = scope \/ scope' = [scope EXCEPT ![a] = revision[i]]

\* Every decision on an attempt but the one that creates it is such a step.
LEMMA AttemptMutationHolds ==
    ASSUME NEW now, NEW i \in Items, NEW a \in Attempts,
           AttemptMutation(i, a, now), ~Activate(i, a, now)
    PROVE  HoldingStep(i, a, now)
  BY DEF HoldingStep, AttemptMutation, SubmitReview, CanSubmit, Pause, BlockAttempt,
         ResumeAttempt, CanResumeAttempt, Complete, CanComplete, CloseAttempt,
         CanCloseAttempt, ReturnForCorrection, CanReturn, AcceptCheckpoint,
         AcceptReviewAndContinue, CanAccept, BothIn

\* An attempt moves only while its item is live, since the two agree; and
\* activation takes an item that is ready.
LEMMA AttemptMutationFinal ==
    ASSUME Agreement, NEW now, NEW i \in Items, NEW a \in Attempts,
           AttemptMutation(i, a, now)
    PROVE  FinalStep
<1>0. TypeOK
  BY DEF Agreement
<1>1. CASE Activate(i, a, now)
  <2>1. itemState[i] \notin TerminalStates
    BY <1>1 DEF Activate, CanActivate, TerminalStates
  <2>2. /\ UNCHANGED <<revision, dependencies>>
        /\ \A j \in Items \ {i} : itemState'[j] = itemState[j]
        /\ \A b \in Attempts \ {a} : /\ attemptItem'[b] = attemptItem[b]
                                     /\ attemptState'[b] = attemptState[b]
                                     /\ scope'[b] = scope[b]
    BY <1>0, <1>1 DEF Activate, SetItemState, SetAttemptState, TypeOK
  <2>3. attemptItem[a] = NoItem /\ attemptItem'[a] = i
    BY <1>0, <1>1 DEF Activate, CanActivate, Agreement, AttemptPresence, TypeOK
  <2> QED
    BY <1>0, <2>1, <2>2, <2>3, AttemptsFinal
<1>2. CASE ~Activate(i, a, now)
  <2>1. HoldingStep(i, a, now)
    BY <1>2, AttemptMutationHolds
  <2>2. itemState[i] \notin TerminalStates
    BY <2>1, NoAttemptOutside DEF HoldingStep, TerminalStates
  <2>3. /\ UNCHANGED <<revision, dependencies, attemptItem>>
        /\ \A j \in Items \ {i} : itemState'[j] = itemState[j]
        /\ \A b \in Attempts \ {a} : attemptState'[b] = attemptState[b]
    BY <1>0, <2>1 DEF HoldingStep, AttemptTransition, SetItemState, SetAttemptState,
       TypeOK
  <2>4. \A b \in Attempts \ {a} : scope'[b] = scope[b]
    BY <1>0, <2>1 DEF HoldingStep, TypeOK
  <2>5. attemptItem[a] = i
    BY <2>1 DEF HoldingStep, Holds
  <2> QED
    BY <1>0, <2>2, <2>3, <2>4, <2>5, AttemptsFinal
<1> QED
  BY <1>1, <1>2

\* Every write transaction leaves what is terminal alone.
LEMMA NextFinal == Agreement /\ [Next]_vars => FinalStep
<1> SUFFICES ASSUME Agreement, [Next]_vars PROVE FinalStep
  OBVIOUS
<1>0. TypeOK
  BY DEF Agreement
<1>1. CASE UNCHANGED <<itemVars, attemptVars>>
  BY <1>1 DEF itemVars, attemptVars, FinalStep
<1>2. ASSUME NEW now \in 0..Horizon, Mutation(now)
      PROVE  FinalStep
  <2>1. ASSUME NEW i \in Items, ClaimMutation(i, now) PROVE FinalStep
    BY <2>1, <1>1 DEF ClaimMutation, AcquireClaim, TransferClaim, RenewClaim,
                      ReleaseClaim, RevokeClaim, GrantClaim, ClaimChange
  <2>2. ASSUME NEW a \in Attempts, LeaseMutation(a, now) PROVE FinalStep
    BY <2>2, <1>1 DEF LeaseMutation, AcquireLease, TransferLease, RenewLease,
                      ReleaseLease, RevokeLease, LeaseChange
  <2> QED
    BY <1>0, <1>2, <2>1, <2>2, ItemMutationFinal, ProposalMutationFinal,
       AttemptMutationFinal DEF Mutation
<1>3. CASE Tick
  BY <1>3, <1>1 DEF Tick
<1>4. CASE UNCHANGED vars
  BY <1>4, <1>1 DEF vars
<1> QED
  BY <1>2, <1>3, <1>4 DEF Next

\* What is done, superseded or dropped stays so, with the definition it ended
\* on and the attempt that worked on it.
THEOREM TerminalCorrect == Spec => TerminalIsFinal
<1>1. Spec => []Agreement
  BY AgreementCorrect
<1>2. [][Agreement /\ [Next]_vars => FinalStep]_vars
  BY NextFinal, PTL
<1> QED
  BY <1>1, <1>2, PTL DEF TerminalIsFinal, FinalStep, Spec

=============================================================================
