---------------------------- MODULE ReadbackProofs ----------------------------
(***************************************************************************)
(* Proofs about WorkLedger for every value of its constants: dependencies  *)
(* stay acyclic, work starts only when it is prepared, and the readback of *)
(* a transaction rolls nothing back that was decided in order.  All three  *)
(* rest on the graph of dependencies and on what a claim pins.  With them  *)
(* every step of the ledger is a step of WorkLifecycle, or none.           *)
(***************************************************************************)
EXTENDS WorkLedgerProofs

-----------------------------------------------------------------------------
(* The invariant.                                                          *)

\* Both ends of a dependency have a row.
EdgesExist ==
    \A i \in Items :
        /\ ~Exists(i) => dependencies[i] = {}
        /\ \A d \in dependencies[i] : Exists(d)

\* A claim pins no definition that is yet to come, and one that pins the
\* current definition is of an item that waits for nothing.
PinsPrepared ==
    \A i \in Items :
        /\ claim[i].pin <= revision[i]
        /\ claim[i].status = "active" /\ claim[i].pin = revision[i] =>
               ~DependenciesLive(i)

Prepared == Agreement /\ EdgesExist /\ DependenciesAcyclic /\ PinsPrepared

-----------------------------------------------------------------------------
(* What one transaction may do to the graph.                               *)

GraphStep ==
    \/ UNCHANGED dependencies
    \/ \E i \in Items, D \in SUBSET Items :
          /\ Exists(i) /\ \A d \in D : Exists(d)
          /\ ~IntroducesCycle(i, D)
          /\ dependencies' = [dependencies EXCEPT ![i] = D]
    \/ \E i, target \in Items :
          /\ ~Exists(i) /\ Exists(target) /\ Exists(i)'
          /\ \/ dependencies' = [dependencies EXCEPT ![i] = {target}]
             \/ dependencies' = [dependencies EXCEPT ![target] = @ \cup {i}]

\* Replacing the dependencies of one item closes no cycle when the walk from
\* the new ones does not reach it: the closed set that leaves the item out
\* would hold a smaller cycle.
LEMMA ReplacingIsAcyclic ==
    ASSUME TypeOK, DependenciesAcyclic, NEW i \in Items, NEW D \in SUBSET Items,
           ~IntroducesCycle(i, D),
           dependencies' = [dependencies EXCEPT ![i] = D]
    PROVE  DependenciesAcyclic'
<1> SUFFICES ASSUME NEW S \in SUBSET Items, S # {}
             PROVE  \E x \in S : dependencies'[x] \cap S = {}
  BY DEF DependenciesAcyclic
<1>1. PICK C \in SUBSET Items : /\ D \subseteq C /\ i \notin C
                                /\ \A c \in C : dependencies[c] \subseteq C
  BY DEF IntroducesCycle
<1>2. \A x \in Items \ {i} : dependencies'[x] = dependencies[x]
  BY DEF TypeOK
<1>3. CASE S \cap C # {}
  <2>1. PICK x \in S \cap C : dependencies[x] \cap (S \cap C) = {}
    BY <1>3, S \cap C \in SUBSET Items DEF DependenciesAcyclic
  <2>2. dependencies'[x] \subseteq C
    BY <1>1, <1>2
  <2> QED
    BY <1>1, <1>2, <2>1, <2>2
<1>4. CASE S \cap C = {} /\ i \in S
  <2>1. dependencies'[i] = D
    BY DEF TypeOK
  <2> QED
    BY <1>1, <1>4, <2>1
<1>5. CASE i \notin S
  BY <1>2, <1>5 DEF DependenciesAcyclic
<1> QED
  BY <1>3, <1>4, <1>5

\* A new item is in no cycle: nothing depends on it when it is created as a
\* follow-up, and it depends on nothing when it is created as a prerequisite.
LEMMA CreatingIsAcyclic ==
    ASSUME TypeOK, DependenciesAcyclic, EdgesExist,
           NEW i \in Items, NEW target \in Items, ~Exists(i), Exists(target),
           \/ dependencies' = [dependencies EXCEPT ![i] = {target}]
           \/ dependencies' = [dependencies EXCEPT ![target] = @ \cup {i}]
    PROVE  DependenciesAcyclic'
<1> SUFFICES ASSUME NEW S \in SUBSET Items, S # {}
             PROVE  \E x \in S : dependencies'[x] \cap S = {}
  BY DEF DependenciesAcyclic
<1>1. i # target /\ dependencies[i] = {} /\ \A x \in Items : i \notin dependencies[x]
  BY DEF EdgesExist
<1>2. CASE dependencies' = [dependencies EXCEPT ![i] = {target}]
  <2>1. \A x \in Items \ {i} : dependencies'[x] = dependencies[x]
    BY <1>2 DEF TypeOK
  <2>2. CASE i \notin S
    BY <2>1, <2>2 DEF DependenciesAcyclic
  <2>3. CASE S \ {i} = {}
    <3>1. dependencies'[i] = {target}
      BY <1>2 DEF TypeOK
    <3> QED
      BY <1>1, <2>3, <3>1
  <2>4. CASE S \ {i} # {}
    <3>1. PICK x \in S \ {i} : dependencies[x] \cap (S \ {i}) = {}
      BY <2>4, S \ {i} \in SUBSET Items DEF DependenciesAcyclic
    <3> QED
      BY <1>1, <2>1, <3>1
  <2> QED
    BY <2>2, <2>3, <2>4
<1>3. CASE dependencies' = [dependencies EXCEPT ![target] = @ \cup {i}]
  <2>1. /\ dependencies'[i] = {}
        /\ \A x \in Items : dependencies'[x] \subseteq dependencies[x] \cup {i}
    BY <1>1, <1>3 DEF TypeOK
  <2> QED
    BY <2>1 DEF DependenciesAcyclic
<1> QED
  BY <1>2, <1>3

\* The walk from the dependencies an item has does not reach it: otherwise
\* everything that reaches the item would depend on something that does.
LEMMA OwnDependenciesAreAcyclic ==
    ASSUME TypeOK, DependenciesAcyclic, NEW i \in Items
    PROVE  ~IntroducesCycle(i, dependencies[i])
<1> DEFINE Closed(C) == \A c \in C : dependencies[c] \subseteq C
           Aside == UNION {C \in SUBSET Items : Closed(C) /\ i \notin C}
<1> SUFFICES ASSUME IntroducesCycle(i, dependencies[i]) PROVE FALSE
  OBVIOUS
<1>1. Aside \in SUBSET Items /\ Closed(Aside) /\ i \notin Aside
  OBVIOUS
<1>2. \A C \in SUBSET Items : Closed(C) /\ i \notin C => C \subseteq Aside
  OBVIOUS
<1>3. ~(dependencies[i] \subseteq Aside)
  BY <1>1 DEF IntroducesCycle
<1> HIDE DEF Aside
<1>4. PICK x \in Items \ Aside : dependencies[x] \cap (Items \ Aside) = {}
  BY <1>1, Items \ Aside \in SUBSET Items, Items \ Aside # {} DEF DependenciesAcyclic
<1>5. dependencies[x] \subseteq Aside
  BY <1>4 DEF TypeOK
<1>6. x # i
  BY <1>3, <1>5
<1>7. Aside \cup {x} \in SUBSET Items /\ Closed(Aside \cup {x}) /\ i \notin Aside \cup {x}
  BY <1>1, <1>5, <1>6
<1>8. x \in Aside
  BY <1>2, <1>7
<1> QED
  BY <1>4, <1>8

\* Rows are never removed, so edges keep their ends.
LEMMA GraphKept ==
    ASSUME TypeOK, TypeOK', EdgesExist, DependenciesAcyclic, GraphStep,
           \A j \in Items : Exists(j) => Exists(j)'
    PROVE  EdgesExist' /\ DependenciesAcyclic'
<1>1. CASE UNCHANGED dependencies
  BY <1>1 DEF EdgesExist, DependenciesAcyclic, TypeOK
<1>2. ASSUME NEW i \in Items, NEW D \in SUBSET Items,
             Exists(i), \A d \in D : Exists(d), ~IntroducesCycle(i, D),
             dependencies' = [dependencies EXCEPT ![i] = D]
      PROVE  EdgesExist' /\ DependenciesAcyclic'
  <2>1. EdgesExist'
    BY <1>2 DEF EdgesExist, TypeOK
  <2> QED
    BY <1>2, <2>1, ReplacingIsAcyclic
<1>3. ASSUME NEW i \in Items, NEW target \in Items,
             ~Exists(i), Exists(target), Exists(i)',
             \/ dependencies' = [dependencies EXCEPT ![i] = {target}]
             \/ dependencies' = [dependencies EXCEPT ![target] = @ \cup {i}]
      PROVE  EdgesExist' /\ DependenciesAcyclic'
  <2>1. EdgesExist'
    BY <1>3 DEF EdgesExist, TypeOK
  <2> QED
    BY <1>3, <2>1, CreatingIsAcyclic
<1> QED
  BY <1>1, <1>2, <1>3 DEF GraphStep

-----------------------------------------------------------------------------
(* What one transaction may do to the claim of an item, and to what that   *)
(* claim relies on.                                                        *)

ClaimStep(j) ==
    \/ /\ claim'[j] = claim[j]
       /\ revision'[j] >= revision[j]
       /\ revision'[j] = revision[j] => dependencies'[j] = dependencies[j]
       /\ itemState[j] = "ready" /\ ClaimLive(j, updatedAt') =>
              itemState'[j] = "ready" /\ revision'[j] = revision[j]
    \/ /\ revision'[j] = revision[j] /\ dependencies'[j] = dependencies[j]
       /\ \/ claim'[j] = EndedClaim
          \/ /\ itemState'[j] = itemState[j]
             /\ \/ ClaimLive(j, updatedAt') /\ claim'[j].pin = claim[j].pin
                \/ /\ itemState[j] = "ready" /\ ~DependenciesLive(j)
                   /\ claim'[j].pin = revision[j]

\* A dependency that has ended stays so, hence a claim stays prepared until
\* its item is redefined; and then it pins the current definition no more.
LEMMA PinsKept ==
    ASSUME Agreement, Agreement', EdgesExist, PinsPrepared, FinalStep,
           \A j \in Items : ClaimStep(j)
    PROVE  PinsPrepared'
<1> SUFFICES ASSUME NEW i \in Items
             PROVE  /\ claim'[i].pin <= revision'[i]
                    /\ claim'[i].status = "active" /\ claim'[i].pin = revision'[i] =>
                           ~DependenciesLive(i)'
  BY DEF PinsPrepared
<1>1. /\ revision[i] \in Nat /\ revision'[i] \in Nat
      /\ claim[i].pin \in Nat /\ claim'[i].pin \in Nat
      /\ dependencies[i] \subseteq Items
  BY DEF Agreement, TypeOK, ClaimType
<1>2. ~DependenciesLive(i) /\ dependencies'[i] = dependencies[i] => ~DependenciesLive(i)'
  <2> SUFFICES ASSUME ~DependenciesLive(i), NEW d \in dependencies[i]
               PROVE  ~IsLive(d)'
    BY DEF DependenciesLive
  <2>1. d \in Items /\ Exists(d) /\ ~IsLive(d)
    BY <1>1 DEF EdgesExist, DependenciesLive
  <2>2. itemState[d] \in TerminalStates
    BY <2>1 DEF Agreement, TypeOK, Exists, IsLive
  <2> QED
    BY <2>1, <2>2 DEF FinalStep, IsLive, TerminalStates, LiveStates
<1>3. EndedClaim.pin = 0 /\ EndedClaim.status = "ended"
  BY DEF EndedClaim
<1>4. ClaimStep(i) /\ claim[i].pin <= revision[i]
      /\ (claim[i].status = "active" /\ claim[i].pin = revision[i] => ~DependenciesLive(i))
  BY DEF PinsPrepared
<1> QED
  BY <1>1, <1>2, <1>3, <1>4 DEF ClaimStep, ClaimLive

\* A claim that is live when the transaction commits is valid afterwards.
LEMMA ClaimsKept ==
    ASSUME Agreement, ClaimsValid, updatedAt' >= updatedAt,
           updatedAt' \in Nat, \A j \in Items : ClaimStep(j)
    PROVE  ClaimsValid'
<1> SUFFICES ASSUME NEW i \in Items, ClaimLive(i, updatedAt)'
             PROVE  itemState'[i] = "ready" /\ claim'[i].pin = revision'[i]
  BY DEF ClaimsValid
<1>1. ClaimStep(i)
  OBVIOUS
<1>2. ClaimLive(i, updatedAt') => ClaimLive(i, updatedAt)
  BY DEF ClaimLive, Agreement, TypeOK, ClaimType
<1>3. ClaimLive(i, updatedAt') => itemState[i] = "ready" /\ claim[i].pin = revision[i]
  BY <1>2 DEF ClaimsValid
<1>4. claim'[i] = claim[i] => ClaimLive(i, updatedAt')
  BY DEF ClaimLive
<1>5. claim'[i] # EndedClaim
  BY DEF ClaimLive, EndedClaim
<1> QED
  BY <1>1, <1>3, <1>4, <1>5 DEF ClaimStep

-----------------------------------------------------------------------------
(* Every transaction is such a step.                                       *)

OrderlyStep == GraphStep /\ \A j \in Items : ClaimStep(j)

\* A transaction that moves one item's state, and redefines nothing.
LEMMA MovingIsOrderly ==
    ASSUME TypeOK, NEW i \in Items,
           UNCHANGED <<revision, dependencies>>,
           \A j \in Items \ {i} : itemState'[j] = itemState[j] /\ claim'[j] = claim[j],
           \/ claim'[i] = EndedClaim
           \/ /\ claim'[i] = claim[i]
              /\ itemState[i] = "ready" => ~ClaimLive(i, updatedAt')
    PROVE  OrderlyStep
<1>1. GraphStep
  BY DEF GraphStep
<1>2. \A j \in Items : revision'[j] >= revision[j]
  BY DEF TypeOK
<1>3. ClaimStep(i)
  BY <1>2 DEF ClaimStep
<1>4. ASSUME NEW j \in Items \ {i} PROVE ClaimStep(j)
  BY <1>2, <1>4 DEF ClaimStep
<1> QED
  BY <1>1, <1>3, <1>4 DEF OrderlyStep

\* A transaction that redefines one item, and perhaps moves it.
LEMMA RedefiningIsOrderly ==
    ASSUME TypeOK, NEW i \in Items, NEW D \in SUBSET Items,
           Exists(i), \A d \in D : Exists(d), ~IntroducesCycle(i, D),
           dependencies' = [dependencies EXCEPT ![i] = D],
           revision' = [revision EXCEPT ![i] = @ + 1],
           \A j \in Items \ {i} : itemState'[j] = itemState[j],
           UNCHANGED claim,
           itemState[i] = "ready" => ~ClaimLive(i, updatedAt')
    PROVE  OrderlyStep
<1>1. GraphStep
  BY DEF GraphStep
<1>2. ClaimStep(i)
  BY DEF ClaimStep, TypeOK
<1>3. ASSUME NEW j \in Items \ {i} PROVE ClaimStep(j)
  BY <1>3 DEF ClaimStep, TypeOK
<1> QED
  BY <1>1, <1>2, <1>3 DEF OrderlyStep

\* What the coordinator does to an item waits for its claim to end.
LEMMA ItemMutationOrderly ==
    ASSUME TypeOK, NEW now \in Nat, NEW i \in Items, ItemMutation(i, now)
    PROVE  OrderlyStep
<1>1. CASE \E after : ~ClaimLive(i, now) /\ ItemTransition(i, now, after)
  <2>1. /\ UNCHANGED <<revision, dependencies, claim>>
        /\ \A j \in Items \ {i} : itemState'[j] = itemState[j]
        /\ ~ClaimLive(i, updatedAt')
    BY <1>1 DEF ItemTransition, SetItemState, Commit, TypeOK
  <2> QED
    BY <2>1, MovingIsOrderly
<1>2. ASSUME NEW D \in SUBSET Items, ReviseItem(i, now, D)
      PROVE  OrderlyStep
  <2>1. Exists(i)
    BY <1>2 DEF ReviseItem, CanRevise, IsLive, Exists, LiveStates
  <2>2. /\ UNCHANGED <<itemState, claim>>
        /\ ~ClaimLive(i, updatedAt')
    BY <1>2 DEF ReviseItem, CanRevise, Commit
  <2> QED
    BY <1>2, <2>1, <2>2, RedefiningIsOrderly DEF ReviseItem, CanRevise
<1>3. (\E D \in SUBSET Items : ReviseItem(i, now, D))
      \/ \E after : ~ClaimLive(i, now) /\ ItemTransition(i, now, after)
  BY DEF ItemMutation, MarkReady, BlockItem, CanLeaveIntake, Defer, CanDefer,
         Reopen, CanReopen, ResumeItem, CanResumeItem, CloseItem, CanCloseItem, Closable
<1> QED
  BY <1>1, <1>2, <1>3

\* A new item has no claim to break, and one that becomes a prerequisite
\* redefines a target that nobody prepares.
LEMMA CreatingIsOrderly ==
    ASSUME Agreement, Agreement', EdgesExist, NEW now \in Nat, NEW i \in Items,
           \/ CreateUnrelated(i, now)
           \/ \E target \in Items :
                 CreateFollowUp(i, now, target) \/ CreatePrerequisite(i, now, target)
    PROVE  OrderlyStep
<1>0. TypeOK
  BY DEF Agreement
<1>1. /\ ~Exists(i) /\ Exists(i)' /\ UNCHANGED claim
      /\ \A j \in Items \ {i} : itemState'[j] = itemState[j]
  BY <1>0 DEF CreateUnrelated, CreateFollowUp, CreatePrerequisite, CreateProposal,
              Exists, SetItemState, TypeOK
<1>2. revision[i] = 0
  BY <1>1 DEF Agreement, Presence, Exists
<1>3. CASE CreateUnrelated(i, now) \/ \E target \in Items : CreateFollowUp(i, now, target)
  <2>1. /\ revision' = [revision EXCEPT ![i] = 1]
        /\ \A j \in Items \ {i} : dependencies'[j] = dependencies[j]
    BY <1>0, <1>3 DEF CreateUnrelated, CreateFollowUp, TypeOK
  <2>2. GraphStep
    BY <1>1, <1>3 DEF CreateUnrelated, CreateFollowUp, GraphStep
  <2>3. ASSUME NEW j \in Items PROVE ClaimStep(j)
    BY <1>0, <1>1, <1>2, <2>1 DEF ClaimStep, TypeOK, Exists
  <2> QED
    BY <2>2, <2>3 DEF OrderlyStep
<1>4. ASSUME NEW target \in Items, CreatePrerequisite(i, now, target)
      PROVE  OrderlyStep
  <2>1. Exists(target) /\ target # i
    BY <1>1, <1>4 DEF CreatePrerequisite, IsLive, Exists, LiveStates
  <2>2. /\ revision'[i] = 1 /\ revision'[target] = revision[target] + 1
        /\ \A j \in Items \ {i, target} : revision'[j] = revision[j]
        /\ \A j \in Items \ {target} : dependencies'[j] = dependencies[j]
        /\ ~ClaimLive(target, updatedAt')
    BY <1>0, <1>4, <2>1 DEF CreatePrerequisite, CreateProposal, Commit, TypeOK
  <2>3. GraphStep
    BY <1>1, <1>4, <2>1 DEF CreatePrerequisite, GraphStep
  <2>4. ASSUME NEW j \in Items PROVE ClaimStep(j)
    BY <1>0, <1>1, <1>2, <2>1, <2>2 DEF ClaimStep, TypeOK, Exists
  <2> QED
    BY <2>3, <2>4 DEF OrderlyStep
<1> QED
  BY <1>3, <1>4

\* A disposition finds its item in intake, where there is no live claim.
LEMMA DisposingIsOrderly ==
    ASSUME TypeOK, NEW now \in Nat, NEW i \in Items,
           \/ \E after \in AcceptedStates, extra \in SUBSET Items :
                 AcceptProposal(i, now, after, extra)
           \/ \E target \in Items : MergeProposal(i, now, target)
           \/ RejectProposal(i, now)
           \/ ReturnProposal(i, now)
    PROVE  OrderlyStep
<1>1. /\ itemState[i] = "intake" /\ UNCHANGED claim
      /\ \A j \in Items \ {i} : itemState'[j] = itemState[j]
  BY DEF AcceptProposal, MergeProposal, RejectProposal, ReturnProposal,
         DisposeProposal, CurrentIntakeProposal, SetItemState, TypeOK
<1>2. CASE UNCHANGED <<revision, dependencies>>
  BY <1>1, <1>2, MovingIsOrderly
<1>3. ASSUME NEW after \in AcceptedStates, NEW extra \in SUBSET Items,
             AcceptProposal(i, now, after, extra)
      PROVE  OrderlyStep
  <2> DEFINE D == dependencies[i] \cup extra
  <2>1. CASE D = dependencies[i]
    <3>1. UNCHANGED <<revision, dependencies>>
      BY <1>3, <2>1 DEF AcceptProposal, TypeOK
    <3> QED
      BY <3>1, <1>2
  <2>2. CASE D # dependencies[i]
    <3>1. /\ D \in SUBSET Items /\ \A d \in D : Exists(d)
          /\ ~IntroducesCycle(i, D)
          /\ dependencies' = [dependencies EXCEPT ![i] = D]
          /\ revision' = [revision EXCEPT ![i] = @ + 1]
      BY <1>3, <2>2 DEF AcceptProposal, TypeOK
    <3>2. Exists(i)
      BY <1>1 DEF Exists
    <3> HIDE DEF D
    <3> QED
      BY <1>1, <3>1, <3>2, RedefiningIsOrderly
  <2> QED
    BY <2>1, <2>2
<1> QED
  BY <1>2, <1>3 DEF MergeProposal, RejectProposal, ReturnProposal

\* A claim is granted on an item that is ready and waits for nothing, and is
\* renewed only while it is live.
LEMMA ClaimMutationOrderly ==
    ASSUME TypeOK, NEW now \in Nat, NEW i \in Items, ClaimMutation(i, now)
    PROVE  OrderlyStep
<1> DEFINE Granted == /\ itemState[i] = "ready" /\ ~DependenciesLive(i)
                      /\ claim'[i].pin = revision[i]
           Renewed == ClaimLive(i, updatedAt') /\ claim'[i].pin = claim[i].pin
<1>1. /\ UNCHANGED <<itemState, revision, dependencies>>
      /\ \A j \in Items \ {i} : claim'[j] = claim[j]
      /\ claim'[i] = EndedClaim \/ Granted \/ Renewed
  BY DEF ClaimMutation, AcquireClaim, CanAcquireClaim, TransferClaim,
         CanTransferClaim, Preparable, RenewClaim, ReleaseClaim, RevokeClaim,
         GrantClaim, ClaimChange, itemVars, Commit, TypeOK
<1>2. GraphStep
  BY <1>1 DEF GraphStep
<1>3. ClaimStep(i)
  BY <1>1 DEF ClaimStep
<1>4. ASSUME NEW j \in Items \ {i} PROVE ClaimStep(j)
  BY <1>1, <1>4 DEF ClaimStep, TypeOK
<1> QED
  BY <1>2, <1>3, <1>4 DEF OrderlyStep

\* An attempt's item is not ready; activation ends the claim of the one it takes.
LEMMA AttemptMutationOrderly ==
    ASSUME Agreement, NEW now \in Nat, NEW i \in Items, NEW a \in Attempts,
           AttemptMutation(i, a, now)
    PROVE  OrderlyStep
<1>0. TypeOK
  BY DEF Agreement
<1>1. CASE Activate(i, a, now)
  <2>1. /\ UNCHANGED <<revision, dependencies>>
        /\ claim'[i] = EndedClaim
        /\ \A j \in Items \ {i} : itemState'[j] = itemState[j] /\ claim'[j] = claim[j]
    BY <1>0, <1>1 DEF Activate, SetItemState, TypeOK
  <2> QED
    BY <1>0, <2>1, MovingIsOrderly
<1>2. CASE ~Activate(i, a, now)
  <2>1. HoldingStep(i, a, now)
    BY <1>2, AttemptMutationHolds
  <2>2. itemState[i] # "ready"
    BY <2>1, NoAttemptOutside DEF HoldingStep
  <2>3. /\ UNCHANGED <<revision, dependencies, claim>>
        /\ \A j \in Items \ {i} : itemState'[j] = itemState[j]
    BY <1>0, <2>1 DEF HoldingStep, AttemptTransition, SetItemState, TypeOK
  <2> QED
    BY <1>0, <2>2, <2>3, MovingIsOrderly
<1> QED
  BY <1>1, <1>2

\* A step that touches no item and no claim.
LEMMA ElsewhereIsOrderly ==
    ASSUME TypeOK, UNCHANGED <<itemState, revision, dependencies, claim>>
    PROVE  OrderlyStep
<1>1. \A j \in Items : revision'[j] >= revision[j]
  BY DEF TypeOK
<1> QED
  BY <1>1 DEF OrderlyStep, GraphStep, ClaimStep

\* So is every step: each decision guards the claims it could break.
LEMMA NextOrderly ==
    ASSUME Agreement, Agreement', EdgesExist, [Next]_vars
    PROVE  OrderlyStep
<1>0. TypeOK
  BY DEF Agreement
<1>1. ASSUME NEW now \in 0..Horizon, Mutation(now)
      PROVE  OrderlyStep
  <2>0. now \in Nat
    BY BoundsAssumption
  <2>1. ASSUME NEW i \in Items, ProposalMutation(i, now) PROVE OrderlyStep
    BY <1>0, <2>0, <2>1, CreatingIsOrderly, DisposingIsOrderly DEF ProposalMutation
  <2>2. ASSUME NEW a \in Attempts, LeaseMutation(a, now) PROVE OrderlyStep
    <3>1. UNCHANGED <<itemState, revision, dependencies, claim>>
      BY <2>2 DEF LeaseMutation, AcquireLease, TransferLease, RenewLease,
                  ReleaseLease, RevokeLease, LeaseChange, itemVars
    <3> QED
      BY <1>0, <3>1, ElsewhereIsOrderly
  <2> QED
    BY <1>0, <1>1, <2>0, <2>1, <2>2, ItemMutationOrderly, ClaimMutationOrderly,
       AttemptMutationOrderly DEF Mutation
<1>2. CASE Tick \/ UNCHANGED vars
  <2>1. UNCHANGED <<itemState, revision, dependencies, claim>>
    BY <1>2 DEF Tick, vars, itemVars
  <2> QED
    BY <1>0, <2>1, ElsewhereIsOrderly
<1> QED
  BY <1>1, <1>2 DEF Next

-----------------------------------------------------------------------------
(* The invariant, and what follows from it.                                *)

\* The empty ledger has no edge and no claim.
LEMMA InitPrepared == Init => Prepared
<1> SUFFICES ASSUME Init PROVE Prepared
  OBVIOUS
<1>1. EdgesExist /\ DependenciesAcyclic
  BY DEF Init, EdgesExist, DependenciesAcyclic
<1>2. PinsPrepared
  BY DEF Init, PinsPrepared, NoClaim
<1> QED
  BY <1>1, <1>2, InitAgreement DEF Prepared

\* Orderly steps that leave terminal items alone keep the invariant.
LEMMA NextPrepared == Prepared /\ Agreement' /\ [Next]_vars => Prepared'
<1> SUFFICES ASSUME Prepared, Agreement', [Next]_vars PROVE Prepared'
  OBVIOUS
<1>1. OrderlyStep /\ FinalStep
  BY NextOrderly, NextFinal DEF Prepared
<1>2. \A j \in Items : Exists(j) => Exists(j)'
  BY <1>1 DEF OrderlyStep, ClaimStep, Prepared, Agreement, Presence, Exists, TypeOK
<1>3. EdgesExist' /\ DependenciesAcyclic'
  BY <1>1, <1>2, GraphKept DEF OrderlyStep, Prepared, Agreement
<1>4. PinsPrepared'
  BY <1>1, PinsKept DEF OrderlyStep, Prepared
<1> QED
  BY <1>3, <1>4 DEF Prepared

\* Edges have both their ends, dependencies no cycle, and a claim that pins
\* the current definition is of an item that waits for nothing.
THEOREM PreparedCorrect == Spec => []Prepared
<1>1. Init => Prepared
  BY InitPrepared
<1>2. Prepared /\ [Next]_vars => Prepared'
  BY NextPrepared, NextAgreement DEF Prepared
<1> QED
  BY <1>1, <1>2, PTL DEF Spec

\* No sequence of proposals, acceptances and revisions closes a cycle.
THEOREM AcyclicCorrect == Spec => []DependenciesAcyclic
<1>1. Prepared => DependenciesAcyclic
  BY DEF Prepared
<1> QED
  BY <1>1, PreparedCorrect, PTL

\* Work starts on the current definition with every dependency ended, although
\* activation rereads neither and the clocks may disagree.
THEOREM ActivationCorrect == Spec => ActivationIsPrepared
<1> DEFINE Step == \A a \in Attempts :
                      attemptState[a] = "unused" /\ attemptState'[a] # "unused" =>
                          LET i == attemptItem'[a] IN
                          /\ ~DependenciesLive(i)
                          /\ scope'[a] = revision[i]
<1>1. Prepared /\ [Next]_vars => Step
  <2> SUFFICES ASSUME Prepared, Next, NEW a \in Attempts,
                      attemptState[a] = "unused", attemptState'[a] # "unused"
               PROVE  /\ ~DependenciesLive(attemptItem'[a])
                      /\ scope'[a] = revision[attemptItem'[a]]
    BY DEF vars, attemptVars
  <2>0. TypeOK
    BY DEF Prepared, Agreement
  <2>1. \E now \in 0..Horizon, i \in Items, b \in Attempts : AttemptMutation(i, b, now)
    <3>1. attemptState' # attemptState
      OBVIOUS
    <3>2. ASSUME NEW now \in 0..Horizon, NEW i \in Items,
                 ItemMutation(i, now) \/ ClaimMutation(i, now)
          PROVE  FALSE
      BY <3>1, <3>2 DEF attemptVars, ItemMutation, ItemTransition, MarkReady,
         BlockItem, Defer, Reopen, ResumeItem, CloseItem, ReviseItem, ClaimMutation,
         AcquireClaim, TransferClaim, RenewClaim, ReleaseClaim, RevokeClaim,
         GrantClaim, ClaimChange
    <3>3. ASSUME NEW now \in 0..Horizon, NEW i \in Items, ProposalMutation(i, now)
          PROVE  FALSE
      BY <3>1, <3>3 DEF attemptVars, ProposalMutation, CreateUnrelated,
         CreateFollowUp, CreatePrerequisite, CreateProposal, AcceptProposal,
         MergeProposal, RejectProposal, ReturnProposal, DisposeProposal
    <3>4. ASSUME NEW now \in 0..Horizon, NEW b \in Attempts, LeaseMutation(b, now)
          PROVE  FALSE
      BY <3>1, <3>4 DEF attemptVars, LeaseMutation, AcquireLease, TransferLease,
         RenewLease, ReleaseLease, RevokeLease, LeaseChange
    <3>5. ~Tick
      BY <3>1 DEF Tick, attemptVars
    <3> QED
      BY <3>2, <3>3, <3>4, <3>5 DEF Next, Mutation
  <2>2. PICK now \in 0..Horizon, i \in Items, b \in Attempts : AttemptMutation(i, b, now)
    BY <2>1
  <2>3. Activate(i, b, now) /\ b = a
    <3>1. CASE Activate(i, b, now)
      BY <2>0, <3>1 DEF Activate, SetAttemptState, TypeOK
    <3>2. CASE ~Activate(i, b, now)
      <4>1. HoldingStep(i, b, now)
        BY <2>2, <3>2, AttemptMutationHolds
      <4> QED
        BY <2>0, <4>1 DEF HoldingStep, AttemptTransition, Holds, SetAttemptState, TypeOK
    <3> QED
      BY <3>1, <3>2
  <2>4. attemptItem'[a] = i /\ scope'[a] = revision[i]
    BY <2>0, <2>3 DEF Activate, TypeOK
  <2>5. claim[i].status = "active" /\ claim[i].pin = revision[i]
    BY <2>3 DEF Activate, CanActivate, ClaimLive
  <2> QED
    BY <2>4, <2>5 DEF Prepared, PinsPrepared
<1>2. [][Prepared /\ [Next]_vars => Step]_vars
  BY <1>1, PTL
<1> QED
  BY <1>2, PreparedCorrect, PTL DEF ActivationIsPrepared, Spec

\* The readback rolls back no decision whose time follows that of the last
\* commit, whichever decision it is.
THEOREM ReadbackCorrect == Spec => AcceptedDecisionsReadBack
<1> DEFINE Step == ReadsBack /\ updatedAt' >= updatedAt => ReadsBack'
<1>1. Prepared /\ Prepared' /\ [Next]_vars => Step
  <2> SUFFICES ASSUME Prepared, Prepared', [Next]_vars, ReadsBack,
                      updatedAt' >= updatedAt
               PROVE  ReadsBack'
    OBVIOUS
  <2>1. OrderlyStep
    BY NextOrderly DEF Prepared
  <2>2. ClaimsValid'
    BY <2>1, ClaimsKept DEF OrderlyStep, Prepared, Agreement, TypeOK, ReadsBack, Readback
  <2>3. ASSUME NEW i \in Items, ClaimLive(i, updatedAt)' PROVE ~DependenciesLive(i)'
    BY <2>2, <2>3 DEF ClaimsValid, Prepared, PinsPrepared, ClaimLive
  <2> QED
    BY <2>2, <2>3 DEF ReadsBack, Readback, Prepared
<1>2. [][Prepared /\ Prepared' /\ [Next]_vars => Step]_vars
  BY <1>1, PTL
<1> QED
  BY <1>2, PreparedCorrect, PTL DEF AcceptedDecisionsReadBack, Spec

-----------------------------------------------------------------------------
(* The ledger implements WorkLifecycle: every write transaction is one     *)
(* step in the life of one item, or none.                                  *)

\* A transaction that changes neither what an item has come to, nor what it
\* waits for, nor who works on it, is no step of the lifecycle.
LEMMA NoLifecycleStep ==
    ASSUME UNCHANGED <<itemState, dependencies, attemptItem, attemptState>>
    PROVE  UNCHANGED Lifecycle!lifecycleVars
<1>1. Stages' = Stages /\ Workers' = Workers
  BY DEF Stages, Stage, Workers, Exists, IsLive, HasAttempt, Holds
<1> QED
  BY <1>1 DEF Lifecycle!lifecycleVars

\* When one item moves and every attempt is as it was, one stage moves.
LEMMA OneStageMoves ==
    ASSUME NEW i \in Items, NEW after,
           \A j \in Items \ {i} : itemState'[j] = itemState[j],
           UNCHANGED attemptVars, Stage(i)' = after
    PROVE  Stages' = [Stages EXCEPT ![i] = after] /\ Workers' = Workers
<1>1. \A j \in Items \ {i} : Stage(j)' = Stage(j)
  BY DEF Stage, Exists, IsLive, HasAttempt, Holds, attemptVars
<1>2. Workers' = Workers
  BY DEF Workers, attemptVars
<1> QED
  BY <1>1, <1>2 DEF Stages

\* The stage of a live item that holds no attempt, and of one that holds one.
LEMMA StageOf ==
    ASSUME NEW i \in Items
    PROVE  /\ itemState[i] = "absent" <=> Stage(i) = "absent"
           /\ IsLive(i) /\ ~HasAttempt(i) => Stage(i) = "waiting"
           /\ IsLive(i) /\ HasAttempt(i) => Stage(i) = "underway"
           /\ itemState[i] \in TerminalStates => Stage(i) = "ended"
           /\ IsLive(i) <=> Stage(i) \in {"waiting", "underway"}
  BY DEF Stage, Exists, IsLive, LiveStates, TerminalStates

\* An item without an attempt that moves among the states that need none goes
\* on waiting, or ends.
LEMMA IdleItemLives ==
    ASSUME TypeOK, NEW i \in Items, NEW after \in LiveStates \cup TerminalStates,
           IsLive(i), ~HasAttempt(i), itemState' = [itemState EXCEPT ![i] = after],
           UNCHANGED <<dependencies, attemptVars>>
    PROVE  Lifecycle!End(i) \/ UNCHANGED Lifecycle!lifecycleVars
<1>1. /\ itemState'[i] = after
      /\ \A j \in Items \ {i} : itemState'[j] = itemState[j]
  BY DEF TypeOK
<1>2. ~HasAttempt(i)'
  BY DEF HasAttempt, Holds, attemptVars
<1>3. Stage(i) = "waiting"
  BY StageOf
<1>4. CASE after \in LiveStates
  <2>1. Stage(i)' = "waiting"
    BY <1>1, <1>2, <1>4 DEF Stage, Exists, IsLive, LiveStates
  <2>2. Stages' = [Stages EXCEPT ![i] = "waiting"] /\ Workers' = Workers
    BY <1>1, <2>1, OneStageMoves
  <2>3. Stages' = Stages
    BY <1>3, <2>2 DEF Stages
  <2> QED
    BY <2>2, <2>3 DEF Lifecycle!lifecycleVars
<1>5. CASE after \in TerminalStates
  <2>1. Stage(i)' = "ended"
    BY <1>1, <1>5 DEF Stage, Exists, IsLive, LiveStates, TerminalStates
  <2>2. Stages' = [Stages EXCEPT ![i] = "ended"] /\ Workers' = Workers
    BY <1>1, <2>1, OneStageMoves
  <2>3. Stages[i] = "waiting"
    BY <1>3 DEF Stages
  <2> QED
    BY <2>2, <2>3 DEF Lifecycle!End, Lifecycle!Open
<1> QED
  BY <1>4, <1>5

\* Redefining a live item, with or without a move among the states before work.
LEMMA RedefinitionLives ==
    ASSUME TypeOK, DependenciesAcyclic', NEW i \in Items, NEW D \in SUBSET Items,
           IsLive(i), \A d \in D : Exists(d),
           dependencies' = [dependencies EXCEPT ![i] = D],
           Stages' = Stages, Workers' = Workers
    PROVE  Lifecycle!Redefine(i, D)
<1>1. Stages[i] \in {"waiting", "underway"}
  BY StageOf DEF Stages
<1>2. \A d \in D : Stages[d] # "absent"
  BY StageOf DEF Stages, Exists
<1>3. Lifecycle!Ordered(dependencies')
  BY DEF DependenciesAcyclic, Lifecycle!Ordered
<1> QED
  BY <1>1, <1>2, <1>3 DEF Lifecycle!Redefine, Lifecycle!Open, Lifecycle!Known

\* A transition of the coordinator moves an item without an attempt.
LEMMA ItemMutationLives ==
    ASSUME Agreement, DependenciesAcyclic', NEW now, NEW i \in Items,
           ItemMutation(i, now)
    PROVE  Lifecycle!Next \/ UNCHANGED Lifecycle!lifecycleVars
<1>0. TypeOK
  BY DEF Agreement
<1>1. ASSUME NEW after \in LiveStates \cup TerminalStates,
             ItemTransition(i, now, after), IsLive(i), ~HasAttempt(i)
      PROVE  Lifecycle!Next \/ UNCHANGED Lifecycle!lifecycleVars
  BY <1>0, <1>1, IdleItemLives DEF ItemTransition, SetItemState, Lifecycle!Next
<1> USE DEF IsLive, LiveStates, TerminalStates
<1>2. CASE MarkReady(i, now) \/ BlockItem(i, now) \/ Reopen(i, now)
  BY <1>1, <1>2, NoAttemptOutside
  DEF MarkReady, BlockItem, CanLeaveIntake, Reopen, CanReopen, HasAttempt
<1>3. CASE Defer(i, now) \/ ResumeItem(i, now)
  BY <1>1, <1>3 DEF Defer, CanDefer, ResumeItem, CanResumeItem
<1>4. ASSUME NEW outcome \in CloseOutcomes, CloseItem(i, now, outcome)
      PROVE  Lifecycle!Next \/ UNCHANGED Lifecycle!lifecycleVars
  BY <1>1, <1>4 DEF CloseItem, CanCloseItem, Closable, CloseOutcomes
<1>5. ASSUME NEW D \in SUBSET Items, ReviseItem(i, now, D)
      PROVE  Lifecycle!Next
  <2>1. /\ UNCHANGED <<itemState, attemptVars>>
        /\ IsLive(i) /\ \A d \in D : Exists(d)
        /\ dependencies' = [dependencies EXCEPT ![i] = D]
    BY <1>5 DEF ReviseItem, CanRevise
  <2>2. Stages' = Stages /\ Workers' = Workers
    BY <2>1 DEF Stages, Stage, Workers, Exists, HasAttempt, Holds, attemptVars
  <2> QED
    BY <1>0, <2>1, <2>2, RedefinitionLives DEF Lifecycle!Next
<1> QED
  BY <1>2, <1>3, <1>4, <1>5 DEF ItemMutation

\* A new item is proposed alone, after one that is known, or before a live one.
LEMMA CreationLives ==
    ASSUME Agreement, EdgesExist, NEW now, NEW i \in Items,
           \/ CreateUnrelated(i, now)
           \/ \E target \in Items :
                 CreateFollowUp(i, now, target) \/ CreatePrerequisite(i, now, target)
    PROVE  Lifecycle!Propose(i)
<1>0. TypeOK
  BY DEF Agreement
<1>1. /\ ~Exists(i) /\ itemState'[i] = "intake"
      /\ \A j \in Items \ {i} : itemState'[j] = itemState[j]
      /\ UNCHANGED attemptVars
  BY <1>0 DEF CreateUnrelated, CreateFollowUp, CreatePrerequisite, CreateProposal,
     SetItemState, TypeOK
<1>2. ~HasAttempt(i)'
  BY <1>1, NoAttemptOutside DEF HasAttempt, Holds, attemptVars, Exists
<1>3. Stage(i)' = "waiting"
  BY <1>1, <1>2 DEF Stage, Exists, IsLive, LiveStates
<1>4. Stages' = [Stages EXCEPT ![i] = "waiting"] /\ Workers' = Workers
  BY <1>1, <1>3, OneStageMoves
<1>5. ~Lifecycle!Known(i)
  BY <1>1, StageOf DEF Stages, Exists, Lifecycle!Known
<1>6. \/ UNCHANGED dependencies
      \/ \E j \in Items : /\ Lifecycle!Known(j)
                          /\ dependencies' = [dependencies EXCEPT ![i] = {j}]
      \/ \E j \in Items : /\ Lifecycle!Open(j)
                          /\ dependencies' = [dependencies EXCEPT ![j] = @ \cup {i}]
  BY StageOf DEF CreateUnrelated, CreateFollowUp, CreatePrerequisite, Exists, Stages,
     Lifecycle!Known, Lifecycle!Open
<1> QED
  BY <1>4, <1>5, <1>6 DEF Lifecycle!Propose

\* An accepted proposal may be redefined; a rejected or merged one ends.
LEMMA DispositionLives ==
    ASSUME Agreement, DependenciesAcyclic', NEW now, NEW i \in Items,
           \/ \E after \in AcceptedStates, extra \in SUBSET Items :
                 AcceptProposal(i, now, after, extra)
           \/ \E target \in Items : MergeProposal(i, now, target)
           \/ RejectProposal(i, now)
           \/ ReturnProposal(i, now)
    PROVE  Lifecycle!Next \/ UNCHANGED Lifecycle!lifecycleVars
<1>0. TypeOK
  BY DEF Agreement
<1>1. IsLive(i) /\ ~HasAttempt(i) /\ UNCHANGED attemptVars
  BY DEF AcceptProposal, MergeProposal, RejectProposal, ReturnProposal,
     DisposeProposal, CurrentIntakeProposal, IsLive, LiveStates
<1>2. ASSUME NEW after \in AcceptedStates, NEW extra \in SUBSET Items,
             AcceptProposal(i, now, after, extra)
      PROVE  Lifecycle!Next
  <2> DEFINE D == dependencies[i] \cup extra
  <2>1. /\ D \in SUBSET Items /\ \A d \in D : Exists(d)
        /\ dependencies' = [dependencies EXCEPT ![i] = D]
        /\ itemState'[i] = after
        /\ \A j \in Items \ {i} : itemState'[j] = itemState[j]
    BY <1>0, <1>2 DEF AcceptProposal, SetItemState, TypeOK
  <2>2. ~HasAttempt(i)'
    BY <1>1 DEF HasAttempt, Holds, attemptVars
  <2>3. Stage(i)' = "waiting"
    BY <2>1, <2>2 DEF Stage, Exists, IsLive, LiveStates, AcceptedStates
  <2>4. Stages' = [Stages EXCEPT ![i] = "waiting"] /\ Workers' = Workers
    BY <1>1, <2>1, <2>3, OneStageMoves
  <2>5. Stages' = Stages
    BY <1>1, <2>4, StageOf DEF Stages
  <2> HIDE DEF D
  <2>6. Lifecycle!Redefine(i, D)
    BY <1>0, <1>1, <2>1, <2>4, <2>5, RedefinitionLives
  <2> QED
    BY <2>1, <2>6 DEF Lifecycle!Next
<1>3. CASE \/ \E target \in Items : MergeProposal(i, now, target)
           \/ RejectProposal(i, now)
  <2>1. PICK after \in TerminalStates : itemState' = [itemState EXCEPT ![i] = after]
    BY <1>3 DEF MergeProposal, RejectProposal, SetItemState, TerminalStates
  <2>2. UNCHANGED dependencies
    BY <1>3 DEF MergeProposal, RejectProposal
  <2> QED
    BY <1>0, <1>1, <2>1, <2>2, IdleItemLives DEF Lifecycle!Next
<1>4. CASE ReturnProposal(i, now)
  BY <1>1, <1>4, NoLifecycleStep DEF ReturnProposal, attemptVars
<1> QED
  BY <1>2, <1>3, <1>4

\* Activation starts the work: on a prepared item, which no attempt ever held.
LEMMA ActivationLives ==
    ASSUME Prepared, Agreement', NEW now, NEW i \in Items, NEW a \in Attempts,
           Activate(i, a, now)
    PROVE  Lifecycle!Start(i, a)
<1>0. TypeOK /\ TypeOK'
  BY DEF Prepared, Agreement
<1>1. itemState[i] = "ready" /\ ~HasAttempt(i) /\ attemptState[a] = "unused"
  BY DEF Activate, CanActivate
<1>2. /\ \A j \in Items \ {i} : itemState'[j] = itemState[j]
      /\ itemState'[i] = "active"
      /\ \A b \in Attempts \ {a} : /\ attemptItem'[b] = attemptItem[b]
                                   /\ attemptState'[b] = attemptState[b]
      /\ attemptItem'[a] = i /\ attemptState'[a] = "active"
      /\ UNCHANGED dependencies
  BY <1>0 DEF Activate, SetItemState, SetAttemptState, TypeOK
<1>3. attemptItem[a] = NoItem
  BY <1>1 DEF Prepared, Agreement, AttemptPresence
<1>4. \A b \in Attempts : attemptItem[b] # i
  <2>1. \A b \in Attempts : attemptItem[b] = i => attemptState[b] # "done"
    BY <1>1 DEF Prepared, Agreement, DoneIsTerminal, TerminalStates
  <2>2. \A b \in Attempts : attemptItem[b] = i => attemptState[b] # "unused"
    BY ItemsAssumption DEF Prepared, Agreement, AttemptPresence
  <2> QED
    BY <1>1, <2>1, <2>2 DEF HasAttempt, Holds
<1>5. Workers[i] = {} /\ \A j \in Items : a \notin Workers[j]
  BY <1>3, <1>4, ItemsAssumption DEF Workers
<1>6. Workers' = [Workers EXCEPT ![i] = {a}]
  <2>1. {b \in Attempts : attemptItem'[b] = i} = {a}
    BY <1>2, <1>4
  <2>2. \A j \in Items \ {i} : {b \in Attempts : attemptItem'[b] = j}
                             = {b \in Attempts : attemptItem[b] = j}
    BY <1>2, <1>3, ItemsAssumption
  <2> QED
    BY <2>1, <2>2 DEF Workers
<1>7. \A j \in Items \ {i} : Stage(j)' = Stage(j)
  <2>1. \A j \in Items \ {i} : HasAttempt(j)' <=> HasAttempt(j)
    BY <1>1, <1>2, <1>3, ItemsAssumption DEF HasAttempt, Holds
  <2> QED
    BY <1>2, <2>1 DEF Stage, Exists, IsLive
<1>8. Stage(i)' = "underway"
  BY <1>2 DEF Stage, Exists, IsLive, LiveStates, HasAttempt, Holds
<1>9. Stages' = [Stages EXCEPT ![i] = "underway"]
  BY <1>7, <1>8 DEF Stages
<1>10. Stages[i] = "waiting"
  BY <1>1, StageOf DEF Stages, IsLive, LiveStates
<1>11. \A d \in dependencies[i] : Stages[d] = "ended"
  <2> SUFFICES ASSUME NEW d \in dependencies[i] PROVE Stages[d] = "ended"
    OBVIOUS
  <2>1. d \in Items /\ Exists(d)
    BY <1>0 DEF Prepared, EdgesExist, TypeOK
  <2>2. ~IsLive(d)
    BY DEF Activate, CanActivate, ClaimLive, Prepared, PinsPrepared, DependenciesLive
  <2> QED
    BY <2>1, <2>2 DEF Stages, Stage
<1> QED
  BY <1>2, <1>5, <1>6, <1>9, <1>10, <1>11 DEF Lifecycle!Start

\* While its attempt moves through pause, block, review and back, an item is
\* underway; when the attempt is done the item has ended.
LEMMA HoldingLives ==
    ASSUME Agreement, Agreement', NEW now, NEW i \in Items, NEW a \in Attempts,
           HoldingStep(i, a, now)
    PROVE  Lifecycle!End(i) \/ UNCHANGED Lifecycle!lifecycleVars
<1>0. TypeOK /\ TypeOK'
  BY DEF Agreement
<1>1. /\ \A j \in Items \ {i} : itemState'[j] = itemState[j]
      /\ \A b \in Attempts \ {a} : attemptState'[b] = attemptState[b]
      /\ UNCHANGED <<dependencies, attemptItem>>
  BY <1>0 DEF HoldingStep, AttemptTransition, SetItemState, SetAttemptState, TypeOK
<1>2. Holds(i, a)
  BY DEF HoldingStep
<1>3. \A j \in Items \ {i} : Stage(j)' = Stage(j)
  <2>1. \A j \in Items \ {i} : HasAttempt(j)' <=> HasAttempt(j)
    BY <1>1, <1>2 DEF HasAttempt, Holds
  <2> QED
    BY <1>1, <2>1 DEF Stage, Exists, IsLive
<1>4. Stage(i) = "underway"
  <2>1. itemState[i] \in {"active", "paused", "blocked", "review"}
    BY <1>0, <1>2 DEF Agreement, ItemAttemptAgreement, Holds, TypeOK, AttemptStates
  <2> QED
    BY <1>2, <2>1, StageOf DEF IsLive, LiveStates, HasAttempt
<1>5. Workers' = Workers
  BY <1>1 DEF Workers
<1>6. CASE Holds(i, a)'
  <2>1. itemState'[i] \in {"active", "paused", "blocked", "review"}
    BY <1>0, <1>6 DEF Agreement, ItemAttemptAgreement, Holds, TypeOK, AttemptStates
  <2>2. Stage(i)' = "underway"
    BY <1>6, <2>1 DEF Stage, Exists, IsLive, LiveStates, HasAttempt
  <2>3. Stages' = Stages
    BY <1>3, <1>4, <2>2 DEF Stages
  <2> QED
    BY <1>1, <1>5, <2>3 DEF Lifecycle!lifecycleVars
<1>7. CASE ~Holds(i, a)'
  <2>1. attemptItem'[a] = i /\ attemptState'[a] = "done"
    BY <1>0, <1>1, <1>2, <1>7, ItemsAssumption
    DEF Agreement, AttemptPresence, Holds
  <2>2. itemState'[i] \in TerminalStates
    BY <2>1 DEF Agreement, DoneIsTerminal
  <2>3. Stage(i)' = "ended"
    BY <2>2 DEF Stage, Exists, IsLive, LiveStates, TerminalStates
  <2>4. Stages' = [Stages EXCEPT ![i] = "ended"]
    BY <1>3, <2>3 DEF Stages
  <2>5. Stages[i] = "underway"
    BY <1>4 DEF Stages
  <2> QED
    BY <1>1, <1>5, <2>4, <2>5 DEF Lifecycle!End, Lifecycle!Open
<1> QED
  BY <1>6, <1>7

\* Every write transaction is a step in the life of one item, or no step.
LEMMA NextLives ==
    Prepared /\ Prepared' /\ [Next]_vars => [Lifecycle!Next]_(Lifecycle!lifecycleVars)
<1> SUFFICES ASSUME Prepared, Prepared', [Next]_vars
             PROVE  Lifecycle!Next \/ UNCHANGED Lifecycle!lifecycleVars
  OBVIOUS
<1>0. Agreement /\ Agreement' /\ EdgesExist /\ DependenciesAcyclic'
  BY DEF Prepared
<1>1. ASSUME NEW now \in 0..Horizon, NEW i \in Items, ProposalMutation(i, now)
      PROVE  Lifecycle!Next \/ UNCHANGED Lifecycle!lifecycleVars
  BY <1>0, <1>1, CreationLives, DispositionLives DEF ProposalMutation, Lifecycle!Next
<1>2. ASSUME NEW now \in 0..Horizon, NEW i \in Items, NEW a \in Attempts,
             AttemptMutation(i, a, now)
      PROVE  Lifecycle!Next \/ UNCHANGED Lifecycle!lifecycleVars
  <2>1. CASE Activate(i, a, now)
    BY <1>0, <2>1, ActivationLives DEF Lifecycle!Next
  <2>2. CASE ~Activate(i, a, now)
    BY <1>0, <1>2, <2>2, AttemptMutationHolds, HoldingLives DEF Lifecycle!Next
  <2> QED
    BY <2>1, <2>2
<1>3. ASSUME NEW now \in 0..Horizon, NEW i \in Items, ClaimMutation(i, now)
      PROVE  UNCHANGED Lifecycle!lifecycleVars
  <2>1. UNCHANGED <<itemVars, attemptVars>>
    BY <1>3 DEF ClaimMutation, AcquireClaim, TransferClaim, RenewClaim, ReleaseClaim,
       RevokeClaim, GrantClaim, ClaimChange
  <2> QED
    BY <2>1, NoLifecycleStep DEF itemVars, attemptVars
<1>4. ASSUME NEW now \in 0..Horizon, NEW a \in Attempts, LeaseMutation(a, now)
      PROVE  UNCHANGED Lifecycle!lifecycleVars
  <2>1. UNCHANGED <<itemVars, attemptVars>>
    BY <1>4 DEF LeaseMutation, AcquireLease, TransferLease, RenewLease, ReleaseLease,
       RevokeLease, LeaseChange
  <2> QED
    BY <2>1, NoLifecycleStep DEF itemVars, attemptVars
<1>5. CASE Tick \/ UNCHANGED vars
  BY <1>5, NoLifecycleStep DEF Tick, vars, itemVars, attemptVars
<1>6. ASSUME NEW now \in 0..Horizon, NEW i \in Items, ItemMutation(i, now)
      PROVE  Lifecycle!Next \/ UNCHANGED Lifecycle!lifecycleVars
  BY <1>0, <1>6, ItemMutationLives
<1> QED
  BY <1>1, <1>2, <1>3, <1>4, <1>5, <1>6 DEF Next, Mutation

\* However transactions, clocks and lease holders interleave, the ledger shows
\* every item one life: known once, underway once, with one attempt and after
\* all it waits for, and ended for good.
THEOREM LifecycleKept == Spec => KeepsLifecycle
<1>1. Init => Lifecycle!Init
  <2> SUFFICES ASSUME Init PROVE Lifecycle!Init
    OBVIOUS
  <2>1. \A i \in Items : Stage(i) = "absent"
    BY DEF Init, Stage, Exists
  <2>2. \A a \in Attempts, i \in Items : attemptItem[a] # i
    BY ItemsAssumption DEF Init
  <2>3. Stages = [i \in Items |-> "absent"] /\ Workers = [i \in Items |-> {}]
    BY <2>1, <2>2 DEF Stages, Workers
  <2> QED
    BY <2>3 DEF Init, Lifecycle!Init
<1>2. [][Prepared /\ Prepared' /\ [Next]_vars
         => [Lifecycle!Next]_(Lifecycle!lifecycleVars)]_vars
  BY NextLives, PTL
<1>3. UNCHANGED vars => UNCHANGED Lifecycle!lifecycleVars
  BY NoLifecycleStep DEF vars, itemVars, attemptVars
<1> QED
  BY <1>1, <1>2, <1>3, NextLives, PreparedCorrect, PTL
  DEF Spec, KeepsLifecycle, Lifecycle!Spec

=============================================================================
