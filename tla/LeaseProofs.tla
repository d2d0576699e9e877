------------------------------ MODULE LeaseProofs ------------------------------
(***************************************************************************)
(* For any number of commands, any durations and any bounds: the claim of  *)
(* an item fences, ends with activation, and starts work only prepared;    *)
(* the worker lease of an attempt fences, stays fenced once the attempt is *)
(* done, and no command undoes a change its snapshot did not show.         *)
(*                                                                         *)
(* The names of PreparationLease stand for the claim, those behind         *)
(* Attempt! for the lease; both change the same tables.  No clock is       *)
(* needed for the start of work: whatever adds a live dependency revises   *)
(* the definition, so a claim that still pins the current one cannot be    *)
(* waiting for anything.                                                   *)
(***************************************************************************)
EXTENDS MCAuthority, AuthorityProofs

-----------------------------------------------------------------------------
(* The claim of an item.                                                   *)

\* Every step about the claim changes the tables as AuthorityProofs allows.
LEMMA ClaimSteps == TablesAgree /\ [Next]_vars => TableStep
<1> SUFFICES ASSUME TablesAgree, [Next]_vars PROVE TableStep
  OBVIOUS
<1> USE DEF TablesAgree, TablesTypeOK, CommandType
<1>1. ASSUME NEW c \in Commands, CommandStep(c) PROVE TableStep
  <2>1. CASE ResolveChange(c)
    BY <2>1, RequestSteps DEF ResolveChange, ResolveAcquisition
  <2>2. CASE ResolveActivation(c)
    BY <2>2, SeenTokens, ResolveSteps DEF ResolveActivation, Kinds
  <2>3. CASE AcquireInitially(c) \/ AcquireByTransfer(c) \/ ChangeOwn(c)
    BY <2>3, CommitSteps DEF AcquireInitially, AcquireByTransfer, ChangeOwn
  <2>4. CASE Activate(c)
    <3>1. command' \in CommandType /\ command[c].now \in Nat
      BY <2>4, RequestedIdle DEF Activate
    <3>2. PICK now \in command[c].now..clock : LiveAt(now) /\ Fence(now)
      BY <2>4 DEF Activate
    <3>3. now \in Nat /\ row.status # "none"
      BY <3>1, <3>2 DEF LiveAt
    <3> QED
      BY <3>1, <3>2, <3>3, FenceSteps
  <2>5. CASE Abandon(c)
    BY <2>5, RequestSteps
  <2> QED
    BY <1>1, <2>1, <2>2, <2>3, <2>4, <2>5 DEF CommandStep
<1>2. CASE ItemStep
  BY <1>2 DEF ItemStep, ReviseItem, MoveItem, DependenciesEnd, TableStep
<1>3. CASE Tick
  BY <1>3 DEF Tick, TableStep
<1>4. CASE UNCHANGED vars
  BY <1>4 DEF vars, TableStep
<1> QED
  BY <1>1, <1>2, <1>3, <1>4 DEF Next

\* Counter, anchors and row of a claim always agree.
THEOREM PreparationTablesCorrect == Spec => []TablesAgree
<1>1. Init => TablesAgree
  BY InitAgrees DEF Init
<1>2. TablesAgree /\ [Next]_vars => TablesAgree'
  BY ClaimSteps, StepAgrees
<1> QED
  BY <1>1, <1>2, PTL DEF Spec

\* The preparation claim implements the abstract grant: a pair that was
\* consumed, released, revoked or replaced is spent.
THEOREM PreparationFences == Spec => Fencing
<1>1. Init => Grant!Init
  BY InitGrants DEF Init
<1>2. TablesAgree /\ [Next]_vars => [Grant!Next]_<<InForce, granted \ {InForce}>>
  BY ClaimSteps, StepGrants
<1> QED
  BY <1>1, <1>2, PreparationTablesCorrect, PTL DEF Spec, Fencing, Grant!Spec

-----------------------------------------------------------------------------

\* What a claim pins was prepared: nothing makes the item wait again without
\* revising its definition.
PinIsPrepared ==
    /\ pin \in Nat /\ definition \in Nat
    /\ pin <= definition
    /\ pin = definition => ~waiting
    /\ NoClaimAfterActivation

\* The steps of one command keep what is pinned prepared.
LEMMA CommandPrepared ==
    ASSUME PinIsPrepared, NEW c \in Commands, CommandStep(c)
    PROVE  PinIsPrepared'
<1> USE DEF PinIsPrepared, NoClaimAfterActivation, itemVars
<1>1. CASE ResolveChange(c)
  BY <1>1 DEF ResolveChange, ResolveAcquisition, ResolveInitial,
              ResolveTransfer, ResolveRenew, ResolveRelease, ResolveRevoke,
              Resolve, tables
<1>2. CASE ResolveActivation(c)
  BY <1>2 DEF ResolveActivation, Resolve, tables
<1>3. CASE AcquireInitially(c)
  BY <1>3 DEF AcquireInitially, Claimable
<1>4. CASE AcquireByTransfer(c)
  BY <1>4 DEF AcquireByTransfer, Claimable
<1>5. CASE ChangeOwn(c)
  BY <1>5 DEF ChangeOwn, CommitRenew, CommitRelease, CommitRevoke, LiveAt,
              WriteAuthority
<1>6. CASE Activate(c)
  BY <1>6 DEF Activate, Fence, WriteAuthority
<1>7. CASE Abandon(c) /\ UNCHANGED <<itemVars, pin>>
  BY <1>7 DEF Abandon, tables
<1> QED
  BY <1>1, <1>2, <1>3, <1>4, <1>5, <1>6, <1>7 DEF CommandStep

\* What is pinned stays prepared, in every behaviour.
LEMMA PinCorrect == Spec => []PinIsPrepared
<1>1. Init => PinIsPrepared
  BY DEF Init, PinIsPrepared, NoClaimAfterActivation
<1>2. PinIsPrepared /\ [Next]_vars => PinIsPrepared'
  <2> SUFFICES ASSUME PinIsPrepared, [Next]_vars PROVE PinIsPrepared'
    OBVIOUS
  <2>1. CASE ItemStep
    BY <2>1 DEF ItemStep, ReviseItem, MoveItem, DependenciesEnd, tables,
                PinIsPrepared, NoClaimAfterActivation
  <2>2. CASE Tick /\ UNCHANGED <<itemVars, pin, expected>>
    BY <2>2 DEF Tick, tables, itemVars, PinIsPrepared, NoClaimAfterActivation
  <2>3. CASE UNCHANGED vars
    BY <2>3 DEF vars, tables, itemVars, PinIsPrepared, NoClaimAfterActivation
  <2> QED
    BY <2>1, <2>2, <2>3, CommandPrepared DEF Next
<1> QED
  BY <1>1, <1>2, PTL DEF Spec

\* Nobody holds the claim of an item whose work has started.
THEOREM ActivationEndsClaim == Spec => []NoClaimAfterActivation
  BY PinCorrect, PTL DEF PinIsPrepared

\* Work starts only with every dependency ended.
THEOREM StartsPreparedCorrect == Spec => StartsPrepared
<1> DEFINE Prepared ==
      stage' = "activated" /\ stage # "activated" => ~waiting
<1>1. PinIsPrepared /\ [Next]_vars => [Prepared]_vars
  <2> SUFFICES ASSUME PinIsPrepared, Next, stage' = "activated",
                      stage # "activated"
               PROVE  ~waiting
    OBVIOUS
  <2>1. PICK c \in Commands : Activate(c)
    BY DEF Next, CommandStep, ResolveChange, ResolveActivation,
           AcquireInitially, AcquireByTransfer, ChangeOwn, itemVars,
           ItemStep, ReviseItem, MoveItem, DependenciesEnd
  <2> QED
    BY <2>1 DEF Activate, PinIsPrepared
<1> QED
  BY <1>1, PinCorrect, PTL DEF Spec, StartsPrepared

-----------------------------------------------------------------------------
(* The lease of an attempt.                                                *)

\* The tables and the writers are one module's, whichever subject they serve.
LEMMA SameTables ==
    /\ Attempt!InitTables <=> InitTables
    /\ Attempt!tables = tables
    /\ Attempt!Retained = Retained
    /\ Attempt!Shown = Shown
    /\ Attempt!Idle = Idle
<1>1. Attempt!NoToken = NoToken /\ Attempt!NoRow = NoRow
  BY DEF Attempt!NoToken, NoToken, Attempt!NoRow, NoRow
<1>2. Attempt!Idle = Idle
  BY <1>1 DEF Attempt!Idle, Idle
<1>3. Attempt!InitTables <=> InitTables
  BY <1>1, <1>2 DEF Attempt!InitTables, InitTables
<1> QED
  BY <1>2, <1>3 DEF Attempt!tables, tables, Attempt!Retained, Retained,
                    Attempt!Shown, Shown

\* So are the requests a command resolves.
LEMMA SameRequests ==
    ASSUME NEW c, NEW duration, NEW pair
    PROVE  /\ Attempt!ResolveInitial(c, duration) <=> ResolveInitial(c, duration)
           /\ Attempt!ResolveTransfer(c, duration) <=> ResolveTransfer(c, duration)
           /\ Attempt!ResolveRenew(c, duration, pair) <=> ResolveRenew(c, duration, pair)
           /\ Attempt!ResolveRelease(c, pair) <=> ResolveRelease(c, pair)
           /\ Attempt!ResolveRevoke(c, pair) <=> ResolveRevoke(c, pair)
           /\ Attempt!Abandon(c) <=> Abandon(c)
<1>1. ASSUME NEW kind, NEW length, NEW seen
      PROVE  Attempt!Resolve(c, kind, length, seen) <=> Resolve(c, kind, length, seen)
  BY SameTables DEF Attempt!Resolve, Resolve, Attempt!tables, tables
<1>2. Attempt!LiveAt(clock) <=> LiveAt(clock)
  BY DEF Attempt!LiveAt, LiveAt
<1>3. Attempt!AsInactive = AsInactive /\ Attempt!NoToken = NoToken
  BY SameTables DEF Attempt!AsInactive, AsInactive, Attempt!NoToken, NoToken
<1>4. Attempt!TokenFor(pair) = TokenFor(pair)
  BY DEF Attempt!TokenFor, TokenFor
<1>5. Attempt!ResolveInitial(c, duration) <=> ResolveInitial(c, duration)
  BY <1>1, <1>3 DEF Attempt!ResolveInitial, ResolveInitial
<1>6. Attempt!ResolveTransfer(c, duration) <=> ResolveTransfer(c, duration)
  BY <1>1, <1>2, <1>3 DEF Attempt!ResolveTransfer, ResolveTransfer
<1>7. Attempt!ResolveRenew(c, duration, pair) <=> ResolveRenew(c, duration, pair)
  BY <1>1, <1>2, <1>4 DEF Attempt!ResolveRenew, ResolveRenew
<1>8. Attempt!ResolveRelease(c, pair) <=> ResolveRelease(c, pair)
  BY <1>1, <1>2, <1>4 DEF Attempt!ResolveRelease, ResolveRelease
<1>9. Attempt!ResolveRevoke(c, pair) <=> ResolveRevoke(c, pair)
  BY <1>1, <1>4 DEF Attempt!ResolveRevoke, ResolveRevoke
<1>10. Attempt!Abandon(c) <=> Abandon(c)
  BY SameTables DEF Attempt!Abandon, Abandon, Attempt!tables, tables
<1> QED
  BY <1>5, <1>6, <1>7, <1>8, <1>9, <1>10

\* And the changes a command, or a lifecycle decision, commits.
LEMMA SameCommits ==
    /\ \A now : Attempt!Fence(now) <=> Fence(now)
    /\ \A c : /\ Attempt!CommitInitial(c) <=> CommitInitial(c)
              /\ Attempt!CommitTransfer(c) <=> CommitTransfer(c)
              /\ Attempt!CommitRenew(c) <=> CommitRenew(c)
              /\ Attempt!CommitRelease(c) <=> CommitRelease(c)
              /\ Attempt!CommitRevoke(c) <=> CommitRevoke(c)
<1>1. ASSUME NEW holder, NEW generation, NEW expires, NEW status
      PROVE  Attempt!WriteAuthority(holder, generation, expires, status)
             <=> WriteAuthority(holder, generation, expires, status)
  BY DEF Attempt!WriteAuthority, WriteAuthority
<1>2. ASSUME NEW c, NEW kind
      PROVE  Attempt!Requested(c, kind) <=> Requested(c, kind)
  BY SameTables DEF Attempt!Requested, Requested
<1>3. ASSUME NEW now PROVE Attempt!LiveAt(now) <=> LiveAt(now)
  BY DEF Attempt!LiveAt, LiveAt
<1>4. Attempt!AsInactive = AsInactive
  BY SameTables DEF Attempt!AsInactive, AsInactive
<1>5. ASSUME NEW now PROVE Attempt!Fence(now) <=> Fence(now)
  BY <1>1, SameTables DEF Attempt!Fence, Fence
<1>6. ASSUME NEW c
      PROVE  /\ Attempt!CommitInitial(c) <=> CommitInitial(c)
             /\ Attempt!CommitTransfer(c) <=> CommitTransfer(c)
  BY <1>1, <1>2, <1>3, <1>4
     DEF Attempt!CommitInitial, CommitInitial, Attempt!CommitTransfer, CommitTransfer
<1>7. ASSUME NEW c
      PROVE  /\ Attempt!CommitRenew(c) <=> CommitRenew(c)
             /\ Attempt!CommitRelease(c) <=> CommitRelease(c)
             /\ Attempt!CommitRevoke(c) <=> CommitRevoke(c)
  BY <1>1, <1>2, <1>3, SameTables
     DEF Attempt!CommitRenew, CommitRenew, Attempt!CommitRelease, CommitRelease,
         Attempt!CommitRevoke, CommitRevoke
<1> QED
  BY <1>5, <1>6, <1>7

\* Every step about the lease changes the tables as AuthorityProofs allows.
LEMMA LeaseSteps == TablesAgree /\ [Attempt!Next]_(Attempt!vars) => TableStep
<1> SUFFICES ASSUME TablesAgree, [Attempt!Next]_(Attempt!vars) PROVE TableStep
  OBVIOUS
<1> USE DEF TablesAgree, TablesTypeOK, CommandType
<1>1. ASSUME NEW c \in Commands, Attempt!CommandStep(c) PROVE TableStep
  <2>1. CASE Attempt!ResolveChange(c)
    BY <2>1, RequestSteps, SameRequests, SameTables
       DEF Attempt!ResolveChange, Attempt!ResolveAcquisition
  <2>2. CASE \/ Attempt!AcquireInitially(c) \/ Attempt!AcquireByTransfer(c)
             \/ Attempt!ChangeOwn(c)
    BY <2>2, CommitSteps, SameCommits
       DEF Attempt!AcquireInitially, Attempt!AcquireByTransfer, Attempt!ChangeOwn
  <2>3. CASE Attempt!Abandon(c) /\ UNCHANGED attemptState
    BY <2>3, RequestSteps, SameRequests, SameTables
  <2> QED
    BY <1>1, <2>1, <2>2, <2>3 DEF Attempt!CommandStep
<1>2. CASE Attempt!LifecycleStep
  <2>1. CASE Attempt!Stop \/ Attempt!Continue
    BY <2>1 DEF Attempt!Stop, Attempt!Continue, Attempt!tables, tables, TableStep
  <2>2. ASSUME NEW after \in {"active", "stopped"}, Attempt!AnswerReview(after)
        PROVE  TableStep
    BY <2>2, FenceSteps, SameCommits DEF Attempt!AnswerReview
  <2>3. CASE Attempt!Finish
    BY <2>3, FenceSteps, SameCommits
       DEF Attempt!Finish, Attempt!tables, tables, TableStep
  <2> QED
    BY <1>2, <2>1, <2>2, <2>3 DEF Attempt!LifecycleStep
<1>3. CASE Attempt!Tick /\ UNCHANGED attemptState
  BY <1>3 DEF Attempt!Tick, Attempt!tables, tables, TableStep
<1>4. CASE UNCHANGED Attempt!vars
  BY <1>4 DEF Attempt!vars, Attempt!tables, tables, TableStep
<1> QED
  BY <1>1, <1>2, <1>3, <1>4 DEF Attempt!Next

\* Counter, anchors and row of an attempt always agree.
THEOREM AttemptTablesCorrect == Attempt!Spec => []TablesAgree
<1>1. Attempt!Init => TablesAgree
  BY InitAgrees, SameTables DEF Attempt!Init
<1>2. TablesAgree /\ [Attempt!Next]_(Attempt!vars) => TablesAgree'
  BY LeaseSteps, StepAgrees
<1> QED
  BY <1>1, <1>2, PTL DEF Attempt!Spec

\* The worker lease implements the abstract grant: whatever commands were
\* resolved against an earlier state, a pair that was ended or replaced is
\* spent.
THEOREM AttemptFences == Attempt!Spec => Fencing
<1>1. Attempt!Init => Grant!Init
  BY InitGrants, SameTables DEF Attempt!Init
<1>2. TablesAgree /\ [Attempt!Next]_(Attempt!vars) => [Grant!Next]_<<InForce, granted \ {InForce}>>
  BY LeaseSteps, StepGrants
<1> QED
  BY <1>1, <1>2, AttemptTablesCorrect, PTL DEF Attempt!Spec, Fencing, Grant!Spec

\* A finished attempt keeps its lease ended, against every late command.
THEOREM FinishedCorrect == Attempt!Spec => []FinishedStaysFenced
<1> USE DEF FinishedStaysFenced, Attempt!FinishedStaysFenced
<1>1. Attempt!Init => FinishedStaysFenced
  BY DEF Attempt!Init
<1>2. FinishedStaysFenced /\ [Attempt!Next]_(Attempt!vars) => FinishedStaysFenced'
  <2> SUFFICES ASSUME FinishedStaysFenced, [Attempt!Next]_(Attempt!vars)
               PROVE  FinishedStaysFenced'
    OBVIOUS
  <2>1. ASSUME NEW c \in Commands, Attempt!CommandStep(c)
        PROVE  FinishedStaysFenced'
    <3>1. CASE Attempt!ResolveChange(c)
      BY <3>1, SameRequests
         DEF Attempt!ResolveChange, Attempt!ResolveAcquisition, ResolveInitial,
             ResolveTransfer, ResolveRenew, ResolveRelease, ResolveRevoke,
             Resolve, tables
    <3>2. CASE Attempt!AcquireInitially(c)
      BY <3>2 DEF Attempt!AcquireInitially
    <3>3. CASE Attempt!AcquireByTransfer(c)
      BY <3>3 DEF Attempt!AcquireByTransfer
    <3>4. CASE Attempt!ChangeOwn(c)
      BY <3>4, SameCommits
         DEF Attempt!ChangeOwn, CommitRenew, CommitRelease, CommitRevoke,
             LiveAt, WriteAuthority
    <3>5. CASE Attempt!Abandon(c) /\ UNCHANGED attemptState
      BY <3>5, SameRequests DEF Abandon, tables
    <3> QED
      BY <2>1, <3>1, <3>2, <3>3, <3>4, <3>5 DEF Attempt!CommandStep
  <2>2. CASE Attempt!LifecycleStep
    BY <2>2, SameCommits
       DEF Attempt!LifecycleStep, Attempt!Stop, Attempt!Continue,
           Attempt!AnswerReview, Attempt!Finish, Fence, WriteAuthority,
           Attempt!tables
  <2>3. CASE Attempt!Tick /\ UNCHANGED attemptState
    BY <2>3 DEF Attempt!Tick, Attempt!tables
  <2>4. CASE UNCHANGED Attempt!vars
    BY <2>4 DEF Attempt!vars, Attempt!tables
  <2> QED
    BY <2>1, <2>2, <2>3, <2>4 DEF Attempt!Next
<1> QED
  BY <1>1, <1>2, PTL DEF Attempt!Spec

\* What a command changes is what its snapshot showed: of two commands that
\* observed one state the later is refused.
THEOREM NoChangeIsLostCorrect == Attempt!Spec => NoChangeIsLost
<1> DEFINE Kept(c) ==
      /\ command[c].kind \in {"transfer", "renew", "release", "revoke"}
      /\ command'[c] = Attempt!Idle
      /\ row' # row
      => /\ command[c].seen.generation = row.generation
         /\ command[c].seen.holder = Attempt!Retained.holder
<1>1. TablesAgree /\ [Attempt!Next]_(Attempt!vars)
      => [\A c \in Commands : Kept(c)]_(Attempt!vars)
  <2> SUFFICES ASSUME TablesAgree, Attempt!Next, NEW c \in Commands,
                      command[c].kind \in {"transfer", "renew", "release", "revoke"},
                      command'[c] = Idle, row' # row
               PROVE  /\ command[c].seen.generation = row.generation
                      /\ command[c].seen.holder = Retained.holder
    BY SameTables
  <2>1. command[c] # Idle
    BY DEF Idle
  <2>2. command \in [Commands -> [kind : Kinds, now : Nat, duration : Nat, seen : Token]]
    BY DEF TablesAgree, TablesTypeOK
  <2>3. PICK d \in Commands : Attempt!CommandStep(d)
    BY <2>1, SameTables, SameCommits
       DEF Attempt!Next, Attempt!LifecycleStep, Attempt!Stop, Attempt!Continue,
           Attempt!AnswerReview, Attempt!Finish, Attempt!Tick, Attempt!tables
  <2>4. \/ CommitInitial(d) \/ CommitTransfer(d) \/ CommitRenew(d)
        \/ CommitRelease(d) \/ CommitRevoke(d)
    BY <2>3, SameRequests, SameCommits
       DEF Attempt!CommandStep, Attempt!ResolveChange, Attempt!ResolveAcquisition,
           Attempt!AcquireInitially, Attempt!AcquireByTransfer, Attempt!ChangeOwn,
           ResolveInitial, ResolveTransfer, ResolveRenew, ResolveRelease,
           ResolveRevoke, Resolve, Abandon, tables
  <2>5. d = c
    BY <2>1, <2>2, <2>4
       DEF CommitInitial, CommitTransfer, CommitRenew, CommitRelease,
           CommitRevoke, Requested
  <2>6. CASE CommitTransfer(c)
    BY <2>6 DEF CommitTransfer, AsInactive, Retained
  <2>7. CASE CommitRenew(c) \/ CommitRelease(c)
    BY <2>7 DEF CommitRenew, CommitRelease, Retained
  <2>8. CASE CommitRevoke(c)
    BY <2>8 DEF CommitRevoke
  <2> QED
    BY <2>4, <2>5, <2>6, <2>7, <2>8 DEF CommitInitial, Requested
<1> QED
  BY <1>1, AttemptTablesCorrect, PTL
     DEF Attempt!Spec, NoChangeIsLost, Attempt!NoChangeIsLost

=============================================================================
