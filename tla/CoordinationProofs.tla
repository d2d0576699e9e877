------------------------- MODULE CoordinationProofs -------------------------
(***************************************************************************)
(* For any number of tasks, any durations and any age of the sampled time: *)
(*                                                                         *)
(*  - the coordination lease fences.  The invariant is ReceiptsAreBehind:  *)
(*    no receipt is ahead of the row, so a generation the row has not had  *)
(*    yet has never been handed out;                                       *)
(*  - a command that borrows it commits and cleans up under its own lease  *)
(*    only (BorrowInv; this one rests on identities being generated once); *)
(*  - a receipt of an action is executed once, on what its holder saw, and *)
(*    not refused for the work of others (ReceiptsInv).                    *)
(***************************************************************************)
EXTENDS MCBorrowedCoordination, TLAPS

\* Requested lengths and the age of a sampled time are numbers.
LEMMA Times ==
    /\ \A duration \in Durations : duration \in Int
    /\ \A lag \in 0..MaxLag : lag \in Int
  BY DurationsAssumption, BoundsAssumption

-----------------------------------------------------------------------------
(* The invariant.                                                          *)

\* The database starts without a lease, so nothing has been issued.
LEMMA InitBehind == Init => ReceiptsAreBehind
  BY DEF Init, ReceiptsAreBehind, TypeOK, LeaseStates

\* Each write transaction keeps every receipt at or behind the row.
LEMMA NextBehind == ReceiptsAreBehind /\ [Next]_vars => ReceiptsAreBehind'
<1> SUFFICES ASSUME ReceiptsAreBehind, [Next]_vars PROVE ReceiptsAreBehind'
  OBVIOUS
<1> USE Times DEF ReceiptsAreBehind, TypeOK, LeaseStates, Write, Token
<1>1. ASSUME NEW lag \in 0..MaxLag, NEW task \in Tasks,
             NEW duration \in Durations, Acquire(task, duration, lag)
      PROVE  ReceiptsAreBehind'
  BY <1>1 DEF Acquire
<1>2. ASSUME NEW lag \in 0..MaxLag, NEW receipt \in receipts,
             NEW duration \in Durations, Renew(receipt, duration, lag)
      PROVE  ReceiptsAreBehind'
  BY <1>2 DEF Renew, Matches
<1>3. ASSUME NEW lag \in 0..MaxLag, NEW receipt \in receipts,
             Release(receipt, lag)
      PROVE  ReceiptsAreBehind'
  BY <1>3 DEF Release, Matches
<1>4. ASSUME NEW lag \in 0..MaxLag, Revoke(lag)
      PROVE  ReceiptsAreBehind'
  BY <1>4 DEF Revoke
<1>5. ASSUME NEW lag \in 0..MaxLag, NEW task \in Tasks, Transfer(task, lag)
      PROVE  ReceiptsAreBehind'
  BY <1>5 DEF Transfer, Live
<1>6. CASE Tick
  BY <1>6 DEF Tick
<1>7. CASE UNCHANGED vars
  BY <1>7 DEF vars
<1> QED
  BY <1>1, <1>2, <1>3, <1>4, <1>5, <1>6, <1>7 DEF Next

\* No receipt of the coordination lease is ever ahead of its row.
THEOREM BehindCorrect == Spec => []ReceiptsAreBehind
  BY InitBehind, NextBehind, PTL DEF Spec

-----------------------------------------------------------------------------
(* The promise of FencedGrant, step by step.                               *)

\* A receipt of a later generation than the row's has never been issued.
LEMMA LaterIsFresh ==
    ASSUME ReceiptsAreBehind, NEW id \in Nat
    PROVE  [id |-> id, generation |-> lease.generation + 1] \notin receipts
  BY DEF ReceiptsAreBehind, TypeOK

\* A step that issues a fresh pair, or keeps it, or ends it, is a step of
\* FencedGrant.
LEMMA NextGrant ==
    ReceiptsAreBehind /\ [Next]_vars
        => [Grant!Next]_<<InForce, receipts \ {InForce}>>
<1> SUFFICES ASSUME ReceiptsAreBehind, [Next]_vars
             PROVE  [Grant!Next]_<<InForce, receipts \ {InForce}>>
  OBVIOUS
<1>a. NoGrant \notin receipts
  BY NoGrantAssumption DEF ReceiptsAreBehind, TypeOK
<1>b. InForce \in receipts \cup {NoGrant}
  BY DEF ReceiptsAreBehind, InForce
<1>issue. ASSUME InForce' \notin receipts \cup {NoGrant},
                 receipts' = receipts \cup {InForce'}
          PROVE  Grant!Issue
  BY <1>issue, <1>a, <1>b, Zenon DEF Grant!Issue, Grant!Retire
<1>end. ASSUME InForce # NoGrant, InForce' = NoGrant, receipts' = receipts
        PROVE  Grant!End
  BY <1>end, <1>a, <1>b, Zenon DEF Grant!End, Grant!Retire
<1>same. ASSUME InForce' = InForce, receipts' = receipts
         PROVE  UNCHANGED <<InForce, receipts \ {InForce}>>
  BY <1>same
<1>1. ASSUME NEW lag \in 0..MaxLag, NEW task \in Tasks,
             NEW duration \in Durations, Acquire(task, duration, lag)
      PROVE  Grant!Issue
  <2>1. /\ InForce' = [id |-> minted + 1, generation |-> lease.generation + 1]
        /\ receipts' = receipts \cup {InForce'}
    BY <1>1 DEF Acquire, Write, InForce, Token
  <2>2. InForce' \notin receipts \cup {NoGrant}
    BY <2>1, LaterIsFresh, NoGrantAssumption DEF ReceiptsAreBehind, TypeOK
  <2> QED
    BY <2>1, <2>2, <1>issue
<1>2. ASSUME NEW lag \in 0..MaxLag, NEW receipt \in receipts,
             NEW duration \in Durations, Renew(receipt, duration, lag)
      PROVE  UNCHANGED <<InForce, receipts \ {InForce}>>
  <2>1. InForce' = InForce /\ receipts' = receipts
    BY <1>2 DEF Renew, Matches, Write, InForce, Token, ReceiptsAreBehind
  <2> QED
    BY <2>1, <1>same
<1>3. ASSUME NEW lag \in 0..MaxLag, NEW receipt \in receipts,
             Release(receipt, lag)
      PROVE  Grant!End
  <2>1. InForce # NoGrant /\ InForce' = NoGrant /\ receipts' = receipts
    BY <1>3, <1>a DEF Release, Matches, Write, InForce
  <2> QED
    BY <2>1, <1>end
<1>4. ASSUME NEW lag \in 0..MaxLag, Revoke(lag)
      PROVE  \/ Grant!End
             \/ UNCHANGED <<InForce, receipts \ {InForce}>>
  <2>1. InForce' = NoGrant /\ receipts' = receipts
    BY <1>4 DEF Revoke, Write, InForce
  <2> QED
    BY <2>1, <1>end, <1>same
<1>5. ASSUME NEW lag \in 0..MaxLag, NEW task \in Tasks, Transfer(task, lag)
      PROVE  Grant!Issue
  <2>1. /\ InForce' = [id |-> lease.id, generation |-> lease.generation + 1]
        /\ receipts' = receipts \cup {InForce'}
    BY <1>5 DEF Transfer, Write, InForce, Token
  <2>2. InForce' \notin receipts \cup {NoGrant}
    BY <2>1, LaterIsFresh, NoGrantAssumption DEF ReceiptsAreBehind, TypeOK
  <2> QED
    BY <2>1, <2>2, <1>issue
<1>6. ASSUME Tick
      PROVE  UNCHANGED <<InForce, receipts \ {InForce}>>
  BY <1>6 DEF Tick, InForce, Token
<1>7. ASSUME UNCHANGED vars
      PROVE  UNCHANGED <<InForce, receipts \ {InForce}>>
  BY <1>7 DEF vars, InForce, Token
<1> QED
  BY <1>1, <1>2, <1>3, <1>4, <1>5, <1>6, <1>7 DEF Next, Grant!Next

\* The coordination lease implements the abstract grant: a pair that was
\* released, revoked, transferred away or replaced never authorizes again.
THEOREM CoordinationFences == Spec => Fencing
<1>1. Init => Grant!Init
  BY DEF Init, Grant!Init, InForce
<1> QED
  BY <1>1, NextGrant, BehindCorrect, PTL DEF Spec, Fencing, Grant!Spec

\* Whoever the lease is handed to gets a pair nobody else has been given.
THEOREM HandoverCorrect == Spec => HandoverChangesToken
<1> DEFINE Changes == lease.state = "active" /\ lease'.state = "active"
                      /\ lease'.task # lease.task => Token(lease') \notin receipts
<1>1. ReceiptsAreBehind /\ [Next]_vars => [Changes]_vars
  <2> SUFFICES ASSUME ReceiptsAreBehind, Next, lease.state = "active",
                      lease'.state = "active", lease'.task # lease.task
               PROVE  Token(lease') \notin receipts
    OBVIOUS
  <2>1. ASSUME NEW lag \in 0..MaxLag, NEW task \in Tasks,
               NEW duration \in Durations, Acquire(task, duration, lag)
        PROVE  Token(lease') \notin receipts
    BY <2>1, LaterIsFresh
       DEF Acquire, Write, Token, ReceiptsAreBehind, TypeOK
  <2>2. ASSUME NEW lag \in 0..MaxLag, NEW task \in Tasks, Transfer(task, lag)
        PROVE  Token(lease') \notin receipts
    BY <2>2, LaterIsFresh
       DEF Transfer, Write, Token, ReceiptsAreBehind, TypeOK
  <2>3. ASSUME NEW lag \in 0..MaxLag, NEW receipt \in receipts,
               NEW duration \in Durations, Renew(receipt, duration, lag)
        PROVE  FALSE
    BY <2>3 DEF Renew, Write
  <2>4. ASSUME NEW lag \in 0..MaxLag, NEW receipt \in receipts,
               Release(receipt, lag)
        PROVE  FALSE
    BY <2>4 DEF Release, Write
  <2>5. ASSUME NEW lag \in 0..MaxLag, Revoke(lag)
        PROVE  FALSE
    BY <2>5 DEF Revoke, Write
  <2>6. ~Tick
    BY DEF Tick
  <2> QED
    BY <2>1, <2>2, <2>3, <2>4, <2>5, <2>6 DEF Next
<1> QED
  BY <1>1, BehindCorrect, PTL DEF Spec, HandoverChangesToken

(***************************************************************************)
(* Commands that borrow the lease.  An identity is generated once, so what *)
(* a command generated names its own lease until somebody acquires anew,   *)
(* and a pair of that identity names it under its own task.                *)
(***************************************************************************)

Steps == {"idle", "acquired", "reread", "settled"}
Outcomes == {"none", "fenced", "applied", "rejected", "release failed",
             "crashed"}

BorrowTypeOK ==
    /\ pc \in [Borrowers -> Steps]
    /\ payload \in [Borrowers -> {"sound", "malformed"}]
    /\ wanted \in [Borrowers -> Nat]
    /\ authority \in [Borrowers -> [id : Nat, generation : Nat] \cup {NoGrant}]
    /\ committed \in [Borrowers -> BOOLEAN]
    /\ outcome \in [Borrowers -> Outcomes]

\* The identities on record were all generated, each for one command.
IdentitiesAreFresh ==
    /\ lease.id <= minted
    /\ \A b \in Borrowers :
          /\ wanted[b] <= minted
          /\ pc[b] # "idle" => wanted[b] > 0
          /\ \A c \in Borrowers : wanted[b] = wanted[c] /\ wanted[b] > 0 => b = c

\* What a command took up from its reread is a pair of the identity it
\* generated; while the row still shows that pair, it is the command's.
AuthorityIsOwn ==
    \A b \in Borrowers :
        pc[b] \in {"reread", "settled"} =>
            /\ authority[b] \in [id : {wanted[b]}, generation : Nat]
            /\ authority[b].generation <= lease.generation
            /\ Token(lease) = authority[b] => lease.task = b

BorrowInv ==
    /\ ReceiptsAreBehind
    /\ BorrowTypeOK
    /\ IdentitiesAreFresh
    /\ AuthorityIsOwn
    /\ ResultMeansReleased

\* What a transaction can do to the row: a fresh identity, or the same one
\* with its pair and holder kept or its generation advanced; and only a
\* fresh identity makes an ended lease active.
RowMoves ==
    \/ /\ lease'.id = minted + 1
       /\ minted' = minted + 1
       /\ lease'.generation = lease.generation + 1
    \/ /\ lease'.id = lease.id
       /\ minted' = minted
       /\ lease.state # "active" => lease'.state # "active"
       /\ \/ lease'.generation = lease.generation /\ lease'.task = lease.task
          \/ lease'.generation = lease.generation + 1

\* Every command on the lease moves its row in one of these ways.
LEMMA NextMoves == [Next]_vars => RowMoves
<1> SUFFICES ASSUME [Next]_vars PROVE RowMoves
  OBVIOUS
<1> USE DEF RowMoves, Write
<1>1. ASSUME NEW lag \in 0..MaxLag, NEW task \in Tasks,
             NEW duration \in Durations, Acquire(task, duration, lag)
      PROVE  RowMoves
  BY <1>1 DEF Acquire
<1>2. ASSUME NEW lag \in 0..MaxLag, NEW receipt \in receipts,
             NEW duration \in Durations, Renew(receipt, duration, lag)
      PROVE  RowMoves
  BY <1>2 DEF Renew, Matches
<1>3. ASSUME NEW lag \in 0..MaxLag, NEW receipt \in receipts,
             Release(receipt, lag)
      PROVE  RowMoves
  BY <1>3 DEF Release, Matches
<1>4. ASSUME NEW lag \in 0..MaxLag, Revoke(lag) PROVE RowMoves
  BY <1>4 DEF Revoke
<1>5. ASSUME NEW lag \in 0..MaxLag, NEW task \in Tasks, Transfer(task, lag)
      PROVE  RowMoves
  BY <1>5 DEF Transfer, Live
<1>6. CASE Tick
  BY <1>6 DEF Tick
<1>7. CASE UNCHANGED vars
  BY <1>7 DEF vars
<1> QED
  BY <1>1, <1>2, <1>3, <1>4, <1>5, <1>6, <1>7 DEF Next

\* A command that borrows the lease takes no other steps on its row than the
\* commands on the lease themselves.
LEMMA BorrowStepsOnRow ==
    ReceiptsAreBehind /\ [BorrowNext]_borrowVars => [Next]_vars
<1> SUFFICES ASSUME ReceiptsAreBehind, [BorrowNext]_borrowVars
             PROVE  [Next]_vars
  OBVIOUS
<1>0. \A b \in Borrowers : b \in Tasks
  BY BorrowersAssumption
<1>1. ASSUME NEW b \in Borrowers, NEW lag \in 0..MaxLag,
             NEW duration \in Durations, BorrowAcquire(b, duration, lag)
      PROVE  Next
  BY <1>0, <1>1 DEF BorrowAcquire, Next
<1>2. ASSUME NEW b \in Borrowers, NEW lag \in 0..MaxLag,
             ReleaseBorrowed(b, lag)
      PROVE  Next
  <2>1. authority[b] \in receipts
    BY <1>2 DEF ReleaseBorrowed, Release, Matches, ReceiptsAreBehind
  <2> QED
    BY <1>2, <2>1 DEF ReleaseBorrowed, Next
<1>3. ASSUME NEW b \in Borrowers, NEW lag \in 0..MaxLag,
             \/ Reread(b)
             \/ RereadFenced(b)
             \/ CommitTransition(b, lag)
             \/ RejectTransition(b)
             \/ ReleaseFails(b)
             \/ Crash(b)
      PROVE  UNCHANGED vars
  BY <1>3 DEF Reread, RereadFenced, CommitTransition, RejectTransition,
              ReleaseFails, Crash
<1>4. ASSUME NEW lag \in 0..MaxLag, LeaseCommand(lag) PROVE Next
  BY <1>4 DEF LeaseCommand, Next
<1>5. OtherCommit => UNCHANGED vars
  BY DEF OtherCommit
<1>6. Tick => Next
  BY DEF Next
<1>7. UNCHANGED borrowVars => UNCHANGED vars
  BY DEF borrowVars
<1> QED
  BY <1>1, <1>2, <1>3, <1>4, <1>5, <1>6, <1>7 DEF BorrowNext, BorrowStep

\* Nobody borrows anything at first.
LEMMA InitBorrow == BorrowInit => BorrowInv
<1> SUFFICES ASSUME BorrowInit PROVE BorrowInv
  OBVIOUS
<1>1. ReceiptsAreBehind
  BY InitBehind DEF BorrowInit
<1>2. BorrowTypeOK
  BY DEF BorrowInit, BorrowTypeOK, Steps, Outcomes
<1>3. IdentitiesAreFresh
  BY DEF BorrowInit, Init, IdentitiesAreFresh
<1>4. AuthorityIsOwn
  BY DEF BorrowInit, AuthorityIsOwn
<1>5. ResultMeansReleased
  BY DEF BorrowInit, ResultMeansReleased
<1> QED
  BY <1>1, <1>2, <1>3, <1>4, <1>5 DEF BorrowInv

\* Whatever happens to the row, commands that take no step keep what they
\* may rely on.
LEMMA RowKeepsCommands ==
    ASSUME BorrowInv, RowMoves, ReceiptsAreBehind', UNCHANGED commandVars
    PROVE  BorrowInv'
<1> USE DEF BorrowInv, commandVars
<1>0. /\ minted \in Nat /\ lease.id \in Nat /\ lease.generation \in Nat
      /\ \A b \in Borrowers : wanted[b] \in Nat
      /\ lease'.id \in Nat /\ lease'.generation \in Nat
      /\ NoGrant \notin [id : Nat, generation : Nat]
  BY NoGrantAssumption DEF ReceiptsAreBehind, TypeOK, BorrowTypeOK
<1>1. BorrowTypeOK'
  BY DEF BorrowTypeOK
<1>2. IdentitiesAreFresh'
  BY <1>0 DEF IdentitiesAreFresh, RowMoves
<1>3. AuthorityIsOwn'
  <2> SUFFICES ASSUME NEW b \in Borrowers, pc[b] \in {"reread", "settled"}
               PROVE  /\ authority[b] \in [id : {wanted[b]}, generation : Nat]
                      /\ authority[b].generation <= lease'.generation
                      /\ Token(lease') = authority[b] => lease'.task = b
    BY DEF AuthorityIsOwn
  <2>1. /\ authority[b] \in [id : {wanted[b]}, generation : Nat]
        /\ authority[b].generation <= lease.generation
        /\ Token(lease) = authority[b] => lease.task = b
    BY DEF AuthorityIsOwn
  <2>2. wanted[b] <= minted
    BY DEF IdentitiesAreFresh
  <2> QED
    BY <1>0, <2>1, <2>2 DEF RowMoves, Token
<1>4. ResultMeansReleased'
  BY <1>0 DEF ResultMeansReleased, LeftBehind, RowMoves, IdentitiesAreFresh
<1> QED
  BY <1>1, <1>2, <1>3, <1>4

\* The acquisition of a command generates an identity of its own.
LEMMA AcquireKeepsInv ==
    ASSUME BorrowInv, ReceiptsAreBehind', NEW b \in Borrowers,
           NEW lag \in 0..MaxLag, NEW duration \in Durations,
           BorrowAcquire(b, duration, lag)
    PROVE  BorrowInv'
<1> USE DEF BorrowInv
<1>0. /\ minted \in Nat /\ lease.generation \in Nat
      /\ \A c \in Borrowers : wanted[c] \in Nat
  BY DEF ReceiptsAreBehind, TypeOK, BorrowTypeOK
<1>1. /\ lease'.id = minted + 1 /\ minted' = minted + 1
      /\ lease'.generation = lease.generation + 1
      /\ pc' = [pc EXCEPT ![b] = "acquired"]
      /\ wanted' = [wanted EXCEPT ![b] = minted + 1]
      /\ committed' = [committed EXCEPT ![b] = FALSE]
      /\ outcome' = [outcome EXCEPT ![b] = "none"]
      /\ authority' = authority
      /\ \E kind \in {"sound", "malformed"} :
            payload' = [payload EXCEPT ![b] = kind]
  BY DEF BorrowAcquire, Acquire, Write, Goto
<1>2. BorrowTypeOK'
  <2>1. payload' \in [Borrowers -> {"sound", "malformed"}]
    BY <1>1 DEF BorrowTypeOK
  <2>2. wanted' \in [Borrowers -> Nat]
    BY <1>0, <1>1 DEF BorrowTypeOK
  <2>3. pc' \in [Borrowers -> Steps] /\ outcome' \in [Borrowers -> Outcomes]
    BY <1>1 DEF BorrowTypeOK, Steps, Outcomes
  <2>4. committed' \in [Borrowers -> BOOLEAN]
    BY <1>1 DEF BorrowTypeOK
  <2> QED
    BY <1>1, <2>1, <2>2, <2>3, <2>4 DEF BorrowTypeOK
<1>3. IdentitiesAreFresh'
  BY <1>0, <1>1 DEF IdentitiesAreFresh, BorrowTypeOK
<1>4. AuthorityIsOwn'
  <2> SUFFICES ASSUME NEW c \in Borrowers, pc'[c] \in {"reread", "settled"}
               PROVE  /\ authority[c] \in [id : {wanted'[c]}, generation : Nat]
                      /\ authority[c].generation <= lease'.generation
                      /\ Token(lease') = authority[c] => lease'.task = c
    BY <1>1 DEF AuthorityIsOwn
  <2>1. c # b /\ pc[c] \in {"reread", "settled"} /\ wanted'[c] = wanted[c]
    BY <1>1 DEF BorrowTypeOK
  <2>2. /\ authority[c] \in [id : {wanted[c]}, generation : Nat]
        /\ authority[c].generation <= lease.generation
        /\ wanted[c] <= minted
    BY <2>1 DEF AuthorityIsOwn, IdentitiesAreFresh
  <2> QED
    BY <1>0, <1>1, <2>1, <2>2 DEF Token
<1>5. ResultMeansReleased'
  BY <1>0, <1>1 DEF ResultMeansReleased, LeftBehind, IdentitiesAreFresh,
                    BorrowTypeOK
<1> QED
  BY <1>2, <1>3, <1>4, <1>5

\* The steps of a command between its acquisition and its end write nothing
\* on the row: what it takes up is its own pair, at the row's generation.
LEMMA MiddleKeepsInv ==
    ASSUME BorrowInv, NEW b \in Borrowers, NEW lag \in 0..MaxLag,
           Reread(b) \/ CommitTransition(b, lag) \/ RejectTransition(b)
    PROVE  BorrowInv'
<1> USE DEF BorrowInv
<1>0. lease \in [task : Tasks \cup {NoTask}, id : Nat, generation : Nat,
                 remaining : Int, state : LeaseStates]
  BY DEF ReceiptsAreBehind, TypeOK
<1>1. /\ UNCHANGED <<vars, payload, wanted, outcome>>
      /\ pc[b] # "idle"
      /\ \E step \in {"reread", "settled"} : pc' = [pc EXCEPT ![b] = step]
      /\ committed' \in {committed, [committed EXCEPT ![b] = TRUE]}
  BY DEF Reread, CommitTransition, RejectTransition, Goto
<1>2. \/ /\ lease.id = wanted[b] /\ lease.task = b
         /\ authority' = [authority EXCEPT ![b] = Token(lease)]
      \/ pc[b] = "reread" /\ authority' = authority
  BY DEF Reread, CommitTransition, RejectTransition
<1>3. ReceiptsAreBehind'
  BY <1>1 DEF vars, ReceiptsAreBehind, TypeOK
<1>4. BorrowTypeOK'
  <2>1. authority' \in [Borrowers -> [id : Nat, generation : Nat] \cup {NoGrant}]
    BY <1>0, <1>2 DEF BorrowTypeOK, Token
  <2>2. pc' \in [Borrowers -> Steps]
    BY <1>1 DEF BorrowTypeOK, Steps
  <2>3. committed' \in [Borrowers -> BOOLEAN]
    BY <1>1 DEF BorrowTypeOK
  <2> QED
    BY <1>1, <2>1, <2>2, <2>3 DEF BorrowTypeOK
<1>5. IdentitiesAreFresh'
  BY <1>1 DEF IdentitiesAreFresh, vars, BorrowTypeOK
<1>6. AuthorityIsOwn'
  BY <1>0, <1>1, <1>2 DEF AuthorityIsOwn, vars, BorrowTypeOK, Token
<1>7. ResultMeansReleased'
  BY <1>1 DEF ResultMeansReleased, LeftBehind, vars
<1> QED
  BY <1>3, <1>4, <1>5, <1>6, <1>7

\* A command that ends has released its own lease, if it reports a result.
LEMMA EndKeepsInv ==
    ASSUME BorrowInv, ReceiptsAreBehind', NEW b \in Borrowers,
           NEW lag \in 0..MaxLag,
           \/ RereadFenced(b)
           \/ ReleaseBorrowed(b, lag)
           \/ ReleaseFails(b)
           \/ Crash(b)
    PROVE  BorrowInv'
<1> USE DEF BorrowInv
<1> DEFINE Ends(how) ==
        /\ pc' = [pc EXCEPT ![b] = "idle"]
        /\ outcome' = [outcome EXCEPT ![b] = how]
        /\ UNCHANGED <<payload, wanted, authority, committed>>
        /\ \/ lease' = lease /\ how \notin {"applied", "rejected"}
           \/ lease'.state = "released"
        /\ Token(lease') = Token(lease) /\ lease'.task = lease.task
        /\ minted' = minted
<1>1. PICK how \in Outcomes : Ends(how)
  <2>1. ASSUME ReleaseBorrowed(b, lag) PROVE Ends(Report(b))
    BY <2>1 DEF ReleaseBorrowed, End, Goto, Release, Write, Token
  <2>2. Report(b) \in Outcomes
    BY DEF Report, Outcomes
  <2>3. RereadFenced(b) => Ends("fenced")
    BY DEF RereadFenced, End, Goto, vars
  <2>4. ReleaseFails(b) => Ends("release failed")
    BY DEF ReleaseFails, End, Goto, vars
  <2>5. Crash(b) => Ends("crashed")
    BY DEF Crash, End, Goto, vars
  <2> HIDE DEF Ends
  <2> QED
    BY <2>1, <2>2, <2>3, <2>4, <2>5 DEF Outcomes
<1>2. BorrowTypeOK'
  BY <1>1 DEF BorrowTypeOK, Steps
<1>3. lease'.id = lease.id /\ lease'.generation = lease.generation
  BY <1>1 DEF Token
<1>4. IdentitiesAreFresh'
  BY <1>1, <1>3 DEF IdentitiesAreFresh, BorrowTypeOK
<1>5. AuthorityIsOwn'
  BY <1>1, <1>3 DEF AuthorityIsOwn, BorrowTypeOK
<1>6. ResultMeansReleased'
  BY <1>1, <1>3 DEF ResultMeansReleased, LeftBehind, BorrowTypeOK
<1> QED
  BY <1>2, <1>4, <1>5, <1>6

\* Every step of every process keeps the invariant of borrowing.
LEMMA NextBorrow == BorrowInv /\ [BorrowNext]_borrowVars => BorrowInv'
<1> SUFFICES ASSUME BorrowInv, [BorrowNext]_borrowVars PROVE BorrowInv'
  OBVIOUS
<1>0. RowMoves /\ ReceiptsAreBehind'
  BY BorrowStepsOnRow, NextMoves, NextBehind DEF BorrowInv
<1>1. ASSUME NEW b \in Borrowers, NEW lag \in 0..MaxLag, BorrowStep(b, lag)
      PROVE  BorrowInv'
  BY <1>0, <1>1, AcquireKeepsInv, MiddleKeepsInv, EndKeepsInv DEF BorrowStep
<1>2. ASSUME UNCHANGED commandVars PROVE BorrowInv'
  BY <1>0, <1>2, RowKeepsCommands
<1> QED
  BY <1>1, <1>2 DEF BorrowNext, LeaseCommand, OtherCommit, borrowVars

\* What every state of the borrowing commands satisfies.
THEOREM BorrowCorrect == BorrowSpec => []BorrowInv
  BY InitBorrow, NextBorrow, PTL DEF BorrowSpec

\* A command that reports applied or rejected has left no lease in force.
THEOREM ResultCorrect == BorrowSpec => []ResultMeansReleased
<1>1. BorrowInv => ResultMeansReleased
  BY DEF BorrowInv
<1> QED
  BY <1>1, BorrowCorrect, PTL

\* The cleanup never ends authority that somebody else holds.
THEOREM CleanupCorrect == BorrowSpec => CleanupEndsOwnLease
<1> DEFINE Own(b) == pc[b] = "settled" /\ pc'[b] = "idle" /\ lease' # lease =>
                         lease.id = wanted[b] /\ lease.task = b
<1>1. ASSUME BorrowInv, [BorrowNext]_borrowVars, NEW b \in Borrowers
      PROVE  Own(b)
  <2> SUFFICES ASSUME pc[b] = "settled", pc'[b] = "idle", lease' # lease
               PROVE  lease.id = wanted[b] /\ lease.task = b
    OBVIOUS
  <2>1. pc \in [Borrowers -> Steps]
    BY <1>1 DEF BorrowInv, BorrowTypeOK
  <2>2. PICK c \in Borrowers, lag \in 0..MaxLag : BorrowStep(c, lag)
    BY <1>1 DEF BorrowNext, LeaseCommand, OtherCommit, borrowVars, commandVars
  <2>3. c = b
    BY <2>1, <2>2 DEF BorrowStep, BorrowAcquire, Reread, RereadFenced,
          CommitTransition, RejectTransition, ReleaseBorrowed, ReleaseFails,
          Crash, End, Goto
  <2>4. ReleaseBorrowed(b, lag)
    BY <2>2, <2>3 DEF BorrowStep, BorrowAcquire, Reread, RereadFenced,
          CommitTransition, RejectTransition, ReleaseFails, Crash, vars
  <2>5. Token(lease) = authority[b]
    BY <2>4 DEF ReleaseBorrowed, Release, Matches
  <2> QED
    BY <1>1, <2>5 DEF BorrowInv, AuthorityIsOwn, Token
<1>2. BorrowInv /\ [BorrowNext]_borrowVars => [\A b \in Borrowers : Own(b)]_borrowVars
  BY <1>1
<1> QED
  BY <1>2, BorrowCorrect, PTL DEF BorrowSpec, CleanupEndsOwnLease

\* A borrowed transition is committed under the command's own lease in force,
\* and no other command could commit under the same row.
THEOREM CommitCorrect == BorrowSpec => CommitsUnderOwnLease
<1> DEFINE Own(b) == ~committed[b] /\ committed'[b] =>
                         /\ LeftBehind(b) /\ lease.task = b
                         /\ \A c \in Borrowers \ {b} :
                               pc[c] \in {"reread", "settled"} =>
                                   ~Matches(authority[c])
<1>1. ASSUME BorrowInv, [BorrowNext]_borrowVars, NEW b \in Borrowers
      PROVE  Own(b)
  <2> SUFFICES ASSUME ~committed[b], committed'[b]
               PROVE  /\ LeftBehind(b) /\ lease.task = b
                      /\ \A c \in Borrowers \ {b} :
                            pc[c] \in {"reread", "settled"} =>
                                ~Matches(authority[c])
    OBVIOUS
  <2>1. committed \in [Borrowers -> BOOLEAN]
    BY <1>1 DEF BorrowInv, BorrowTypeOK
  <2>2. PICK c \in Borrowers, lag \in 0..MaxLag : BorrowStep(c, lag)
    BY <1>1 DEF BorrowNext, LeaseCommand, OtherCommit, borrowVars, commandVars
  <2>3. CommitTransition(c, lag)
    BY <2>1, <2>2 DEF BorrowStep, BorrowAcquire, Reread, RereadFenced,
          RejectTransition, ReleaseBorrowed, ReleaseFails, Crash, End
  <2>4. c = b
    BY <2>1, <2>3 DEF CommitTransition
  <2>5. /\ pc[b] = "reread" /\ lease.state = "active"
        /\ Token(lease) = authority[b]
    BY <2>3, <2>4 DEF CommitTransition, Matches
  <2>6. lease.id = wanted[b] /\ lease.task = b /\ wanted[b] > 0
    BY <1>1, <2>5 DEF BorrowInv, AuthorityIsOwn, IdentitiesAreFresh, Token
  <2>7. ASSUME NEW d \in Borrowers \ {b}, pc[d] \in {"reread", "settled"},
               Matches(authority[d])
        PROVE  FALSE
    <3>1. lease.id = wanted[d]
      BY <1>1, <2>7 DEF BorrowInv, AuthorityIsOwn, Matches, Token
    <3> QED
      BY <1>1, <2>6, <2>7, <3>1 DEF BorrowInv, IdentitiesAreFresh
  <2> QED
    BY <2>5, <2>6, <2>7 DEF LeftBehind
<1>2. BorrowInv /\ [BorrowNext]_borrowVars => [\A b \in Borrowers : Own(b)]_borrowVars
  BY <1>1
<1> QED
  BY <1>2, BorrowCorrect, PTL DEF BorrowSpec, CommitsUnderOwnLease

-----------------------------------------------------------------------------
(***************************************************************************)
(* Receipts of actions.  Coordinators are bound to the project revision,   *)
(* workers and preparers to the revision of their subject; both only grow, *)
(* and executing a receipt makes its own grow.                             *)
(***************************************************************************)

BoundToSubject == {"worker", "preparer"}

\* A receipt as it was printed: what it is bound to was current then.
AsPrinted(r) ==
    /\ r.capability.role \in Receipts!Roles
    /\ r.capability.item \in Items
    /\ r.capability.move \in Receipts!Moves
    /\ r.asOf \in Nat
    /\ IF r.capability.role \in BoundToSubject
       THEN r.capability.subject \in Nat /\ r.capability.subject <= r.asOf
       ELSE r.capability.expected = r.asOf

\* The ledger: an item's subject revision is the revision that last changed
\* it, and the rows of its grant were written by then, too.
LedgerInv ==
    /\ project \in Nat
    /\ stage \in [Items -> Receipts!Stages]
    /\ stale \in [Items -> BOOLEAN]
    /\ subject \in [Items -> Nat]
    /\ touched = subject
    /\ grant \in [Items -> [pair : Int, row : Int, live : BOOLEAN]]
    /\ \A i \in Items : subject[i] <= project /\ grant[i].row <= project

\* What a process has selected: for a worker or preparer, the action still
\* stands as long as its item was not changed, and the pair it was selected
\* with as long as the row of its grant is the same.
Selected(c) ==
    /\ command[c].phase = "selected"
    /\ AsPrinted(command[c].receipt)
    /\ command[c].capability = command[c].receipt.capability
    /\ command[c].readAt \in Nat /\ command[c].readAt <= project
    /\ LET was == command[c].capability IN
       was.role \in BoundToSubject =>
          /\ command[c].row \in Int /\ command[c].row <= project
          /\ subject[was.item] <= command[c].readAt =>
                /\ subject[was.item] = was.subject
                /\ Receipts!Available(was.role, was.item, was.move)
          /\ grant[was.item].live /\ grant[was.item].row = command[c].row =>
                grant[was.item].pair = was.pair

\* What was executed can not be executed again, and nothing unseen changed.
Executed(x) ==
    /\ AsPrinted(x.receipt)
    /\ IF x.receipt.capability.role \in BoundToSubject
       THEN /\ x.receipt.capability.subject < subject[x.receipt.capability.item]
            /\ x.touched <= x.receipt.asOf
       ELSE x.revision = x.receipt.asOf /\ x.revision < project

ReceiptsInv ==
    /\ LedgerInv
    /\ command = [c \in Tasks |-> command[c]]
    /\ \A r \in held : AsPrinted(r)
    /\ \A c \in Tasks : command[c] = Receipts!Idle \/ Selected(c)
    /\ \A x \in runs : Executed(x)
    /\ ExecutedOnce

\* What a committed transaction, or the passing of time, does to the ledger.
LedgerMoves ==
    /\ project' \in {project, project + 1}
    /\ \A i \in Items :
          /\ \/ /\ subject'[i] = subject[i]
                /\ stage'[i] = stage[i] /\ stale'[i] = stale[i]
             \/ subject'[i] = project + 1 /\ project' = project + 1
          /\ \/ /\ grant'[i].row = grant[i].row /\ grant'[i].pair = grant[i].pair
                /\ grant'[i].live => grant[i].live
             \/ ~grant'[i].live
             \/ grant'[i].row = project + 1 /\ project' = project + 1

\* Applying an action changes its own item, and ends or keeps its grant.
LEMMA ApplyMoves ==
    ASSUME LedgerInv, NEW i \in Items, NEW move \in Receipts!Moves,
           stage[i] \in Receipts!Stages, Receipts!Apply(i, move)
    PROVE  LedgerInv' /\ LedgerMoves /\ project' = project + 1
           /\ subject'[i] = project + 1
<1> USE DEF LedgerInv
<1>1. /\ project' = project + 1
      /\ subject' = [subject EXCEPT ![i] = project + 1]
      /\ touched' = [touched EXCEPT ![i] = project + 1]
      /\ stage' = [stage EXCEPT ![i] = Receipts!To(move, i)]
      /\ grant' = [grant EXCEPT ![i] = Receipts!GrantAfter(move, i)]
  BY DEF Receipts!Apply, Receipts!Advance, Receipts!ChangeItem
<1>2. PICK after \in BOOLEAN : stale' = [stale EXCEPT ![i] = after]
  BY DEF Receipts!Apply, Receipts!SetStale, Receipts!StaleAfter
<1>3. Receipts!To(move, i) \in Receipts!Stages
  BY DEF Receipts!To, Receipts!Moves, Receipts!Stages
<1>4. /\ Receipts!GrantAfter(move, i) \in [pair : Int, row : Int, live : BOOLEAN]
      /\ \/ Receipts!GrantAfter(move, i) = grant[i]
         \/ ~Receipts!GrantAfter(move, i).live
      /\ Receipts!GrantAfter(move, i).row <= project
  <2>1. grant[i] \in [pair : Int, row : Int, live : BOOLEAN] /\ grant[i].row <= project
    OBVIOUS
  <2>2. CASE move = "activate"
    BY <2>2 DEF Receipts!GrantAfter, Receipts!NoRow
  <2>3. CASE move \in {"complete", "return"}
    BY <2>1, <2>3 DEF Receipts!GrantAfter
  <2>4. CASE move \notin {"activate", "complete", "return"}
    BY <2>1, <2>4 DEF Receipts!GrantAfter
  <2> QED
    BY <2>2, <2>3, <2>4
<1>5. LedgerInv'
  BY <1>1, <1>2, <1>3, <1>4
<1>6. LedgerMoves
  BY <1>1, <1>2, <1>4 DEF LedgerMoves
<1> QED
  BY <1>1, <1>5, <1>6

\* So does every other transaction; and time ends a grant.
LEMMA ElsewhereMoves ==
    ASSUME LedgerInv,
           \/ \E i \in Items : \/ Receipts!Acquire(i)
                               \/ Receipts!Renew(i)
                               \/ Receipts!EndGrant(i)
                               \/ Receipts!AttachPrerequisite(i)
           \/ Receipts!Coordinate
           \/ Receipts!CoordinationExpires
    PROVE  LedgerInv' /\ LedgerMoves
<1> USE DEF LedgerInv
<1>0. \A i \in Items : grant[i] \in [pair : Int, row : Int, live : BOOLEAN]
  OBVIOUS
<1>1. ASSUME NEW i \in Items, Receipts!Acquire(i) \/ Receipts!Renew(i)
      PROVE  LedgerInv' /\ LedgerMoves
  <2>1. /\ project' = project + 1
        /\ UNCHANGED <<stage, stale, subject, touched>>
        /\ \E after \in [pair : Int, row : {project + 1}, live : BOOLEAN] :
              grant' = [grant EXCEPT ![i] = after]
    <3>1. CASE Receipts!Acquire(i)
      <4>1. grant' = [grant EXCEPT ![i] =
                        [pair |-> project + 1, row |-> project + 1, live |-> TRUE]]
        BY <3>1 DEF Receipts!Acquire
      <4>2. [pair |-> project + 1, row |-> project + 1, live |-> TRUE]
                \in [pair : Int, row : {project + 1}, live : BOOLEAN]
        OBVIOUS
      <4>3. /\ project' = project + 1
            /\ UNCHANGED <<stage, stale, subject, touched>>
        BY <3>1 DEF Receipts!Acquire, Receipts!Advance
      <4> QED
        BY <4>1, <4>2, <4>3
    <3>2. CASE Receipts!Renew(i)
      <4>1. grant' = [grant EXCEPT ![i] = [grant[i] EXCEPT !.row = project + 1]]
        BY <3>2 DEF Receipts!Renew
      <4>2. [grant[i] EXCEPT !.row = project + 1]
                \in [pair : Int, row : {project + 1}, live : BOOLEAN]
        BY <1>0
      <4>3. /\ project' = project + 1
            /\ UNCHANGED <<stage, stale, subject, touched>>
        BY <3>2 DEF Receipts!Renew, Receipts!Advance
      <4> QED
        BY <4>1, <4>2, <4>3
    <3> QED
      BY <1>1, <3>1, <3>2
  <2> QED
    BY <2>1 DEF LedgerMoves
<1>2. ASSUME NEW i \in Items, Receipts!EndGrant(i)
      PROVE  LedgerInv' /\ LedgerMoves
  <2>1. /\ project' \in {project, project + 1}
        /\ UNCHANGED <<stage, stale, subject, touched>>
        /\ grant' = [grant EXCEPT ![i] = [grant[i] EXCEPT !.live = FALSE]]
    BY <1>2 DEF Receipts!EndGrant, Receipts!Advance
  <2>2. /\ [grant[i] EXCEPT !.live = FALSE] \in [pair : Int, row : Int, live : {FALSE}]
        /\ [grant[i] EXCEPT !.live = FALSE].row = grant[i].row
    BY <1>0
  <2>3. PICK after \in [pair : Int, row : Int, live : {FALSE}] :
           after.row = grant[i].row /\ grant' = [grant EXCEPT ![i] = after]
    BY <2>1, <2>2
  <2>4. /\ \A j \in Items : grant'[j] = IF j = i THEN after ELSE grant[j]
        /\ grant' \in [Items -> [pair : Int, row : Int, live : BOOLEAN]]
    BY <1>0, <2>3
  <2>5. LedgerInv'
    BY <2>1, <2>3, <2>4
  <2>6. LedgerMoves
    BY <2>1, <2>3, <2>4 DEF LedgerMoves
  <2> QED
    BY <2>5, <2>6
<1>3. ASSUME NEW i \in Items, Receipts!AttachPrerequisite(i)
      PROVE  LedgerInv' /\ LedgerMoves
  <2>1. /\ project' = project + 1
        /\ subject' = [subject EXCEPT ![i] = project + 1]
        /\ touched' = [touched EXCEPT ![i] = project + 1]
        /\ UNCHANGED <<stage, grant>>
    BY <1>3 DEF Receipts!AttachPrerequisite, Receipts!Advance, Receipts!ChangeItem
  <2>2. PICK after \in BOOLEAN : stale' = [stale EXCEPT ![i] = after]
    BY <1>3 DEF Receipts!AttachPrerequisite, Receipts!SetStale, Receipts!StaleAfter
  <2> QED
    BY <2>1, <2>2 DEF LedgerMoves
<1>4. ASSUME Receipts!Coordinate \/ Receipts!CoordinationExpires
      PROVE  LedgerInv' /\ LedgerMoves
  <2>1. /\ project' \in {project, project + 1}
        /\ UNCHANGED <<stage, stale, subject, touched, grant>>
    BY <1>4 DEF Receipts!Coordinate, Receipts!CoordinationExpires, Receipts!Advance
  <2> QED
    BY <2>1 DEF LedgerMoves
<1> QED
  BY <1>1, <1>2, <1>3, <1>4

\* Commits do not put in doubt what a process has selected, nor make what was
\* executed executable again.
LEMMA MovesKeepSelection ==
    ASSUME LedgerInv, LedgerMoves, NEW c \in Tasks, Selected(c),
           command'[c] = command[c]
    PROVE  Selected(c)'
<1> DEFINE was == command[c].capability
<1> USE DEF Selected, LedgerInv
<1>0. was.item \in Items /\ was.move \in Receipts!Moves
  BY DEF AsPrinted
<1>1. command[c].readAt <= project'
  BY DEF LedgerMoves
<1>2. ASSUME was.role \in BoundToSubject
      PROVE  command[c].row <= project'
  BY <1>2 DEF LedgerMoves
<1>3. ASSUME was.role \in BoundToSubject, subject'[was.item] <= command[c].readAt
      PROVE  /\ subject'[was.item] = was.subject
             /\ Receipts!Available(was.role, was.item, was.move)'
  <2>1. /\ subject'[was.item] = subject[was.item]
        /\ stage'[was.item] = stage[was.item]
        /\ stale'[was.item] = stale[was.item]
    BY <1>0, <1>3 DEF LedgerMoves
  <2>2. Receipts!Available(was.role, was.item, was.move)
    BY <1>3, <2>1
  <2>3. was.move # "revise"
    BY <1>3, <2>2 DEF Receipts!Available, Receipts!Offers, BoundToSubject
  <2> QED
    BY <1>3, <2>1, <2>2, <2>3 DEF Receipts!Available
<1>4. ASSUME was.role \in BoundToSubject, grant'[was.item].live,
             grant'[was.item].row = command[c].row
      PROVE  grant'[was.item].pair = was.pair
  BY <1>0, <1>4 DEF LedgerMoves
<1> QED
  BY <1>1, <1>2, <1>3, <1>4

\* An executed command stays one that was executed, however the ledger moves on.
LEMMA MovesKeepRuns ==
    ASSUME LedgerInv, LedgerMoves, NEW x, Executed(x)
    PROVE  Executed(x)'
  BY DEF Executed, AsPrinted, LedgerInv, LedgerMoves

\* Nothing has been printed, selected or executed at first.
LEMMA InitReceipts == Receipts!Init => ReceiptsInv
<1> SUFFICES ASSUME Receipts!Init PROVE ReceiptsInv
  OBVIOUS
<1>1. \A i \in Items : grant[i] \in [pair : Int, row : Int, live : BOOLEAN]
                       /\ grant[i].row <= 0
  BY DEF Receipts!Init, Receipts!NoRow
<1>2. LedgerInv
  <2>1. grant = [i \in Items |-> grant[i]]
    BY DEF Receipts!Init
  <2> QED
    BY <1>1, <2>1 DEF Receipts!Init, LedgerInv, Receipts!Stages
<1> QED
  BY <1>2 DEF Receipts!Init, ReceiptsInv, ExecutedOnce, Receipts!ExecutedOnce

\* What others commit.
LEMMA OthersKeepReceipts ==
    ASSUME ReceiptsInv, LedgerInv', LedgerMoves, UNCHANGED <<held, command, runs>>
    PROVE  ReceiptsInv'
<1> USE DEF ReceiptsInv
<1>1. \A c \in Tasks : command'[c] = Receipts!Idle \/ Selected(c)'
  BY MovesKeepSelection
<1>2. \A x \in runs' : Executed(x)'
  BY MovesKeepRuns
<1>3. \A r \in held' : AsPrinted(r)'
  BY DEF AsPrinted
<1> QED
  BY <1>1, <1>2, <1>3 DEF ExecutedOnce, Receipts!ExecutedOnce

\* The ledger as it was.
LEMMA StillLedger ==
    ASSUME LedgerInv, UNCHANGED Receipts!ledger
    PROVE  LedgerInv' /\ LedgerMoves
  BY DEF Receipts!ledger, LedgerInv, LedgerMoves

\* What is printed is bound to what is current.
LEMMA DiscoverKeeps ==
    ASSUME ReceiptsInv, NEW role \in Receipts!Roles, NEW i \in Items,
           NEW move \in Receipts!Moves, Receipts!Discover(role, i, move)
    PROVE  ReceiptsInv'
<1> DEFINE r == [capability |-> Receipts!Capability(role, i, move), asOf |-> project]
<1> USE DEF ReceiptsInv
<1>1. AsPrinted(r)
  <2>1. /\ Receipts!Capability(role, i, move).role = role
        /\ Receipts!Capability(role, i, move).item = i
        /\ Receipts!Capability(role, i, move).move = move
        /\ role \in BoundToSubject =>
              Receipts!Capability(role, i, move).subject = subject[i]
        /\ role \notin BoundToSubject =>
              Receipts!Capability(role, i, move).expected = project
    BY DEF Receipts!Capability, BoundToSubject
  <2>2. project \in Nat /\ subject[i] \in Nat /\ subject[i] <= project
    BY DEF LedgerInv
  <2> QED
    BY <2>1, <2>2 DEF AsPrinted
<1>2. LedgerInv' /\ LedgerMoves
  BY StillLedger DEF Receipts!Discover
<1>3. held' = held \cup {r} /\ UNCHANGED <<command, runs>>
  BY DEF Receipts!Discover
<1>4. \A c \in Tasks : command'[c] = Receipts!Idle \/ Selected(c)'
  BY <1>2, <1>3, MovesKeepSelection
<1>5. \A x \in runs' : Executed(x)'
  BY <1>2, <1>3, MovesKeepRuns
<1>6. \A s \in held' : AsPrinted(s)'
  BY <1>1, <1>3 DEF AsPrinted
<1> QED
  BY <1>2, <1>3, <1>4, <1>5, <1>6 DEF ExecutedOnce, Receipts!ExecutedOnce

\* What a process selects stands when it selects it.
LEMMA PresentKeeps ==
    ASSUME ReceiptsInv, NEW c \in Tasks, NEW r \in held, Receipts!Present(c, r)
    PROVE  ReceiptsInv'
<1> DEFINE was == r.capability
<1> USE DEF ReceiptsInv
<1>0. was.item \in Items /\ AsPrinted(r) /\ LedgerInv
  BY DEF AsPrinted
<1>1. /\ command' = [command EXCEPT ![c] =
            [phase |-> "selected", receipt |-> r,
             capability |-> Receipts!Capability(was.role, was.item, was.move),
             row |-> Receipts!Authority(was.role, was.item).row,
             readAt |-> project]]
      /\ Receipts!Capability(was.role, was.item, was.move) = was
      /\ Receipts!Available(was.role, was.item, was.move)
      /\ UNCHANGED Receipts!ledger /\ UNCHANGED <<held, runs>>
  BY DEF Receipts!Present
<1>2. LedgerInv' /\ LedgerMoves
  BY <1>0, <1>1, StillLedger
<1>3. Selected(c)'
  <2>1. /\ command'[c].phase = "selected" /\ command'[c].receipt = r
        /\ command'[c].capability = was
        /\ command'[c].readAt = project
        /\ command'[c].row = Receipts!Authority(was.role, was.item).row
    BY <1>1
  <2>2. ASSUME was.role \in BoundToSubject
        PROVE  /\ Receipts!Authority(was.role, was.item) = grant[was.item]
               /\ was.subject = subject[was.item]
               /\ was.pair = grant[was.item].pair
    <3>1. Receipts!Authority(was.role, was.item) = grant[was.item]
      BY <2>2 DEF Receipts!Authority, BoundToSubject
    <3>2. /\ Receipts!Capability(was.role, was.item, was.move).subject = subject[was.item]
          /\ Receipts!Capability(was.role, was.item, was.move).pair = grant[was.item].pair
      BY <2>2, <3>1 DEF Receipts!Capability, BoundToSubject
    <3> QED
      BY <1>1, <3>1, <3>2
  <2>3. Receipts!Available(was.role, was.item, was.move)'
    BY <1>1 DEF Receipts!Available, Receipts!ledger
  <2>4. AsPrinted(r)'
    BY <1>0 DEF AsPrinted
  <2>5. UNCHANGED <<project, subject, grant>>
    BY <1>1 DEF Receipts!ledger
  <2>6. project \in Nat /\ grant[was.item].row \in Int /\ grant[was.item].row <= project
    BY <1>0 DEF LedgerInv
  <2> QED
    BY <2>1, <2>2, <2>3, <2>4, <2>5, <2>6 DEF Selected
<1>4. ASSUME NEW d \in Tasks PROVE command'[d] = Receipts!Idle \/ Selected(d)'
  BY <1>0, <1>1, <1>2, <1>3, MovesKeepSelection
<1>5. \A x \in runs' : Executed(x)'
  BY <1>0, <1>1, <1>2, MovesKeepRuns
<1>6. \A s \in held' : AsPrinted(s)'
  BY <1>1 DEF AsPrinted
<1>7. command' = [d \in Tasks |-> command'[d]]
  BY <1>1
<1> QED
  BY <1>1, <1>2, <1>4, <1>5, <1>6, <1>7 DEF ExecutedOnce, Receipts!ExecutedOnce

\* Executing advances what the receipt is bound to.
LEMMA ExecuteKeeps ==
    ASSUME ReceiptsInv, NEW c \in Tasks, Receipts!Execute(c)
    PROVE  ReceiptsInv'
<1> DEFINE was == command[c].capability
<1> PICK x : x = [receipt |-> command[c].receipt, revision |-> project,
                  touched |-> touched[was.item]]
  OBVIOUS
<1> USE DEF ReceiptsInv
<1>0. Selected(c) /\ LedgerInv
  BY DEF Receipts!Execute, Receipts!Idle
<1>1. /\ was = command[c].receipt.capability /\ AsPrinted(command[c].receipt)
      /\ was.item \in Items /\ was.move \in Receipts!Moves
      /\ was.role \in Receipts!Roles
  BY <1>0 DEF Selected, AsPrinted
<1>2. /\ Receipts!Unchanged(c)
      /\ Receipts!Apply(was.item, was.move)
      /\ runs' = runs \cup {x}
      /\ command' = [command EXCEPT ![c] = Receipts!Idle]
      /\ held' = held
  BY DEF Receipts!Execute, Receipts!Valid
<1>3. /\ LedgerInv' /\ LedgerMoves /\ project' = project + 1
      /\ subject'[was.item] = project + 1
  BY <1>0, <1>1, <1>2, ApplyMoves DEF LedgerInv
<1>4. IF was.role \in BoundToSubject THEN was.subject = subject[was.item]
                                     ELSE was.expected = project
  <2>1. CASE was.role \in BoundToSubject
    BY <1>2, <2>1 DEF Receipts!Unchanged, Receipts!Capability, BoundToSubject
  <2>2. CASE was.role \notin BoundToSubject
    <3>1. was = Receipts!Capability(was.role, was.item, was.move)
      BY <1>2, <2>2 DEF Receipts!Unchanged, BoundToSubject
    <3>2. Receipts!Capability(was.role, was.item, was.move).expected = project
      BY <2>2 DEF Receipts!Capability, BoundToSubject
    <3> QED
      BY <2>2, <3>1, <3>2
  <2> QED
    BY <2>1, <2>2
<1>5. /\ x.receipt = command[c].receipt /\ x.receipt.capability = was
      /\ x.revision = project /\ x.touched = subject[was.item]
      /\ project \in Nat /\ subject[was.item] \in Nat
      /\ subject[was.item] <= project
  BY <1>0, <1>1 DEF LedgerInv
<1> HIDE DEF was
<1>6. Executed(x)'
  BY <1>1, <1>3, <1>4, <1>5 DEF Executed, AsPrinted
<1>7. ASSUME NEW a \in runs, a.receipt.capability = was PROVE FALSE
  BY <1>1, <1>4, <1>5, <1>7 DEF Executed, AsPrinted
<1>8. ExecutedOnce'
  BY <1>2, <1>5, <1>7 DEF ExecutedOnce, Receipts!ExecutedOnce
<1>9. \A y \in runs' : Executed(y)'
  BY <1>0, <1>2, <1>3, <1>6, MovesKeepRuns
<1>10. ASSUME NEW d \in Tasks PROVE command'[d] = Receipts!Idle \/ Selected(d)'
  BY <1>0, <1>2, <1>3, <1>10, MovesKeepSelection
<1>11. \A s \in held' : AsPrinted(s)'
  BY <1>2 DEF AsPrinted
<1>12. command' = [d \in Tasks |-> command'[d]]
  BY <1>2
<1> QED
  BY <1>3, <1>8, <1>9, <1>10, <1>11, <1>12

\* A command that is abandoned leaves the ledger as it was, and so does a
\* receipt that is thrown away.
LEMMA AbandonKeeps ==
    ASSUME ReceiptsInv,
           \/ \E c \in Tasks : Receipts!Abandon(c)
           \/ \E r \in held : Receipts!Forget(r)
           \/ UNCHANGED Receipts!vars
    PROVE  ReceiptsInv'
<1> USE DEF ReceiptsInv
<1>1. /\ held' \subseteq held /\ runs' = runs
      /\ UNCHANGED Receipts!ledger
      /\ \/ command' = command
         \/ \E c \in Tasks : command' = [command EXCEPT ![c] = Receipts!Idle]
  BY DEF Receipts!Abandon, Receipts!Forget, Receipts!vars, Receipts!ledger
<1>2. LedgerInv' /\ LedgerMoves
  BY <1>1, StillLedger
<1>3. ASSUME NEW d \in Tasks PROVE command'[d] = Receipts!Idle \/ Selected(d)'
  BY <1>1, <1>2, <1>3, MovesKeepSelection
<1>4. \A x \in runs' : Executed(x)'
  BY <1>1, <1>2, MovesKeepRuns
<1>5. \A s \in held' : AsPrinted(s)'
  BY <1>1 DEF AsPrinted
<1>6. command' = [d \in Tasks |-> command'[d]]
  BY <1>1
<1> QED
  BY <1>1, <1>2, <1>3, <1>4, <1>5, <1>6 DEF ExecutedOnce, Receipts!ExecutedOnce

\* Every step of a command or of its client keeps the invariant of receipts.
LEMMA NextReceipts ==
    ReceiptsInv /\ [Receipts!Next]_(Receipts!vars) => ReceiptsInv'
<1> SUFFICES ASSUME ReceiptsInv, [Receipts!Next]_(Receipts!vars)
             PROVE  ReceiptsInv'
  OBVIOUS
<1>0. LedgerInv
  BY DEF ReceiptsInv
<1>1. ASSUME NEW role \in Receipts!Roles, NEW i \in Items,
             NEW move \in Receipts!Moves, Receipts!Transition(role, i, move)
      PROVE  ReceiptsInv'
  BY <1>0, <1>1, ApplyMoves, OthersKeepReceipts DEF Receipts!Transition, LedgerInv
<1>2. ASSUME \/ \E i \in Items : \/ Receipts!Acquire(i)
                                 \/ Receipts!Renew(i)
                                 \/ Receipts!EndGrant(i)
                                 \/ Receipts!AttachPrerequisite(i)
             \/ Receipts!Coordinate
             \/ Receipts!CoordinationExpires
      PROVE  ReceiptsInv'
  <2>1. UNCHANGED <<held, command, runs>>
    BY <1>2 DEF Receipts!Acquire, Receipts!Renew, Receipts!EndGrant,
          Receipts!AttachPrerequisite, Receipts!Coordinate,
          Receipts!CoordinationExpires
  <2> QED
    BY <1>0, <1>2, <2>1, ElsewhereMoves, OthersKeepReceipts
<1> QED
  BY <1>1, <1>2, DiscoverKeeps, PresentKeeps, ExecuteKeeps, AbandonKeeps
     DEF Receipts!Next

\* What every state of the receipts satisfies.
THEOREM ReceiptsCorrect == Receipts!Spec => []ReceiptsInv
  BY InitReceipts, NextReceipts, PTL DEF Receipts!Spec

\* However often a receipt is presented, it is executed once.
THEOREM ExecutedOnceCorrect == Receipts!Spec => []ExecutedOnce
<1>1. ReceiptsInv => ExecutedOnce
  BY DEF ReceiptsInv
<1> QED
  BY <1>1, ReceiptsCorrect, PTL

\* It is executed on what its holder saw.
THEOREM NothingUnseenCorrect == Receipts!Spec => []NothingUnseenIsChanged
<1>1. ReceiptsInv => NothingUnseenIsChanged
  BY DEF ReceiptsInv, Executed, BoundToSubject, NothingUnseenIsChanged,
         Receipts!NothingUnseenIsChanged
<1> QED
  BY <1>1, ReceiptsCorrect, PTL

\* A worker or preparer who was selected is refused only for its own item.
THEOREM OthersCorrect == Receipts!Spec => []OthersDoNotRefuse
<1>1. ASSUME ReceiptsInv, NEW c \in Tasks, command[c].phase = "selected",
             command[c].capability.role \in BoundToSubject,
             touched[command[c].capability.item] <= command[c].readAt,
             grant[command[c].capability.item].live,
             grant[command[c].capability.item].row = command[c].row
      PROVE  Receipts!Valid(c)
  <2> DEFINE was == command[c].capability
  <2>1. Selected(c) /\ touched = subject
    BY <1>1 DEF ReceiptsInv, LedgerInv, Receipts!Idle
  <2>2. /\ subject[was.item] = was.subject
        /\ Receipts!Available(was.role, was.item, was.move)
        /\ grant[was.item].pair = was.pair
    BY <1>1, <2>1 DEF Selected
  <2>3. Receipts!Authority(was.role, was.item) = grant[was.item]
    BY <1>1 DEF Receipts!Authority, BoundToSubject
  <2>4. Receipts!StillGranted(c)
    BY <1>1, <2>2, <2>3 DEF Receipts!StillGranted
  <2>5. Receipts!Unchanged(c)
    BY <1>1, <2>2, <2>3 DEF Receipts!Unchanged, Receipts!Capability, BoundToSubject
  <2> QED
    BY <2>2, <2>4, <2>5 DEF Receipts!Valid
<1>2. ReceiptsInv => OthersDoNotRefuse
  BY <1>1 DEF OthersDoNotRefuse, Receipts!OthersDoNotRefuse, BoundToSubject
<1> QED
  BY <1>2, ReceiptsCorrect, PTL

-----------------------------------------------------------------------------
(* Together.                                                               *)

\* What TLC runs is either, so all of the above holds of it.
THEOREM CommandsAreBoth == CommandsSpec => BorrowSpec /\ Receipts!Spec
<1>1. CommandsInit => BorrowInit /\ Receipts!Init
  BY DEF CommandsInit
<1>2. [CommandsNext]_<<part, borrowVars, receiptVars>>
        => [BorrowNext]_borrowVars /\ [Receipts!Next]_(Receipts!vars)
  BY DEF CommandsNext, InBorrowed, InReceipts, receiptVars, Receipts!vars
<1> QED
  BY <1>1, <1>2, PTL DEF CommandsSpec, BorrowSpec, Receipts!Spec

\* Borrowing commands leave the lease as safe as they found it: their steps
\* on the row, interleaved in any way with those of other tasks, fence too.
THEOREM BorrowingFences == BorrowSpec => Fencing
<1>1. BorrowInit => Init
  BY DEF BorrowInit
<1>2. BorrowInv => ReceiptsAreBehind
  BY DEF BorrowInv
<1>3. BorrowSpec => Spec
  BY <1>1, <1>2, BorrowStepsOnRow, BorrowCorrect, PTL DEF BorrowSpec, Spec
<1> QED
  BY <1>3, CoordinationFences, PTL

=============================================================================
