-------------------------- MODULE CoordinationLease --------------------------
(***************************************************************************)
(* The single coordination lease: the row of coordination_lease and the    *)
(* commands that acquire, renew, release, revoke and transfer it.  Each    *)
(* action is one write transaction.                                        *)
(*                                                                         *)
(* A command names a lease by the pair (lease identity, generation) some   *)
(* task was shown; the interface completes it with the task, host and      *)
(* expiry it reads from the row, so the pair decides.  Any pair that was   *)
(* ever in force may still be remembered: receipts keeps them all.         *)
(*                                                                         *)
(* Time is relative: remaining is what is left of the lease when the       *)
(* transaction commits, and a decision that sampled its time `lag` earlier *)
(* saw that much more.                                                     *)
(***************************************************************************)
EXTENDS Integers

CONSTANTS
    Tasks,          \* a task and its host
    NoTask,         \* the task of the row that does not exist yet
    Durations,      \* requested lengths of the lease
    MaxLag,         \* how old a sampled time may be at commit
    MaxGeneration,  \* bound of the model
    NoGrant         \* no lease is in force

ASSUME DurationsAssumption == Durations \subseteq Nat \ {0}
ASSUME NoGrantAssumption == NoGrant \notin [id : Nat, generation : Nat]
ASSUME BoundsAssumption == MaxLag \in Nat /\ MaxGeneration \in Nat

VARIABLES
    lease,      \* the row; state "none" while there is none
    minted,     \* lease identities generated so far (each is fresh)
    receipts    \* every (identity, generation) ever in force

vars == <<lease, minted, receipts>>

Token(l) == [id |-> l.id, generation |-> l.generation]

\* Active, and not expired at a time sampled `lag` before the commit.
Live(lag) == lease.state = "active" /\ lease.remaining + lag > 0

Matches(receipt) == lease.state = "active" /\ Token(lease) = receipt

\* The row may be written, and what it grants may be remembered.
Write(after) ==
    /\ lease' = after
    /\ receipts' = IF after.state = "active" THEN receipts \cup {Token(after)}
                   ELSE receipts

Init ==
    /\ lease = [task |-> NoTask, id |-> 0, generation |-> 0, remaining |-> 0,
                state |-> "none"]
    /\ minted = 0
    /\ receipts = {}

\* Fault: an ended lease is taken up again under its old name.
AcquireAgain(task, duration, lag) ==
    /\ ~Live(lag)
    /\ lease.generation < MaxGeneration
    /\ minted' = minted + 1
    /\ Write([task |-> task, id |-> lease.id,
              generation |-> lease.generation, remaining |-> duration - lag,
              state |-> "active"])

Acquire(task, duration, lag) ==
    /\ ~Live(lag)
    /\ lease.generation < MaxGeneration
    /\ minted' = minted + 1
    /\ Write([task |-> task, id |-> minted + 1,
              generation |-> lease.generation + 1, remaining |-> duration - lag,
              state |-> "active"])

\* Renewal keeps identity and generation and must extend the expiry.
Renew(receipt, duration, lag) ==
    /\ Matches(receipt)
    /\ Live(lag)
    /\ duration - lag > lease.remaining
    /\ Write([task |-> lease.task, id |-> lease.id,
              generation |-> lease.generation, remaining |-> duration - lag,
              state |-> "active"])
    /\ UNCHANGED minted

\* Release ends the lease at its own generation, at the sampled time.
Release(receipt, lag) ==
    /\ Matches(receipt)
    /\ Live(lag)
    /\ Write([task |-> lease.task, id |-> lease.id,
              generation |-> lease.generation, remaining |-> -lag,
              state |-> "released"])
    /\ UNCHANGED minted

\* Revocation needs no authority, only the identity of the retained row.
Revoke(lag) ==
    /\ lease.state # "none"
    /\ lease.generation < MaxGeneration
    /\ Write([task |-> lease.task, id |-> lease.id,
              generation |-> lease.generation + 1, remaining |-> -lag,
              state |-> "revoked"])
    /\ UNCHANGED minted

\* A transfer keeps identity and expiry and advances the generation.
Transfer(task, lag) ==
    /\ Live(lag)
    /\ lease.generation < MaxGeneration
    /\ Write([task |-> task, id |-> lease.id,
              generation |-> lease.generation + 1,
              remaining |-> lease.remaining, state |-> "active"])
    /\ UNCHANGED minted

\* Time passes; beyond MaxLag after the expiry nobody can tell how long ago.
Tick ==
    /\ lease.remaining + MaxLag > 0
    /\ lease' = [task |-> lease.task, id |-> lease.id,
                 generation |-> lease.generation,
                 remaining |-> lease.remaining - 1, state |-> lease.state]
    /\ UNCHANGED <<minted, receipts>>

Next ==
    \/ \E lag \in 0..MaxLag :
          \/ \E task \in Tasks, duration \in Durations :
                Acquire(task, duration, lag)
          \/ \E receipt \in receipts, duration \in Durations :
                Renew(receipt, duration, lag)
          \/ \E receipt \in receipts : Release(receipt, lag)
          \/ Revoke(lag)
          \/ \E task \in Tasks : Transfer(task, lag)
    \/ Tick

Spec == Init /\ [][Next]_vars

-----------------------------------------------------------------------------

LeaseStates == {"none", "active", "released", "revoked"}

\* Every column holds a value of its domain.
TypeOK ==
    /\ lease \in [task : Tasks \cup {NoTask}, id : Nat, generation : Nat,
                  remaining : Int, state : LeaseStates]
    /\ minted \in Nat
    /\ receipts \subseteq [id : Nat, generation : Nat]

\* A receipt never names a generation the row has not reached, and the one
\* in force has been issued: the counter of the row alone fences.
ReceiptsAreBehind ==
    /\ TypeOK
    /\ \A receipt \in receipts : receipt.generation <= lease.generation
    /\ lease.state = "active" => Token(lease) \in receipts
    /\ lease.state = "none" => receipts = {}

\* The pair that authorizes commands now, expired or not.
InForce == IF lease.state = "active" THEN Token(lease) ELSE NoGrant

Grant == INSTANCE FencedGrant
         WITH current <- InForce, spent <- receipts \ {InForce}

\* The lease keeps the promise of FencedGrant: "Its higher generation fences
\* actions retained by the interrupted task" (state-and-recovery.md), also
\* after a release, which keeps the generation, and a transfer, which keeps
\* the identity.
Fencing == Grant!Spec

\* A pair is in force for one task only: whoever is handed the lease, by a
\* transfer or over an expired lease, gets a pair no earlier holder can
\* present.
HandoverChangesToken ==
    [][lease.state = "active" /\ lease'.state = "active"
       /\ lease'.task # lease.task => Token(lease') \notin receipts]_vars

=============================================================================
