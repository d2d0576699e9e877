------------------------ MODULE BorrowedCoordination ------------------------
(***************************************************************************)
(* A command that borrows coordination for one transition: it acquires the *)
(* lease, rereads it, commits the transition and releases the lease, in    *)
(* separate transactions.  Between any two of them the command may die,    *)
(* and other tasks may renew, release, revoke, transfer or acquire the     *)
(* lease and commit transitions of their own.                              *)
(*                                                                         *)
(* The project revision matters only as "has anything been committed since *)
(* this command read the ledger", and an expiry only as "is it still the   *)
(* one this command read"; each is a set of the commands that may say yes. *)
(***************************************************************************)
EXTENDS CoordinationLease

CONSTANT Borrowers      \* the tasks that run such a command, one at a time

ASSUME BorrowersAssumption == Borrowers \subseteq Tasks

VARIABLES
    pc,         \* where the command of each borrower stands
    payload,    \* of its transition: "sound" or "malformed"
    wanted,     \* the lease identity its acquisition generated
    authority,  \* the pair its reread found
    unmoved,    \* no transaction was committed since the reread
    sameExpiry, \* the lease was not renewed since the reread
    committed,  \* its transition was committed
    outcome     \* how its latest command ended

commandVars == <<pc, payload, wanted, authority, committed, outcome>>
borrowVars == <<vars, commandVars, unmoved, sameExpiry>>

BorrowInit ==
    /\ Init
    /\ pc = [b \in Borrowers |-> "idle"]
    /\ payload = [b \in Borrowers |-> "sound"]
    /\ wanted = [b \in Borrowers |-> 0]
    /\ authority = [b \in Borrowers |-> NoGrant]
    /\ unmoved = {}
    /\ sameExpiry = {}
    /\ committed = [b \in Borrowers |-> FALSE]
    /\ outcome = [b \in Borrowers |-> "none"]

Goto(b, step) == pc' = [pc EXCEPT ![b] = step]

\* The command returns, or dies.
End(b, how) ==
    /\ Goto(b, "idle")
    /\ outcome' = [outcome EXCEPT ![b] = how]
    /\ UNCHANGED <<payload, wanted, authority, committed>>

\* Every committed transaction advances the project revision.
AdvanceRevision == unmoved' = {}

-----------------------------------------------------------------------------

\* A refused acquisition ends the command and changes nothing.
BorrowAcquire(b, duration, lag) ==
    /\ pc[b] = "idle"
    /\ Acquire(b, duration, lag)
    /\ AdvanceRevision
    /\ Goto(b, "acquired")
    /\ wanted' = [wanted EXCEPT ![b] = minted']
    /\ \E kind \in {"sound", "malformed"} :
          payload' = [payload EXCEPT ![b] = kind]
    /\ committed' = [committed EXCEPT ![b] = FALSE]
    /\ outcome' = [outcome EXCEPT ![b] = "none"]
    /\ UNCHANGED <<authority, sameExpiry>>

\* Fault: whatever lease is there is taken for the borrowed one.
RereadLatest(b) ==
    /\ pc[b] = "acquired"
    /\ authority' = [authority EXCEPT ![b] = Token(lease)]
    /\ unmoved' = unmoved \cup {b}
    /\ sameExpiry' = sameExpiry \cup {b}
    /\ Goto(b, "reread")
    /\ UNCHANGED <<vars, payload, wanted, committed, outcome>>

\* The reread compares identity and holder, not status: it may find the
\* lease released or revoked and take up that generation.
Reread(b) ==
    /\ pc[b] = "acquired"
    /\ lease.id = wanted[b] /\ lease.task = b
    /\ authority' = [authority EXCEPT ![b] = Token(lease)]
    /\ unmoved' = unmoved \cup {b}
    /\ sameExpiry' = sameExpiry \cup {b}
    /\ Goto(b, "reread")
    /\ UNCHANGED <<vars, payload, wanted, committed, outcome>>

\* Another lease, or another holder: the command ends without cleanup.
RereadFenced(b) ==
    /\ pc[b] = "acquired"
    /\ ~(lease.id = wanted[b] /\ lease.task = b)
    /\ End(b, "fenced")
    /\ UNCHANGED <<vars, unmoved, sameExpiry>>

\* The action was selected at the reread revision; its capability holds at
\* that exact revision and under that live pair only.
CommitTransition(b, lag) ==
    /\ pc[b] = "reread"
    /\ payload[b] = "sound"
    /\ b \in unmoved
    /\ Matches(authority[b])
    /\ Live(lag)
    /\ AdvanceRevision
    /\ committed' = [committed EXCEPT ![b] = TRUE]
    /\ Goto(b, "settled")
    /\ UNCHANGED <<vars, payload, wanted, authority, sameExpiry, outcome>>

\* The action is not legal, its payload does not decode, or it raised.
RejectTransition(b) ==
    /\ pc[b] = "reread"
    /\ Goto(b, "settled")
    /\ UNCHANGED <<vars, payload, wanted, authority, committed, outcome,
                   unmoved, sameExpiry>>

Report(b) == IF committed[b] THEN "applied" ELSE "rejected"

\* Fault: the lease is released by name of whatever row is there.
ReleaseLatest(b, lag) ==
    /\ pc[b] = "settled"
    /\ Release(Token(lease), lag)
    /\ AdvanceRevision
    /\ End(b, Report(b))
    /\ UNCHANGED sameExpiry

\* Fault: a rejected transition returns without releasing.
ReleaseAfterCommit(b, lag) ==
    /\ pc[b] = "settled"
    /\ IF committed[b]
       THEN b \in sameExpiry /\ Release(authority[b], lag) /\ AdvanceRevision
       ELSE UNCHANGED <<vars, unmoved>>
    /\ End(b, Report(b))
    /\ UNCHANGED sameExpiry

\* The lease is released under the authority that was reread, its expiry
\* included, whether or not the transition was committed.
ReleaseBorrowed(b, lag) ==
    /\ pc[b] = "settled"
    /\ b \in sameExpiry
    /\ Release(authority[b], lag)
    /\ AdvanceRevision
    /\ End(b, Report(b))
    /\ UNCHANGED sameExpiry

\* The release is refused, or raises: the lease is left as it is.
ReleaseFails(b) ==
    /\ pc[b] = "settled"
    /\ End(b, "release failed")
    /\ UNCHANGED <<vars, unmoved, sameExpiry>>

\* The process ends, or an exception escapes before the cleanup.
Crash(b) ==
    /\ pc[b] # "idle"
    /\ End(b, "crashed")
    /\ UNCHANGED <<vars, unmoved, sameExpiry>>

\* A command on the lease itself; only a renewal moves the expiry under an
\* unchanged pair.
LeaseCommand(lag) ==
    /\ \/ \E task \in Tasks, duration \in Durations :
             Acquire(task, duration, lag) /\ UNCHANGED sameExpiry
       \/ \E receipt \in receipts, duration \in Durations :
             Renew(receipt, duration, lag) /\ sameExpiry' = {}
       \/ \E receipt \in receipts : Release(receipt, lag) /\ UNCHANGED sameExpiry
       \/ Revoke(lag) /\ UNCHANGED sameExpiry
       \/ \E task \in Tasks : Transfer(task, lag) /\ UNCHANGED sameExpiry
    /\ AdvanceRevision
    /\ UNCHANGED commandVars

\* Any other task commits a transaction of its own.
OtherCommit == AdvanceRevision /\ UNCHANGED <<vars, commandVars, sameExpiry>>

BorrowStep(b, lag) ==
    \/ \E duration \in Durations : BorrowAcquire(b, duration, lag)
    \/ Reread(b)
    \/ RereadFenced(b)
    \/ CommitTransition(b, lag)
    \/ RejectTransition(b)
    \/ ReleaseBorrowed(b, lag)
    \/ ReleaseFails(b)
    \/ Crash(b)

BorrowNext ==
    \/ \E b \in Borrowers, lag \in 0..MaxLag : BorrowStep(b, lag)
    \/ \E lag \in 0..MaxLag : LeaseCommand(lag)
    \/ OtherCommit
    \/ Tick /\ UNCHANGED <<commandVars, unmoved, sameExpiry>>

BorrowSpec == BorrowInit /\ [][BorrowNext]_borrowVars

-----------------------------------------------------------------------------

\* The lease this command generated is in force, for whomever.
LeftBehind(b) == lease.state = "active" /\ lease.id = wanted[b]

\* A command that reports a plain result, applied or rejected, has left no
\* lease behind: "releases authority before returning" (SKILL.md).  Only a
\* reported cleanup failure or a crash may.
ResultMeansReleased ==
    \A b \in Borrowers :
        outcome[b] \in {"applied", "rejected"} => ~LeftBehind(b)

\* The cleanup never ends authority that somebody else holds, even when the
\* lease expired, was transferred or was acquired anew under the command.
CleanupEndsOwnLease ==
    [][\A b \in Borrowers :
          pc[b] = "settled" /\ pc'[b] = "idle" /\ lease' # lease =>
              lease.id = wanted[b] /\ lease.task = b]_borrowVars

\* A borrowed transition is committed only while the row grants coordination
\* to this very command, and two commands never both could.
CommitsUnderOwnLease ==
    [][\A b \in Borrowers :
          ~committed[b] /\ committed'[b] =>
              /\ LeftBehind(b) /\ lease.task = b
              /\ \A c \in Borrowers \ {b} :
                    pc[c] \in {"reread", "settled"} =>
                        ~Matches(authority[c])]_borrowVars

\* SKILL.md says that coordination apply "validates the payload before
\* borrowing coordination": no lease is acquired for one that does not decode.
PayloadValidatedFirst ==
    \A b \in Borrowers : pc[b] # "idle" => payload[b] = "sound"

=============================================================================
