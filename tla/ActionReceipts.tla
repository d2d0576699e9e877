--------------------------- MODULE ActionReceipts ---------------------------
(***************************************************************************)
(* The receipts of `pinboard actions`.  A receipt is an opaque capability  *)
(* that leaves the ledger: it is printed from one snapshot                 *)
(* (application/actions.py), kept by a task for as long as it likes, and   *)
(* presented, perhaps twice, to a command that reads a second snapshot     *)
(* (interfaces/action_selection.py) and decides in a third, under the      *)
(* write lock (domain/decisions.py, application/service.py).  Coordinators *)
(* are bound to the exact project revision, workers and preparers to the   *)
(* revision of their subject and to the row of their grant.                *)
(*                                                                         *)
(* An item is here its stage, whether its attempt answers an older         *)
(* definition, and the grant its stage admits: the claim of a ready item,  *)
(* the attempt lease of an active one. Pausing stands for the ways an      *)
(* attempt is stopped, resuming for the ways it goes on. A grant's pair is *)
(* its lease identity and generation, its row is all its columns; both are *)
(* named by the project revision that wrote them.                          *)
(***************************************************************************)
EXTENDS Integers, FiniteSets, TLC

CONSTANTS
  Items,          \* identities of items
  Commands,       \* processes that present a receipt
  MaxRevision,    \* bound: project revisions
  MaxReceipts     \* bound: receipts outstanding

Stages == {"intake", "ready", "active", "review", "paused", "done"}
Roles == {"coordinator", "coordination", "worker", "preparer"}
NoRevision == -1  \* the empty revision of a worker's receipt

VARIABLES
  project,        \* project_meta.revision
  stage,          \* work_items.state
  stale,          \* the attempt accepted an older definition
  subject,        \* work_items.subject_revision
  touched,        \* history: revision at which the item was last really changed
  grant,          \* [pair, row, live] of the item's claim or attempt lease
  lease,          \* [pair, live] of the coordination lease
  receipts,       \* every receipt some task still holds
  command,        \* what each process has selected
  runs            \* history: the receipts that were executed

vars == <<project, stage, stale, subject, touched, grant, lease, receipts, command, runs>>
ledger == <<project, stage, stale, subject, touched, grant, lease>>

Idle == [phase |-> "idle"]
NoRow == [pair |-> -1, row |-> -1, live |-> FALSE]

\* The ledger as the tasks find it, at some revision called 0.
Init ==
  /\ project = 0
  /\ stage \in [Items -> {"intake", "ready", "active"}]
  /\ stale = [i \in Items |-> FALSE]
  /\ subject = [i \in Items |-> 0] /\ touched = subject
  /\ grant = [i \in Items |-> IF stage[i] = "intake" THEN NoRow
                             ELSE [pair |-> 0, row |-> 0, live |-> TRUE]]
  /\ lease = [pair |-> 0, live |-> TRUE]
  /\ receipts = {} /\ runs = {}
  /\ command = [c \in Commands |-> Idle]

(***************************************************************************)
(* The actions that are offered.                                           *)
(***************************************************************************)
Moves == {"ready", "activate", "pause", "resume", "complete", "return", "revise", "submit"}

From == [ready |-> {"intake"}, activate |-> {"ready"}, pause |-> {"active"},
         resume |-> {"paused"}, complete |-> {"active", "review"}, return |-> {"review"},
         revise |-> Stages \ {"done"}, submit |-> {"active"}]

To(move, i) ==
  CASE move = "ready" -> "ready"
    [] move \in {"activate", "resume", "return"} -> "active"
    [] move = "pause" -> "paused"
    [] move = "complete" -> "done"
    [] move = "submit" -> "review"
    [] move = "revise" -> stage[i]

Offers(role) ==
  CASE role = "worker" -> {"submit"}
    [] role = "preparer" -> {"activate"}
    [] role = "coordination" -> {"ready", "pause", "resume", "complete", "return", "revise"}
    [] role = "coordinator" -> {"ready", "pause", "resume", "complete", "revise"}

\* available_actions: what the role may do to i, its own authority aside.
Available(role, i, move) ==
  /\ move \in Offers(role)
  /\ stage[i] \in From[move]
  /\ move \in {"complete", "submit"} => ~stale[i]
  /\ move = "revise" => ~(stage[i] = "ready" /\ grant[i].live)

Authority(role, i) ==
  CASE role \in {"worker", "preparer"} -> grant[i]
    [] role = "coordination" -> lease @@ [row |-> 0]
    [] role = "coordinator" -> NoRow

Authorized(role, i) == role = "coordinator" \/ Authority(role, i).live

\* ActionCapabilityFactory.make
Capability(role, i, move) ==
  [role |-> role, item |-> i, move |-> move,
   expected |-> IF role = "worker" THEN NoRevision ELSE project,
   subject |-> IF role \in {"worker", "preparer"} THEN subject[i] ELSE NoRevision,
   pair |-> Authority(role, i).pair]

\* The receipts that can still be executed: kept by a task, or selected by a process.
Outstanding ==
  receipts \union {command[c].receipt : c \in {p \in Commands : command[p] # Idle}}

(***************************************************************************)
(* A task asks for an action and keeps what it is shown.                   *)
(***************************************************************************)
Discover(role, i, move) ==
  /\ Cardinality(Outstanding) < MaxReceipts
  /\ Authorized(role, i) /\ Available(role, i, move)
  /\ receipts' = receipts \union {[capability |-> Capability(role, i, move), asOf |-> project]}
  /\ UNCHANGED <<ledger, command, runs>>

Forget(r) == receipts' = receipts \ {r} /\ UNCHANGED <<ledger, command, runs>>

(***************************************************************************)
(* The first half of a command: parse_action_receipt and                   *)
(* select_current_action.  What goes on is the action that is current now, *)
(* with the grant's row as it reads now.                                   *)
(***************************************************************************)
Present(c, r) ==
  LET role == r.capability.role   i == r.capability.item   move == r.capability.move IN
  /\ command[c] = Idle
  /\ Authorized(role, i) /\ Available(role, i, move)
  /\ Capability(role, i, move) = r.capability
  /\ command' = [command EXCEPT ![c] =
       [phase |-> "selected", receipt |-> r, capability |-> Capability(role, i, move),
        row |-> Authority(role, i).row, readAt |-> project]]
  /\ UNCHANGED <<ledger, receipts, runs>>

\* _resolve_actor_authority: the authority is still the one the action was selected with.
StillGranted(c) ==
  LET was == command[c].capability   now == Authority(was.role, was.item) IN
  was.role # "coordinator" =>
    now.live /\ now.pair = was.pair /\ (was.role \in {"worker", "preparer"} => now.row = command[c].row)

\* Fault: nobody is held to the project revision.
UnchangedWithoutRevision(c) ==
  LET was == command[c].capability   now == Capability(was.role, was.item, was.move) IN
  was.subject = now.subject /\ was.pair = now.pair

\* Fault: workers and preparers are held to the project revision they were read at.
UnchangedWithRevision(c) ==
  LET was == command[c].capability   now == Capability(was.role, was.item, was.move) IN
  was = now /\ (was.role \in {"worker", "preparer"} => command[c].readAt = project)

\* validate_supplied_action: a worker's or preparer's capability is compared without the
\* project revision, all others whole.
Unchanged(c) ==
  LET was == command[c].capability   now == Capability(was.role, was.item, was.move) IN
  IF was.role \in {"worker", "preparer"}
  THEN was.subject = now.subject /\ was.pair = now.pair
  ELSE was = now

Valid(c) ==
  LET was == command[c].capability IN
  StillGranted(c) /\ Available(was.role, was.item, was.move) /\ Unchanged(c)

Advance == project < MaxRevision /\ project' = project + 1

ChangeItem(i) ==
  /\ subject' = [subject EXCEPT ![i] = project + 1]
  /\ touched' = [touched EXCEPT ![i] = project + 1]

\* Activation consumes the claim, and the attempt has no lease yet; completion and the
\* answer to a review fence the lease.  A paused attempt, and one in review, keeps it.
GrantAfter(move, i) ==
  CASE move = "activate" -> NoRow
    [] move \in {"complete", "return"} -> [grant[i] EXCEPT !.live = FALSE]
    [] OTHER -> grant[i]

\* Resuming with a brief accepts the current definition, without one the old one again.
StaleAfter(move, i) ==
  CASE move = "revise" -> {stale[i] \/ stage[i] \in {"active", "review", "paused"}}
    [] move = "activate" -> {FALSE}
    [] move = "resume" -> {FALSE, stale[i]}
    [] OTHER -> {stale[i]}

SetStale(move, i) == \E after \in StaleAfter(move, i) : stale' = [stale EXCEPT ![i] = after]

Apply(i, move) ==
  /\ Advance
  /\ stage' = [stage EXCEPT ![i] = To(move, i)]
  /\ SetStale(move, i)
  /\ grant' = [grant EXCEPT ![i] = GrantAfter(move, i)]
  /\ ChangeItem(i)

(***************************************************************************)
(* The second half: the write transaction.                                 *)
(***************************************************************************)
Execute(c) ==
  LET capability == command[c].capability IN
  /\ command[c].phase = "selected"
  /\ Valid(c)
  /\ Apply(capability.item, capability.move)
  /\ runs' = runs \union
       {[receipt |-> command[c].receipt, revision |-> project, touched |-> touched[capability.item]]}
  /\ command' = [command EXCEPT ![c] = Idle]
  /\ UNCHANGED <<lease, receipts>>

\* The transaction refuses, or the process ends before it.
Abandon(c) ==
  /\ command[c].phase = "selected"
  /\ command' = [command EXCEPT ![c] = Idle]
  /\ UNCHANGED <<ledger, receipts, runs>>

(***************************************************************************)
(* Everything else that is committed meanwhile.                            *)
(***************************************************************************)
\* Another task discovers, presents and executes an action with nothing in between.
Transition(role, i, move) ==
  /\ Authorized(role, i) /\ Available(role, i, move)
  /\ Apply(i, move)
  /\ UNCHANGED <<lease, receipts, command, runs>>

\* A claim or an attempt lease is acquired or, when it has ended, transferred: that of a
\* stopped attempt too.
Acquire(i) ==
  /\ Advance
  /\ ~grant[i].live
  /\ \/ stage[i] \in {"ready", "active"}
     \/ stage[i] \in {"paused", "review"} /\ grant[i] # NoRow
  /\ grant' = [grant EXCEPT ![i] = [pair |-> project + 1, row |-> project + 1, live |-> TRUE]]
  /\ UNCHANGED <<stage, stale, subject, touched, lease, receipts, command, runs>>

Renew(i) ==
  /\ Advance
  /\ grant[i].live
  /\ grant' = [grant EXCEPT ![i].row = project + 1]
  /\ UNCHANGED <<stage, stale, subject, touched, lease, receipts, command, runs>>

\* Released, revoked, or expired: the last without a commit.
EndGrant(i) ==
  /\ grant[i].live
  /\ grant' = [grant EXCEPT ![i].live = FALSE]
  /\ Advance \/ UNCHANGED project
  /\ UNCHANGED <<stage, stale, subject, touched, lease, receipts, command, runs>>

Coordinate ==
  /\ Advance
  /\ lease' \in {[pair |-> project + 1, live |-> TRUE], [lease EXCEPT !.live = FALSE]}
  /\ UNCHANGED <<stage, stale, subject, touched, grant, receipts, command, runs>>

CoordinationExpires ==
  /\ lease.live
  /\ lease' = [lease EXCEPT !.live = FALSE]
  /\ UNCHANGED <<project, stage, stale, subject, touched, grant, receipts, command, runs>>

\* A prerequisite proposal revises the definition of the item it names.
AttachPrerequisite(i) ==
  /\ Advance
  /\ stage[i] # "done" /\ ~(stage[i] = "ready" /\ grant[i].live)
  /\ ChangeItem(i)
  /\ SetStale("revise", i)
  /\ UNCHANGED <<stage, grant, lease, receipts, command, runs>>

Next ==
  \/ \E role \in Roles, i \in Items, move \in Moves :
       Discover(role, i, move) \/ Transition(role, i, move)
  \/ \E r \in receipts : Forget(r)
  \/ \E c \in Commands, r \in receipts : Present(c, r)
  \/ \E c \in Commands : Execute(c) \/ Abandon(c)
  \/ \E i \in Items : Acquire(i) \/ Renew(i) \/ EndGrant(i) \/ AttachPrerequisite(i)
  \/ Coordinate
  \/ CoordinationExpires

Spec == Init /\ [][Next]_vars

(***************************************************************************)
(* Properties                                                              *)
(***************************************************************************)

(***************************************************************************)
(* A receipt is executed at most once, however often it is presented, also *)
(* when two processes present it at the same time or the first one dies    *)
(* without an answer.                                                      *)
(***************************************************************************)
ExecutedOnce ==
  \A a, b \in runs : a.receipt.capability = b.receipt.capability => a = b

(***************************************************************************)
(* What a receipt is executed on is what its holder saw: a coordinator's   *)
(* whole ledger, a worker's or preparer's own item.                        *)
(***************************************************************************)
NothingUnseenIsChanged ==
  \A x \in runs :
    IF x.receipt.capability.role \in {"worker", "preparer"}
    THEN x.touched <= x.receipt.asOf
    ELSE x.revision = x.receipt.asOf

(***************************************************************************)
(* The other way round: a worker or preparer who was selected is refused   *)
(* only for its own item or grant.  Work committed on anything else        *)
(* between its two snapshots never costs it its action.                    *)
(***************************************************************************)
OthersDoNotRefuse ==
  \A c \in Commands :
    LET held == command[c].capability IN
    /\ command[c].phase = "selected"
    /\ held.role \in {"worker", "preparer"}
    /\ touched[held.item] <= command[c].readAt
    /\ grant[held.item].live /\ grant[held.item].row = command[c].row
    => Valid(c)
=============================================================================
