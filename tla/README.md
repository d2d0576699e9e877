# Pinboard: a TLA+ model of the ledger

Pinboard keeps an authoritative ledger of work in one SQLite database. Many
short command processes, started by many tasks, read it, decide against it and
commit one focused change at a time. This directory holds a model of that
program: TLA+ modules translated from `src/pinboard`, TLC configurations that
check them on small instances, and proofs, checked by TLAPS, that hold for every
value of the constants.

Check a module with `tlc -workers 2 -config X.cfg M.tla` (the table in section 3 has the
pairs); check the proofs of a module with `tlapm M.tla`. `PROJECT.json` maps every
definition to the source lines it models and lists the hazards, each at its line.

## 1. Inventory of the system

The program has no daemon and no threads. Everything concurrent in it is
concurrency of *processes*: every command opens the database, and SQLite's
`BEGIN IMMEDIATE` serialises the write transactions. What happens *between*
the transactions of one command, between the sampling of a time and the commit
that uses it, and between a receipt being printed and being presented, is not
serialised by anything. That is where the model looks.

| Component (source) | State it keeps | Operations |
| --- | --- | --- |
| Lifecycle decisions (`domain/decisions.py`, `application/decision_projection.py`) | `work_items.state`, `attempts.state`, accepted scope, candidate | 19 transitions: activate, submit, pause, block, resume, complete, close, return, accept checkpoint, accept and continue, mark ready, block item, defer, reopen, accept / merge / return / reject proposal, revise item, transfer coordinator |
| Definitions (`domain/definition_decisions.py`, `sqlite/lifecycle.py`) | definition revisions, `item_dependencies` | revise, refuse a cycle |
| Proposals (`domain/proposal_decisions.py`, `sqlite/proposals.py`) | proposal and disposition, the intake item it creates | create with one of six relations, dispose |
| Preparation authority (`domain/authority_decisions.py`, `interfaces/preparation_authority.py`) | counter, anchors, one lease per item pinning a definition | acquire, transfer, renew, release, revoke, consume |
| Attempt authority (same, `interfaces/attempt_authority.py`) | counter, anchors, one lease per attempt | acquire, transfer, renew, release, revoke, fence |
| Coordination authority (same, `interfaces/coordination_authority.py`) | one row | acquire, renew, release, revoke, transfer |
| Borrowed coordination (`interfaces/transitions.py`) | the local state of one command | acquire, reread, commit, release, in three transactions |
| Write transaction (`application/service.py`, `sqlite/store.py`, `sqlite/state.py`) | `project_meta` revision and `updated_at`, history | snapshot, decide, persist, read back, commit or roll back |
| Current focus (`application/mutations.py`, `sqlite/lifecycle.py`) | the single row of `current_focus` | replaced by every lifecycle decision |
| Work queue (`sqlite/lifecycle.py`, `sqlite/proposals.py`) | contiguous unique positions | compact, make space |
| Action receipts (`application/actions.py`, `interfaces/action_selection.py`) | none in the ledger; the receipt travels through the user | select, present |
| Database publication (`sqlite/database.py`) | staging and final file | stage, link, sync, clean up, reconcile |
| Artifacts and briefs (`files/artifacts.py`, `application/artifact_publication.py`) | immutable files, `artifact_refs` | publish file, accept reference |
| Dispatch (`application/dispatch.py`) | a published review | publish, recheck, emit |
| Generated views (`files/views.py`) | replaceable Markdown files | refresh, rebuild |
| Queries (`application/queries.py`, `domain/decisions.py`) | none | the action catalogue, the overview, the parallel preview |
| Handover, command line, brief sources, repository roots, document generator | none | export, decoding, path discovery, output |

How they interact: a command takes a snapshot, samples `datetime.now`, resolves
what the user typed into one requested change, and calls a service function. The
service opens the write transaction, rereads everything, decides with a pure
domain function *at the time sampled before the lock was obtained*, projects the
decision into one mutation, and commits it; the store reads the complete state
back and validates it before the commit (`_validate_current_state`). After the
commit the command refreshes generated files from a new snapshot and presents a
result. Authority travels outside the ledger: a task is shown a pair (lease
identity, generation), and presents it later; a receipt of an action likewise.

What makes each component correct:

* Lifecycle: an item and its attempt, two rows moved by two statements, never
  disagree; an item gets one attempt; only what was prepared is activated, only
  what is current is accepted; what is finished is final; nothing gets stuck.
* Definitions: the dependency graph never closes a cycle, whichever of the three
  ways an edge is added.
* Leases: a pair that was ended or replaced never authorizes anything again.
* Borrowed coordination: commit only under the lease this command acquired; give
  back that lease and no other; say so truthfully.
* Transaction: what a decision accepts, the persistence can write.
* Focus: it never describes a state the item has left.
* Receipts: executed at most once, and never over a change their holder has not
  seen; not refused for what does not concern them.
* Queue: every UPDATE finds the position it names and collides with no other row; the
  order of the remaining items is kept.
* Publication of the database: whatever bears the final name is a complete ledger,
  the one a user relies on stays, and repeating `init` gets everybody there.
* Artifacts and dispatch: an accepted reference has its bytes; what an interrupted
  command left never refuses its repetition; a launch is printed only while current.
* Views: nothing is lost silently, and `views rebuild` repairs everything.
* Catalogue, overview, preview: what people are told to do can be done.

The hard behaviours are listed one by one, with the source line where each
bites, in `PROJECT.json` under `hazards`.

## 2. Modules

```
FencedGrant <-- refined by -- CoordinationLease, AttemptLease, PreparationLease

CoordinationLease
     ^ EXTENDS
BorrowedCoordination     ActionReceipts
     \__________ MCBorrowedCoordination __/  <--- CoordinationProofs

AuthorityTables  <--- AuthorityProofs
     ^       ^ EXTENDS
AttemptLease  PreparationLease
     \___________ MCAuthority _/  <--- LeaseProofs

WorkLifecycle <-- refined by -- WorkLedger   (checked by MCWorkLedger)
WorkLedger  <--- WorkLedgerProofs <--- ReadbackProofs
     ^       ^ EXTENDS                       ^ EXTENDS
FocusRecord   ActionCatalogue <-- WorkOverview
     \___________ MCFocusRecord ______/  <--- FocusRecordProofs

OrderedQueue <-- refined by -- WorkQueue    DatabasePublication    GeneratedViews
                                  \_____________ MCStorage _____________/
                                                  <--- StorageProofs

ArtifactPublication <-- EXTENDS -- Dispatch  <--- DispatchProofs   MCDispatch
```

Wherever an action is a write transaction it is a complete one: decision,
statements, and what the same transaction does after them. A decision that is
refused changes nothing and is no step. Where the steps *inside* a
transaction or between the calls of a command are the subject (WorkQueue,
DatabasePublication, ArtifactPublication, Dispatch, GeneratedViews), every statement or
call is an action of its own. Operators whose comment begins with
"Fault:" are variants of an operation with one plausible mistake; no
specification uses them, they show that the properties notice.

MCBorrowedCoordination, MCAuthority and MCStorage put systems that share no
state into one run. A variable `part` is chosen initially and never changes;
each behaviour is a behaviour of exactly one of the systems, and the others stay in
their initial states. So a property of one of them means what it means alone.

### WorkLedger and WorkLifecycle

The lifecycle core. Its variables are the columns of the ledger:

| Variable | Column |
| --- | --- |
| `itemState`, `attemptState`, `attemptItem` | `work_items.state`, `attempts.state`, `attempts.item_id` |
| `revision`, `dependencies` | highest definition revision of an item, its `item_dependencies` |
| `pending` | proposals without a disposition (a proposal has its item's identity) |
| `claim` | `preparation_leases`: status, expiry, pinned definition revision |
| `scope`, `candidate` | `attempts.accepted_scope_revision`, the definition the protected candidate answers |
| `lease` | `attempt_leases`: status and expiry |
| `updatedAt`, `clock` | `project_meta.updated_at`; real time, which no row stores |

An action `X(i, now)` is the decision function of X together with what
`available_actions` demands before it offers X; its guard is the conjunction of
the two, since `validate_supplied_action` evaluates the second against the same
locked snapshot. The guard has a name of its own (`CanActivate`, `CanSubmit`, ...) and the
rest of the action only assigns, so the decision can be taken exactly when its guard holds:
that is what the catalogue is compared with. `now` is any time at most `MaxLag` older than the commit
(`Sampled`). `IntroducesCycle` says what the program's depth-first walk
computes without the walk: item `i` is reachable from `D` when every set of items that
contains `D` and is closed under dependencies contains `i`.

Left out of this module and why that is sound: tokens and generations (an
operation on a lease is taken by whoever holds the current token; that old tokens
fail is the subject of the lease modules); coordination authority (any
coordinator can obtain it, so its steps are always possible); artifact bytes, prose
and digests (a definition is its revision number, and a brief is whether it
matches the current one); queue positions. Guards on those only remove steps, so
what holds here for every step holds of the program. A claim or lease that has ended
keeps no fact any rule reads, and its expiry is normalised to 0.

WorkLifecycle is what the ledger promises of each piece of work, without rows, leases or
revisions: it is absent, waiting, underway or ended, and moves forwards only. Nothing is proposed or
redefined so that it waits for itself, work starts when all it waits for has ended, with a single
attempt that no other item ever has, and what has ended stays as it is. WorkLedger implements it:
`Stage` reads an item's stage off its state, `Workers` its attempts off `attemptItem`,
and `waitsFor` is `dependencies`. Every transaction, also those that
touch only leases and claims, is one of its four steps or none.

### FocusRecord, ActionCatalogue, WorkOverview

FocusRecord composes WorkLedger with the row of `current_focus`. Each decision is
conjoined with the row `_focus_after` computes for it; `UpdateFocus` is the
single UPDATE, which fails when there is no row. `InitFresh` is the database
`initialize_database` creates; `InitSeeded` is the one the repository's tests
build, which insert the row themselves.

ActionCatalogue is what `available_actions` offers each role in one snapshot, beside
what `action_semantics` advertises of every kind; WorkOverview is what
`project_overview` and `project_parallel_preview` tell people to do next. The
source keeps these lists and the decisions in step by hand. Here the decisions are
WorkLedger's actions, and a property compares an offer with the guard of the decision it is an offer of. A
reader asks with a time not older than the last commit (`Asked`): with an older one a claim
that has expired since would be live again, and nothing promises that.

### FencedGrant and CoordinationLease

FencedGrant is the promise: at most one grant is in force and a grant that was
in force before is spent for ever. CoordinationLease is the row of
`coordination_lease`, its five commands, and `receipts`, every pair that was ever
shown to a task. Time is relative (`remaining` counts down) because only
differences matter; a decision whose time was sampled `lag` before its commit
sees that much more of the lease. The command line completes a pair with the
task, host and expiry it reads from the row, which is why the pair decides.

### BorrowedCoordination

CoordinationLease composed with commands that borrow it. Each command moves
through acquired, reread and settled; at each point it may die, and any task may
renew, release, revoke, transfer or acquire the lease or commit something else.
Only two facts about what a command has read can change its fate: whether any
transaction was committed since (`unmoved`; the capability it selected carries the
exact project revision) and whether the expiry it read is still the row's
(`sameExpiry`; the expiry is part of the token its release presents).

### ActionReceipts

A receipt leaves the ledger: printed from one snapshot (`Discover`), selected in a
second (`Select`), decided in a third (`Decide`), perhaps much later, perhaps twice.
An item is its stage, whether its attempt is stale, and the grant its stage admits. Eight
moves stand for all kinds of action: between them they cover every combination of role
(coordinator, coordinator with the lease, worker, preparer), of revision rule (exact project
revision, or subject revision and grant row) and of effect on the grant. What other
tasks do to the same items is `Transition`, their whole command in one step. `touched`
remembers when an item was last really changed, which `subject_revision` is to follow.

### AuthorityTables, AttemptLease, PreparationLease

The three tables behind a lease of an attempt or the claim of an item (counter of
generations, anchor of each generation, current row) and the commands on them,
*in two steps*: resolved from a snapshot with a time sampled then, committed later against
a reread state, while the grant expires and other commands or decisions move the
subject. `granted` is the history FencedGrant speaks of. AttemptLease adds what the
lifecycle decisions do to a lease (stop, continue, answer a review, finish).
PreparationLease adds the pinned definition, the expected project revision of
a coordinator's command, activation, which consumes the claim, and revising,
moving and unblocking the item. An acquisition mints an identity; the model reuses the name of
the command process, which is weaker than `uuid4` and shows that fencing does not need it.

### WorkQueue and OrderedQueue

`make_queue_space` with the insertion, and `set_item_state` with `compact_queue`, one
UPDATE per step, each naming the position it expects, under a UNIQUE column that
SQLite checks per statement. OrderedQueue is the promise: an item enters at one place
or leaves, nothing else moves.

### DatabasePublication

`pinboard init`: a process is the sequence of file-system calls it has still to make
(`plan`), and between any two it may die, the machine may lose power, a call may
fail, another command may commit to a ledger it can see. `durable` is the set of
directory states a power loss may leave: changes reach the disk in order, as journaling file
systems have it, and a sync leaves only the current one.

### GeneratedViews

Views are written after the commit, from a later snapshot, file by file, without a
lock. A view is the project revision its header names. `due` remembers the revision a
command announced for a view, `excused` the views with a warning, left by a dead process,
or overwritten by a slower refresh.

### ArtifactPublication and Dispatch

Artifact files are published before, and outside, the transaction that accepts
their reference. Dispatch takes five snapshots and perhaps a transaction of its own
(publishing the brief review) before it prints a launch, while the same processes publish
checkpoints and others pause, resume with another brief, revise and hand over.

## 3. What the runs check

| Run | Module, configuration | Result | What it shows |
| --- | --- | --- | --- |
| `ledger` | MCWorkLedger, `WorkLedger.cfg` | passes | the ledger refines WorkLifecycle (work moves forwards, with one attempt, in an order without cycles); agreement of items and attempts, review can always be returned, only current candidates accepted, only prepared and current work activated, terminal items final, no accepted decision rolled back whose time follows the last commit |
| `focus` | MCFocusRecord, `FocusRecord.cfg` | passes | with the row the focus follows every decision, without it nothing leaves intake except by rejection or merge; dependencies stay acyclic; offers match what is advertised and what is accepted; what the overview and the preview announce can be done |
| `borrowed` | MCBorrowedCoordination, `BorrowedCoordination.cfg` | passes | the lease refines FencedGrant (so a handover changes the pair); borrowing commits under one's own lease, cleans up no other, says so truthfully; receipts are executed once, over nothing unseen, and are refused only for what concerns them |
| `leases` | MCAuthority, `Authority.cfg` | passes | the three tables agree, both leases refine FencedGrant, no change is lost to a stale command, nothing is regained after finishing or activating, work starts with its dependencies ended |
| `storage` | MCStorage, `Storage.cfg` | passes | queue statements apply and refine OrderedQueue; only complete ledgers are published, the one relied on survives power loss, an undisturbed initialization only ever goes forward and ends published, initialization recovers; no view is lost silently, rebuilding converges |
| `dispatch` | MCDispatch, `Dispatch.cfg` | passes | accepted bytes exist, repeating is never refused, an emitted launch is current |
| `resume_without_brief` | MCWorkLedger, `WorkLedgerResume.cfg` | violation | finding 2 |
| `focus_refused` | MCFocusRecord, `FocusRecordRefused.cfg` | violation | finding 1 |
| `borrowed_payload` | BorrowedCoordination, `BorrowedCoordinationPayload.cfg` | violation | finding 3 |
| `publication_two_initializers` | DatabasePublication, `DatabasePublicationTwice.cfg` | violation | finding 4 |
| `parallel_preview` | MCFocusRecord, `WorkOverviewPreview.cfg` | violation | finding 5 |
| `offered_proposals` | ActionCatalogue, `ActionCatalogueProposals.cfg` | violation | finding 6 |

Deadlock is not checked: every module stops at the bounds of its model
(`Horizon`, `MaxRevision`, `MaxGeneration`, all identities used), and the program
itself may rest in any state.

### Bounds, and why they are enough

* `ledger`: two items and two attempts. Every rule relates an item to its attempt,
  to one other item it depends on or blocks, or to another attempt of it.
  `MaxRevision = 2`: scope, pin and candidate are compared with the current revision
  for equality only, so "the current one" and "an earlier one" suffice. `Horizon = 2` with
  durations 1 and 2: a claim can be granted, expire, be transferred and renewed, and
  be live beside a lease that is not. `MaxLag = 1`: a decision may use a time
  before another's commit.
* `focus`: cycles need three items, so three can be created where the focus row is
  absent and nothing else happens, and two where it is present (`TwoOrFresh`; with
  two, an item can still depend on itself or on the other). On a fresh ledger the
  catalogue and the read models are compared with WorkLedger's decisions, not with
  what the missing row makes of them.
* `borrowed`: two tasks are enough for one to borrow and the other to renew, replace,
  transfer or end the lease; `MaxGeneration = 4` admits the lease of either and a replacement
  of each. For receipts: one item, which may be found in any of three stages with a
  live grant, three project revisions (the receipt's, one unseen, the executed one),
  and one outstanding receipt, presented by two commands at once; other tasks' commands are
  single steps.
* `leases`: two commands, `Horizon = 3`, three generations: one command can be overtaken
  by another that replaces or ends what it was resolved for, and its time can be older
  than a grant's expiry.
* `storage`: five items, so that a shift moves several rows in both
  directions; one initializer with four faults, enough to interrupt a publication, the cleanup
  that follows, the next attempt and that one's repair, and four files: final name,
  staging name, one only a stale directory state names, and one that is relied on. Three project
  revisions, two writers, one repairer and one fault for the views: two refreshes can
  finish in the order opposite to their commits while one of them fails.
  Files, items and processes are not permuted, since liveness is checked here.
* `dispatch`: two processes, two briefs (one local, one that needs a review), two
  contents of files, one checkpoint, three revisions: each may publish under the other's
  identity with the same or other bytes.

Symmetry is used where only safety is checked, over identities nothing orders.

### Fairness

Two properties are about what must eventually happen, and each assumes exactly this.
`InitializationRecovers`: a process that runs goes on (`WF` of its steps; it blocks on
nothing but the file system), and its user repeats `pinboard init` (`WF` of `Start`, since
a failed one "leaves the authoritative database available for retry", `HOW_IT_WORKS.md:110`). `RepairConverges`: running commands go on, an
open transaction ends, and somebody repeats `pinboard views rebuild`, as every warning of a
failed refresh asks. No fault need happen, no fault is prevented below the bound, and nobody need
commit. Without the repetition neither holds: an interrupted command leaves its residue.

## 4. Findings

1. **The focus row is never inserted** (`focus_refused`).
   `update_focus` (`sqlite/lifecycle.py:417`) updates one row and fails when none
   changed. `initialize_database` inserts `project_meta` only, and nothing else
   in the program inserts into `current_focus`; the tests do
   (`tests/sqlite_support.py:114`). On a ledger the program itself creates, the
   first lifecycle decision is accepted and then rolled back as
   `ACTION_NOT_AVAILABLE`. `FreshLedgerOnlyCollects` shows the extent.
2. **Resume does not require a brief** (`resume_without_brief`).
   `HOW_IT_WORKS.md:38` says that it requires one matching the current definition;
   `_resume` (`domain/decisions.py:608`) rebinds the scope only when the payload
   names one. The resumed attempt is stale, and therefore refused everything but
   pause, block and a blocker report.
3. **A payload is validated after borrowing** (`borrowed_payload`).
   `skills/pinboard/SKILL.md:24` says that `coordination apply` validates it before;
   the code decodes it between acquisition and release, as `HOW_IT_WORKS.md:132` describes.
4. **Two initialisers can publish an incomplete ledger** (`publication_two_initializers`).
   Every process uses the same staging name (`sqlite/database.py:252`); one removes the
   unfinished file of the other as residue, and the other then links whatever file
   bears the name. No call fails. `HOW_IT_WORKS.md:110` says that the ledger is built and verified
   before it is published.
5. **The parallel preview can raise** (`parallel_preview`).
   `project_parallel_preview` (`application/queries.py:384`) looks up the group of every row of
   `item_dependencies` with a live dependency, but has groups for live items only. A
   follow-up that was rejected or merged keeps its row, and `pinboard parallel preview` fails
   with a `KeyError` until the item it followed has ended.
6. **Proposals are offered that can never be accepted** (`offered_proposals`).
   `available_actions` (`domain/decisions.py:248`) offers the four dispositions of
   every proposal without one, also when its item has left intake, where
   `_require_current_intake_proposal` refuses all four.

Observed while modelling, with no text that promises otherwise:

* Rejecting a proposal drops its item although live items depend on it, which closing
  the same item is refused for; after that the focus may keep naming the dropped item.
* An accepted decision whose time is older than `updated_at` can be rolled back by the
  readback: a claim that it saw expired, or that another decision did, is live
  again at the older time. `AcceptedDecisionsReadBack` is therefore conditional on `updatedAt' >=
  updatedAt`. The caller is told that the state is invalid.
* A borrowed lease that another command renews cannot be released by the
  borrower, whose token has the old expiry; it stays until it expires, which
  `HOW_IT_WORKS.md:133` allows.
* For workers, the pair of the lease and the subject revision fence the same things: either
  alone would keep receipts from being executed twice.
* A command that commits to a ledger `init` has just linked, before `init` has
  synchronized it, loses its work if `init` then fails and takes the ledger back. Likewise
  `_prepare_database_publication` takes a ledger another initialiser has just linked for
  residue. (`ReliedIsDurable` counts as relied upon what was committed with no publication open.)
* Were directory changes to reach the disk out of order, a stale unlink with a new
  staging file could leave a final and a staging name of different files, which both
  preparation and reconciliation refuse for ever.
* A refused checkpoint uses up its checkpoint identity when its `result.md` changes
  afterwards. When another dispatcher had the same review accepted, its revision
  counts as the dispatcher's own, which is harmless.
* Every view's header names the project revision, so after a focused refresh every other
  view counts as stale for `views validate`. Transitions of an item (resume, activate)
  do not refresh the view of its attempt, those of an item not the views of its
  dependents, and a review published by dispatch refreshes none.
* The parallel preview lists an active attempt with a stale definition as
  launchable, although dispatch, continue and submit are not offered for it.

## 5. What is proved

Every invariant and action property of a passing run, and every refinement, is a
theorem. TLAPS proves them for every set of
items, attempts, tasks, processes, files and commands and every value of the bounds, from the named
assumptions of the modules only: null values are no members of the sets they stand
beside, durations are positive, bounds are naturals, the items of a queue are finitely many, and
there is a brief at all. One module adds a hypothesis of its own, and says so (StorageProofs,
`OneInitializer`). The inductive invariants named below were first model-checked.

**WorkLedgerProofs.** `TypeCorrect` proves `[]TypeOK`. The rest follow from one
inductive invariant, `Agreement` (`AgreementCorrect`). None of the properties is
inductive alone: that an item never gets a second attempt needs that a done
attempt's item is terminal (`DoneIsTerminal`), which needs that an item and its
attempt agree, which needs that an unused attempt has no item and an attempt in
use has one that exists (`AttemptPresence`, `Presence`); that review can be
returned needs that submission saw a live lease and that no lease row is ever
removed. `Agreement` is the conjunction; each action keeps it, one step per action. From it:
`AttemptAgreementCorrect`, `OneAttemptCorrect`, `ReviewReturnCorrect`,
`DoneFencedCorrect`, `CandidateCorrect`, and the action property
`AcceptedCandidateCorrect` (a candidate answers its attempt's scope, and acceptance
compares that scope with the current definition). They hold for every `MaxLag`: the agreement
does not depend on clocks. `TerminalCorrect` (`TerminalIsFinal`) also rests on it: no guard
protects terminal items as such, but every decision demands a live item, and a live
attempt's item is live.

**ReadbackProofs.** `Prepared` (`PreparedCorrect`) adds to `Agreement` that edges have
both their ends (`EdgesExist`), that there is no cycle, and that a claim that pins the current
definition is of an item that waits for nothing (`PinsPrepared`). Every transaction is an `OrderlyStep`: to
the graph it does one of four things (`GraphStep`), and to every claim and what it relies on
one of a few (`ClaimStep`). Replacing the dependencies of an item closes no cycle since
the closed set that leaves the item out would hold a smaller one
(`ReplacingIsAcyclic`); a new item is in none since nothing leads to it or nothing leads from
it (`CreatingIsAcyclic`). Claims stay prepared since a dependency that has ended stays so
(`FinalStep`, from the proof of `TerminalCorrect`). Hence `AcyclicCorrect`, `ActivationCorrect` and
`ReadbackCorrect`.
`LifecycleKept` puts these together: every step of the ledger is a step or a stutter of WorkLifecycle.
`Agreement` fixes the stage of an item by its attempt (`StageOf`); an activation is `Start`, because the
claim it consumes is prepared and an item without an attempt never had one; revising a definition is
`Redefine`, and creating items `Propose`, because neither closes a cycle; what closes, drops or completes an item
is `End`, and `FinalStep` says that nothing leaves it. The rest moves no stage (`NoLifecycleStep`).

**FocusRecordProofs.** With the row beside it the ledger takes only steps it takes alone
(`FocusIsLedger`), so `Agreement` holds there too. `FocusInv` says that the row is missing,
settled, or `Told`: it names an item in a state its next action admits, with the attempt that item
holds. A decision that keeps the row must leave that item where it was: a mutation that is no
transition creates items and disposes of proposals in intake (`ItemsUnfocused`). Rejection and
merging do take an item out of intake and leave a row that names it; the property
(`FocusCorrect`) says what remains true then. Where the row is missing no decision commits
(`CollectsCorrect`). `OfferedCorrect` compares what the catalogue offers with what it advertises.
`AcceptedCorrect` proves `OfferedIsAccepted`: each offer implies the guard of its decision, at any
time a reader may ask with. The guards hold more than the offers demand, and the difference is what the
invariants supply: that the attempt of an item is the one its state implies (`Agreement`), that the
claim a preparer shows is live at that time, pinning what the readback accepted (`Asked`), that edges
have both ends, and that an item's own dependencies are no way back to it (`OwnDependenciesAreAcyclic`).
`LaunchableCorrect` and `ImmediateCorrect` do the same for what the preview calls launchable and
the overview calls immediate; the latter rests on a review keeping its lease row.

**CoordinationProofs.** For the lease the inductive invariant is `ReceiptsAreBehind`
(`BehindCorrect`): no pair ever shown names a generation ahead of the row's. Every
operation that puts a pair in force advances the generation of the row, so the pair
is new; release ends the pair at its own generation, but what follows a release is
an acquisition, which advances. So every step of the lease is a step or a stutter of
FencedGrant (`CoordinationFences`), and a handover changes the token
(`HandoverCorrect`). That proof never uses that lease identities are fresh; the next one
does. `BorrowInv` (`BorrowCorrect`) says that no two commands took up the same identity
(`IdentitiesAreFresh`) and that a pair a command took up from its reread names its own lease
(`AuthorityIsOwn`), whatever others do to the row between its steps. From it `CommitCorrect`,
`CleanupCorrect`, `ResultCorrect`, and `BorrowingFences`: composed, the lease still fences.
For receipts, `ReceiptsInv` (`ReceiptsCorrect`) gives every printed receipt, every selected
command and every executed one a fact about the revisions of now: what is bound to the project
revision can be executed while it stands and is behind afterwards; what is bound to a subject revision
stays valid exactly while neither the item nor the row of its grant changes. The steps of the ledger
are reduced to what they may do to revisions and grants (`LedgerMoves`). From it
`ExecutedOnceCorrect`, `NothingUnseenCorrect`, `OthersCorrect`.

**AuthorityProofs, LeaseProofs.** The first holds the lemmas about the tables:
`TablesAgree` (the row's generation is the counter, every generation up to it has an
anchor and none beyond, what was ever granted is an anchored pair) is kept by every kind of
change a subject can make to the tables (`TableStep`), and a `TableStep` is a step or a stutter
of FencedGrant, since a grant that begins has a generation nobody had. The second shows that
every action of either subject is a `TableStep` (`AttemptTablesCorrect`,
`PreparationTablesCorrect`) and so refines FencedGrant (`AttemptFences`, `PreparationFences`).
`FinishedCorrect` adds that a finished attempt stays fenced: a command resolved before is for
a generation that is past. `NoChangeIsLostCorrect`: what a command commits, it commits on the
generation and holder it was shown. For claims the strengthening is `PinIsPrepared` (a claim that
pins the current definition is of an item that waits for nothing), from which nobody
holds a claim of work that has started (`ActivationEndsClaim`) and work starts only with
its dependencies ended (`StartsPreparedCorrect`), although activation does not look at them.

**DispatchProofs.** `DispatchInv` (`DispatchCorrect`) has two parts. A publication has on disk
all it says it has published (`Verified`), which stays true because no file is ever rewritten:
hence `AcceptedBytesCorrect` and `RepeatingCorrect`. A dispatcher holds no lock between its snapshots,
so its brief may be replaced at any time; but as long as nothing was committed since its selection,
or nothing but the acceptance of one reference (`OnlyAccepted`), the attempt still has that brief
(`DispatcherInv`). The last recheck establishes just that, hence `EmittedCorrect`.

**StorageProofs.** *Queue.* `QueueInv` (`QueueCorrect`) describes the table between two UPDATEs of one
change: which rows have moved, where the hole is, which rows are still to move and in which
order. So every statement applies (`StatementsCorrect`), a finished change reads back
(`ReadsBackCorrect`), and the whole implements OrderedQueue (`OrderCorrect`): the mapping lists the
items by position, and the proof shows that it is the one sequence with that property, then
what insertion and removal make of it.
*Views.* `ViewsInv` says that a view that is behind what was announced, and not excused, is on the list of
a refresh whose snapshot will do (`WillShow`); hence `StaleCorrect`.
*Publication.* `PublicationInv` (`PublicationCorrect`) says of each process at which call of which of
the three plans it stands (publish a new ledger in 12 calls, adopt a published one in 5, go back in 4),
and at each call what the two names bear in the directory and in every directory state a power
loss may leave. From it `PublishedCorrect` and `ReliedCorrect`. `AdvancesCorrect` (`InitializationAdvances`) adds
the safety half of recovery: at each call the state is one the call succeeds in (`NewMeets`, `OldMeets`), whatever an
earlier attempt left, since a residue beside a published ledger is always that ledger's own staging name
(the last conjunct of `DirectoryInv`); so every call leaves fewer, and the last one leaves the
ledger published. All four assume `OneInitializer`: that
one process initializes at a time, each as often as it likes, dying wherever it may. Without it they are
false, which is finding 4; `Initializers` has one element in the `storage` run as well.

What proving changed in the model: the decisions of WorkLedger are split into named guards and
assignments, so that what can be decided is a formula about one state and `ENABLED` is not needed to
say it; Dispatch paused an attempt even when the acceptance of its
checkpoint was refused by the transaction, which the source does not; the values of `Published`
and `StatesUnder` are written so that a prover can reason about them; and `BriefsAssumption`,
`KeysAssumption`, `NothingAssumption`, `FocusAssumption` name what the proofs take for granted.

Only model-checked: the liveness properties `InitializationRecovers` and `RepairConverges`.
Liveness under fairness is out of the prover's reach, as are `ENABLED` and induction over data;
no other property needs them, since guards are named, dependency cycles are described by closed sets and
sequences by their elements. Of the first of the two, everything but the fairness is a theorem:
`AdvancesCorrect` bounds the steps an undisturbed initialization takes and says where they end.

## 6. Plan

Done: the ledger with its focus, catalogue and read models; the three kinds of
authority, borrowed coordination and receipts; the queue, the database's publication, the
views; artifacts and dispatch; theorems about all of them. Next, in this order:

1. What one step of the argument for `RepairConverges` needs: an undisturbed repair has
   fewer stale views after each of its steps.
2. Two initializers: what does hold with any number of them (the ledger relied upon, while
   nobody initializes anew).
3. Power loss between the publication of an artifact's file and its acceptance.

## 7. What is not modelled

* Project handover: a pure export of one snapshot into one document.
* The command line, brief sources, repository roots, the documentation generator and
  the scripts beside the program: decoding, path discovery, output; they keep no
  state, and what they hand to the services is the input of the actions here.
* The work-brief codec and its Markdown (a brief is whether it matches); validation
  of views, which changes nothing; item inspection and the other reads.
* History rows and digests: written by every transaction, read by no rule.
* Power loss for artifacts: `write_revision` accepts a file that exists without
  synchronizing the link a dead or concurrent publisher made, which only
  a power loss could expose.
* The wait for the write lock: a command that fails to get it has done nothing.

`PROJECT.json` lists each part with its reason.
