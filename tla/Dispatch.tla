------------------------------ MODULE Dispatch ------------------------------
(***************************************************************************)
(* `pinboard dispatch` renders the prompt that starts a worker             *)
(* (interfaces/dispatch_brief.py, application/dispatch.py).  It takes five *)
(* snapshots and perhaps one transaction of its own, and holds no lock     *)
(* between them: the action is selected, selected again, the attempt and   *)
(* its brief are read, a brief review is found or published, and only then *)
(* the authority is checked once more and the prompt printed.              *)
(*                                                                         *)
(* There is one attempt.  A brief is the revision of its artifact; its     *)
(* checkpoint is local or crosses a boundary, and then needs a review.     *)
(***************************************************************************)
EXTENDS ArtifactPublication

CONSTANTS
    Briefs,             \* accepted briefs of the attempt
    LocalBriefs,        \* those whose checkpoint is local
    Checkpoints         \* checkpoints of the attempt that may be accepted

VARIABLES
    attempt,            \* is it active, is its definition stale, its brief
    lease,              \* the coordination lease: pair and whether it is live
    dispatch            \* how far each dispatcher has come

ledger == <<attempt, lease>>
vars == <<files, ledger, dispatch>>

Review(b) == <<"review", b>>
Rejected(d) == <<"rejected", d>>
NoLease == 0

ASSUME BriefsAssumption == Briefs # {}

\* Every artifact this part publishes has an identity.
ASSUME KeysAssumption ==
    /\ \A b \in Briefs \ LocalBriefs : Review(b) \in Keys
    /\ \A d \in Publishers : Rejected(d) \in Keys
    /\ \A c \in Checkpoints : <<"result", c>> \in Keys /\ <<"evidence", c>> \in Keys

Init ==
    /\ FilesInit
    /\ attempt = [active |-> TRUE, stale |-> FALSE, brief |-> CHOOSE b \in Briefs : TRUE]
    /\ lease = [pair |-> 1, live |-> TRUE]
    /\ dispatch = [d \in Publishers |-> Idle]

-----------------------------------------------------------------------------
(* The dispatch action, as a snapshot offers it.                           *)

Offered(pair) ==
    /\ attempt.active /\ ~attempt.stale
    /\ pair = NoLease \/ (lease.live /\ lease.pair = pair)

Capability(pair) == [revision |-> revision, pair |-> pair]

Now(d) == Capability(dispatch[d].capability.pair)
StillOffered(d) == Offered(dispatch[d].capability.pair)

Continue(d, step) == dispatch' = [dispatch EXCEPT ![d].step = step]
Rendered(d, own) ==
    dispatch' = [dispatch EXCEPT ![d] =
        [@ EXCEPT !.step = "rendered", !.supplied = Nothing, !.own = own]]
Emit(d) == dispatch' = [dispatch EXCEPT ![d] = [step |-> "emitted"]]
Fail(d) == dispatch' = [dispatch EXCEPT ![d] = Idle]

\* parse_action_receipt, select_current_action: the receipt is the current
\* action.  `supplied` is the review file on the command line, if any.
Select(d, pair, supplied) ==
    /\ dispatch[d] = Idle /\ publication[d] = Idle
    /\ Offered(pair)
    /\ dispatch' = [dispatch EXCEPT ![d] =
           [step |-> "selected", capability |-> Capability(pair), supplied |-> supplied,
            brief |-> Nothing, own |-> Nothing]]
    /\ UNCHANGED <<files, ledger>>

\* _current_dispatch_action
Confirm(d) ==
    /\ dispatch[d].step = "selected"
    /\ IF StillOffered(d) /\ Now(d) = dispatch[d].capability
       THEN Continue(d, "confirmed") ELSE Fail(d)
    /\ UNCHANGED <<files, ledger>>

\* The rest of select_dispatch, from another snapshot; and
\* _select_dispatch_review.  A local checkpoint has no review.
ReadBrief(d) ==
    /\ dispatch[d].step = "confirmed"
    /\ IF attempt.active /\ (attempt.brief \in LocalBriefs => dispatch[d].supplied = Nothing)
       THEN dispatch' = [dispatch EXCEPT ![d] =
                [@ EXCEPT !.brief = attempt.brief,
                          !.step = IF attempt.brief \in LocalBriefs
                                   THEN "rendered" ELSE "review"]]
       ELSE Fail(d)
    /\ UNCHANGED <<files, ledger>>

\* find_dispatch_review
FindReview(d) ==
    /\ dispatch[d].step = "review" /\ dispatch[d].supplied = Nothing
    /\ IF accepted[Review(dispatch[d].brief)] # Nothing
       THEN Rendered(d, Nothing) ELSE Fail(d)
    /\ UNCHANGED <<files, ledger>>

\* publish_dispatch_review: an accepted review is reused if it is the same,
\* and otherwise the one supplied is kept under a name of its own.
LookForReview(d) ==
    LET key == Review(dispatch[d].brief)
        bytes == dispatch[d].supplied IN
    /\ dispatch[d].step = "review" /\ bytes # Nothing
    /\ IF Identical(key, bytes)
       THEN Rendered(d, Nothing) /\ UNCHANGED publication
       ELSE /\ Continue(d, "publishing")
            /\ IF accepted[key] = Nothing
               THEN Begin(d, "review", << [key |-> key, bytes |-> bytes] >>)
               ELSE Begin(d, "rejected", << [key |-> Rejected(d), bytes |-> bytes] >>)
    /\ UNCHANGED <<file, accepted, revision, ledger>>

\* The revision of an accepted reference counts as this command's own, also
\* when another command had it accepted in the meantime.
TakeReview(d) ==
    /\ dispatch[d].step = "publishing" /\ publication[d].step = "accepted"
    /\ IF publication[d].purpose = "review"
       THEN Rendered(d, publication[d].revision)
       ELSE Fail(d)
    /\ publication' = [publication EXCEPT ![d] = Idle]
    /\ UNCHANGED <<file, accepted, revision, ledger>>

\* The file or the transaction was refused; or the process dies, in whatever
\* it is doing.
Stop(d) ==
    /\ dispatch[d] # Idle
    /\ Fail(d)
    /\ publication' = [publication EXCEPT ![d] = Idle]
    /\ UNCHANGED <<file, accepted, revision, ledger>>

\* Fault: only the revision of the own publication has to be current.
RecheckOwnRevision(d) ==
    /\ dispatch[d].step = "rendered"
    /\ IF /\ StillOffered(d)
          /\ IF dispatch[d].own = Nothing
             THEN Now(d) = dispatch[d].capability
             ELSE revision = dispatch[d].own
       THEN Emit(d) ELSE Fail(d)
    /\ UNCHANGED <<files, ledger>>

\* recheck_dispatch_authority: nothing was committed since the selection, the
\* own publication excepted.  What follows is printing.
Recheck(d) ==
    /\ dispatch[d].step = "rendered"
    /\ IF /\ StillOffered(d)
          /\ IF dispatch[d].own = Nothing
             THEN Now(d) = dispatch[d].capability
             ELSE /\ dispatch[d].capability.revision + 1 = dispatch[d].own
                  /\ revision = dispatch[d].own
       THEN Emit(d) ELSE Fail(d)
    /\ UNCHANGED <<files, ledger>>

-----------------------------------------------------------------------------
(* What other commands commit meanwhile.                                   *)

ChangeAttempt(change) ==
    /\ Commit
    /\ attempt' = change
    /\ UNCHANGED <<file, accepted, publication, lease, dispatch>>

Pause == attempt.active /\ ChangeAttempt([attempt EXCEPT !.active = FALSE])

\* Resuming accepts the current definition, perhaps with another brief.
Resume(b) ==
    /\ ~attempt.active
    /\ ChangeAttempt([active |-> TRUE, stale |-> FALSE, brief |-> b])

Revise == ChangeAttempt([attempt EXCEPT !.stale = TRUE])

\* A release or a revocation is an end without a new pair, and a commit.
Handover ==
    /\ Commit
    /\ lease' = [pair |-> lease.pair + 1, live |-> TRUE]
    /\ UNCHANGED <<file, accepted, publication, attempt, dispatch>>

LeaseExpires ==
    /\ lease.live
    /\ lease' = [lease EXCEPT !.live = FALSE]
    /\ UNCHANGED <<files, attempt, dispatch>>

StartPublication(p, purpose, work) ==
    /\ dispatch[p] = Idle /\ publication[p] = Idle
    /\ Begin(p, purpose, work)
    /\ UNCHANGED <<file, accepted, revision, ledger, dispatch>>

\* publish_checkpoint_artifacts reads result.md and review.md as they are now.
PublishCheckpoint(p, c, result, review) ==
    StartPublication(p, "checkpoint",
        << [key |-> <<"result", c>>, bytes |-> result],
           [key |-> <<"evidence", c>>, bytes |-> review] >>)

\* Accepting a checkpoint pauses the attempt in the same transaction; all else
\* that is published changes nothing but its reference.
PublishArtifact(p) ==
    /\ PublicationStep(p)
    /\ IF publication[p].step = "accept" /\ publication'[p] = Idle
       THEN attempt.active /\ attempt' = [attempt EXCEPT !.active = FALSE]
       ELSE UNCHANGED attempt
    /\ UNCHANGED <<lease, dispatch>>

EndPublication(p) ==
    dispatch[p] = Idle /\ Abandon(p) /\ UNCHANGED <<ledger, dispatch>>

DispatchStep(d) ==
    \/ \E pair \in {NoLease, lease.pair}, supplied \in Bytes \cup {Nothing} :
          Select(d, pair, supplied)
    \/ Confirm(d)
    \/ ReadBrief(d)
    \/ FindReview(d)
    \/ LookForReview(d)
    \/ TakeReview(d)
    \/ Recheck(d)
    \/ Stop(d)

Next ==
    \/ \E d \in Publishers : DispatchStep(d)
    \/ \E p \in Publishers :
          \/ \E c \in Checkpoints, result, review \in Bytes :
                PublishCheckpoint(p, c, result, review)
          \/ PublishArtifact(p)
          \/ EndPublication(p)
    \/ Pause
    \/ \E b \in Briefs : Resume(b)
    \/ Revise
    \/ Handover
    \/ LeaseExpires

Spec == Init /\ [][Next]_vars

-----------------------------------------------------------------------------
(* Correctness.                                                            *)

\* A launch is emitted only while it is current: the attempt is active, its
\* definition is not stale, its brief is the one the prompt names, the
\* authority still stands, and a checkpoint that crosses a boundary has an
\* accepted review of exactly that brief.
EmittedIsCurrent ==
    [][\A d \in Publishers :
          dispatch[d].step = "rendered" /\ dispatch'[d].step = "emitted" =>
              /\ attempt.active /\ ~attempt.stale
              /\ attempt.brief = dispatch[d].brief
              /\ StillOffered(d)
              /\ dispatch[d].brief \in LocalBriefs
                    \/ accepted[Review(dispatch[d].brief)] # Nothing]_vars

=============================================================================
