---------------------------- MODULE WorkOverview ----------------------------
(***************************************************************************)
(* The read models of application/queries.py that tell people what to do   *)
(* next: the overview's immediate items and the preview of work that can   *)
(* be launched in parallel.  Each is computed from one snapshot and the    *)
(* reader's own clock; nothing is locked, so a preview promises only what  *)
(* its snapshot allows.                                                    *)
(***************************************************************************)
EXTENDS ActionCatalogue

-----------------------------------------------------------------------------
(* project_overview                                                        *)

\* Fault: every live item counts as eligible.
EligibleAnyway(i) == IsLive(i)

Eligible(i) == IsLive(i) /\ ~DependenciesLive(i)

PreparationStatus(i, now) ==
    IF claim[i].status = "active" /\ claim[i].expires <= now THEN "expired"
    ELSE claim[i].status

ImmediateStates == {"intake", "ready", "deferred", "paused", "blocked"}

Immediate(now) ==
    {i \in Items : /\ Eligible(i)
                   /\ PreparationStatus(i, now) # "active"
                   /\ itemState[i] \in ImmediateStates}

-----------------------------------------------------------------------------
(* project_parallel_preview                                                *)

ActiveAttempts(i) == {a \in Attempts : Holds(i, a) /\ attemptState[a] = "active"}

\* _classify_parallel_exclusion_reasons: the first reason that applies.
ExclusionReason(i, now) ==
    CASE itemState[i] \notin {"ready", "active"} -> "state-not-launchable"
      [] ClaimLive(i, now) -> "preparation-owned"
      [] DependenciesLive(i) -> "dependency-live"
      [] \E a \in ActiveAttempts(i) : LeaseLive(a, now) -> "attempt-owned"
      [] OTHER -> "none"

\* Fault: an item that waits for a dependency is launched.
LaunchableWaiting(now) ==
    {i \in Items : IsLive(i) /\ ExclusionReason(i, now) \in {"none", "dependency-live"}}

Launchable(now) ==
    {i \in Items : IsLive(i) /\ ExclusionReason(i, now) = "none"}

\* The rows of item_dependencies the preview groups by their item.  The groups
\* are those of live items; the rows are everybody's, a row of an item that is
\* history included.
GroupedRows ==
    {row \in Items \X Items : row[2] \in dependencies[row[1]] /\ IsLive(row[2])}

-----------------------------------------------------------------------------

ClaimObtainable(i, now) == CanAcquireClaim(i) \/ CanTransferClaim(i, now)

LeaseObtainable(a, now) == CanAcquireLease(a) \/ CanTransferLease(a, now)

\* Whoever launches what the preview shows obtains the authority it needs, the
\* claim of a ready item or the lease of an active attempt, as long as nothing
\* else is committed; and a ready item the preview excludes cannot be claimed.
LaunchableStarts ==
    \A now \in 0..Horizon : Asked(now) =>
        \A i \in Items :
            /\ i \in Launchable(now) =>
                  IF itemState[i] = "ready" THEN ClaimObtainable(i, now)
                  ELSE \E a \in ActiveAttempts(i) : LeaseObtainable(a, now)
            /\ itemState[i] = "ready" /\ i \notin Launchable(now) =>
                  ~ClaimObtainable(i, now)

\* An item the overview calls immediate has a way forward now: it can be made
\* ready, claimed, reopened or resumed; being closed or revised does not count.
ImmediateCanMove ==
    \A now \in 0..Horizon : Asked(now) =>
        \A i \in Immediate(now) :
            \/ ItemOffers(i, now) \cap {"mark-ready", "reopen", "resume"} # {}
            \/ ClaimObtainable(i, now)

\* The preview has an answer for every valid ledger: "each report a projection
\* from one current SQLite snapshot" (SKILL.md).  A row of an item that has no
\* group raises a KeyError instead.
PreviewAnswers == \A row \in GroupedRows : IsLive(row[1])

=============================================================================
