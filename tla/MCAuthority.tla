----------------------------- MODULE MCAuthority ------------------------------
(* The claim of one item and the lease of one attempt, for TLC, each with   *)
(* two command processes.  They share AuthorityTables, and so its           *)
(* variables; every behaviour is one of one of them, as `part` says.        *)
EXTENDS PreparationLease, TLC

VARIABLES part, attemptState

Attempt == INSTANCE AttemptLease

AuthorityInit ==
    /\ part \in {"claim", "lease"}
    /\ Init /\ Attempt!Init

InClaim == part = "claim" /\ UNCHANGED <<part, attemptState>>
InLease == part = "lease" /\ UNCHANGED <<part, itemVars, pin, expected>>

AuthorityNext ==
    \/ Next /\ InClaim
    \/ Attempt!Next /\ InLease

AuthoritySpec ==
    AuthorityInit /\ [][AuthorityNext]_<<vars, part, attemptState>>

\* The properties of AttemptLease, by their names.
FinishedStaysFenced == Attempt!FinishedStaysFenced
NoChangeIsLost == Attempt!NoChangeIsLost

\* Command processes are interchangeable.
Processes == Permutations(Commands)

=============================================================================
