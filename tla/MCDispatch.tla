----------------------------- MODULE MCDispatch -----------------------------
(* Dispatch and the artifacts under it on two processes, for TLC. *)
EXTENDS Dispatch, TLC

MCKeys ==
    {Review(b) : b \in Briefs \ LocalBriefs} \cup {Rejected(d) : d \in Publishers}
    \cup {<<kind, c>> : kind \in {"result", "evidence"}, c \in Checkpoints}

\* Contents and processes are interchangeable.
Symmetry == Permutations(Bytes) \cup Permutations(Publishers)
=============================================================================
