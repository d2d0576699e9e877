--------------------------- MODULE MCFocusRecord ----------------------------
(* Small instances of FocusRecord for TLC, with the catalogue and the read *)
(* models of the same ledger.                                              *)
EXTENDS FocusRecord, WorkOverview

\* Item and attempt identities are interchangeable.
Identities == Permutations(Items) \cup Permutations(Attempts)

\* On a ledger whose focus row is present two of the items are ever created.
TwoOrFresh == focus = NoRow \/ Cardinality({i \in Items : Exists(i)}) <= 2

MCFocusSpec ==
    /\ InitFresh \/ InitSeeded
    /\ [][FocusNext /\ TwoOrFresh']_focusVars

=============================================================================
