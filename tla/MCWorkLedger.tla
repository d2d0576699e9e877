---------------------------- MODULE MCWorkLedger ----------------------------
(* Small instances of WorkLedger for TLC. *)
EXTENDS WorkLedger, TLC

\* Item and attempt identities are interchangeable.
Identities == Permutations(Items) \cup Permutations(Attempts)
=============================================================================
