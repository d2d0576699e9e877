---------------------------- MODULE FencedGrant ----------------------------
(***************************************************************************)
(* What every lease of Pinboard promises its holders, without time, rows   *)
(* or counters: at most one grant is in force, and a grant that has been   *)
(* replaced or ended is spent for ever, whoever still remembers it.        *)
(***************************************************************************)
CONSTANT NoGrant

VARIABLES
    current,    \* the grant in force, or NoGrant
    spent       \* every grant that was in force before

Retire == spent' = spent \cup ({current} \ {NoGrant})

Init == current = NoGrant /\ spent = {}

\* A grant never in force before takes the place of whatever was there.
Issue ==
    /\ current' \notin spent \cup {current, NoGrant}
    /\ Retire

End ==
    /\ current # NoGrant
    /\ current' = NoGrant
    /\ Retire

Next == Issue \/ End

Spec == Init /\ [][Next]_<<current, spent>>

=============================================================================
