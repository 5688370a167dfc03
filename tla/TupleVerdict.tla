---------------------------- MODULE TupleVerdict ----------------------------
(***************************************************************************)
(* What is promised of a search for leaking tuples, however it goes about  *)
(* it: it answers once; it calls secure only what has no leaking tuple;    *)
(* and, when the question asked for one tuple is answered exactly, it      *)
(* calls leaking only what has one.                                        *)
(***************************************************************************)
VARIABLES
    leaks,      \* whether some tuple of the order leaks
    exact,      \* whether one tuple is never suspected without reason
    verdict     \* "none", "secure" or "leak"

Init == leaks \in BOOLEAN /\ exact \in BOOLEAN /\ verdict = "none"

Secure ==
    /\ verdict = "none" /\ ~leaks
    /\ verdict' = "secure"
    /\ UNCHANGED <<leaks, exact>>

Leak ==
    /\ verdict = "none" /\ (exact => leaks)
    /\ verdict' = "leak"
    /\ UNCHANGED <<leaks, exact>>

Next == Secure \/ Leak

Spec == Init /\ [][Next]_<<leaks, exact, verdict>>
=============================================================================
