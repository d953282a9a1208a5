------------------------------ MODULE MCApiSync ------------------------------
(***************************************************************************)
(* Instances of ApiSync.                                                   *)
(***************************************************************************)
EXTENDS ApiSync

\* The feeds do not touch each other's rows: either a listing alone, or the two
\* other ways to walk side by side.
MCPlans == {<<"listing">>, <<"window", "report">>}
\* A store after a store: what becomes of the later one.
MCPlansInLine == {<<"listing", "report">>}
MCItems == 1 .. 2
=============================================================================
