------------------------ MODULE MCReviewPublication ------------------------
(***************************************************************************)
(* The instances of ReviewPublication that TLC checks.                     *)
(***************************************************************************)
EXTENDS ReviewPublication
============================================================================
