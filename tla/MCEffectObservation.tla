------------------------ MODULE MCEffectObservation -------------------------
(* Small instances of EffectObservation for TLC. *)
EXTENDS EffectObservation, TLC

MCSymmetry == Permutations(Links) \cup Permutations(Confirms) \cup Permutations(Closes)

=============================================================================
