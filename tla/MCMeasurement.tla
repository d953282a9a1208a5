---------------------------- MODULE MCMeasurement ---------------------------
(* Small instances of Measurement for TLC. *)
EXTENDS Measurement, TLC

MCSymmetry == Permutations(Requests) \cup Permutations(Passes)

=============================================================================
