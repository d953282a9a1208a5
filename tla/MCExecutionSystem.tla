-------------------------- MODULE MCExecutionSystem --------------------------
(***************************************************************************)
(* Small instances of ExecutionSystem for TLC.                             *)
(***************************************************************************)
EXTENDS ExecutionSystem, TLC

CONSTANTS o1, r1

\* One operation and its inverse.
MCOriginal == r1 :> o1

\* Operations without inverses.
MCNoOriginal == <<>>

\* Callers and correlation ids are interchangeable.
MCSymmetry == Permutations(Callers) \cup Permutations(Correlations)

==============================================================================
