----------------------------- MODULE MCCsvImport ----------------------------
(* Small instances of CsvImport for TLC: a file of one day, and one of two. *)
EXTENDS CsvImport, TLC

CONSTANTS f1, f2, d1, d2

MCKeysOf == f1 :> {d1} @@ f2 :> {d1, d2}

MCSymmetry == Permutations(Imports) \cup Permutations(Handlers) \cup Permutations(Stores)

=============================================================================
