----------------------------- MODULE MCBilling ------------------------------
(* Small instance of Billing for TLC: one seller submits twice, a second one *)
(* competes for the only slot.                                               *)
EXTENDS Billing

CONSTANTS u1, u2, s1, s2, s3

MCBy == s1 :> u1 @@ s2 :> u1 @@ s3 :> u2

MCSymmetry == Permutations(Payments) \cup Permutations(Calls)

=============================================================================
