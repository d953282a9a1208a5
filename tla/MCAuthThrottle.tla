--------------------------- MODULE MCAuthThrottle ---------------------------
(* Small instance of AuthThrottle for TLC. *)
EXTENDS AuthThrottle, TLC

\* The shipped limits are 5, 20 and 50; what matters is that the identity and
\* the address limit exceed what one pair can pass in two of its windows.
MCLimit == [pair |-> 2, identity |-> 3, ip |-> 3]

MCSymmetry == Permutations(Requests) \cup Permutations(Identities) \cup Permutations(Ips)

=============================================================================
