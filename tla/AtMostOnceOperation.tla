------------------------ MODULE AtMostOnceOperation ------------------------
(***************************************************************************)
(* What the marketplace pipeline promises of an operation key: it is       *)
(* claimed before anything is sent, something is sent at most once, and    *)
(* the marketplace changes at most once, because of what was sent.         *)
(***************************************************************************)
EXTENDS Naturals

CONSTANT Ops

VARIABLES
  claimed,   \* the keys that are taken
  sent,      \* Ops -> number of requests sent under the key
  applied    \* the keys whose request the marketplace has applied

absVars == <<claimed, sent, applied>>

AbsInit ==
  /\ claimed = {}
  /\ sent = [op \in Ops |-> 0]
  /\ applied = {}

AbsClaim(op) ==
  /\ op \notin claimed
  /\ claimed' = claimed \cup {op}
  /\ UNCHANGED <<sent, applied>>

AbsSend(op) ==
  /\ op \in claimed
  /\ sent[op] = 0
  /\ sent' = [sent EXCEPT ![op] = 1]
  /\ UNCHANGED <<claimed, applied>>

AbsApply(op) ==
  /\ sent[op] = 1
  /\ op \notin applied
  /\ applied' = applied \cup {op}
  /\ UNCHANGED <<claimed, sent>>

AbsNext == \E op \in Ops : AbsClaim(op) \/ AbsSend(op) \/ AbsApply(op)

AbsSpec == AbsInit /\ [][AbsNext]_absVars
=============================================================================
