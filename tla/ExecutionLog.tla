---------------------------- MODULE ExecutionLog ----------------------------
(***************************************************************************)
(* The table execution_logs (models/execution_log.py) as the executor and  *)
(* the recovery services see it: one row per v1 operation key, because     *)
(* only the pending CLAIM row carries the key and the partial UNIQUE index *)
(* uq_execlog_op_claim admits one.  The guarded UPDATE statements that the *)
(* services race on are operators on a row: a condition (the WHERE) and    *)
(* the row the SET clause produces.                                        *)
(***************************************************************************)
EXTENDS Naturals

CONSTANTS
  Ops,            \* operation keys of one tenant
  Inverses,       \* the keys in the v1:revert: namespace
  Original,       \* Inverses -> Ops: the operation a revert key names
  Contents,       \* request fingerprints: what an operation does
  NoContent,      \* the fingerprint of no request
  MaxReowns,      \* settings.recovery_max_reowns
  MaxReconciles   \* settings.recovery_max_reconcile_attempts

ASSUME ExecutionLogAssumption ==
  /\ Inverses \subseteq Ops
  /\ Original \in [Inverses -> Ops]
  /\ \A r \in Inverses : Original[r] # r
  /\ \A r, s \in Inverses : Original[r] = Original[s] => r = s
  /\ Ops # {}
  /\ Contents # {}
  /\ NoContent \notin Contents
  /\ MaxReowns \in Nat
  /\ MaxReconciles \in Nat

(***************************************************************************)
(* Column domains.  "absent" is the missing row; "null" an SQL NULL.  A    *)
(* rejected row carries no key, so it never occupies one and is left out.  *)
(***************************************************************************)
OpenStatus == {"pending", "in_flight", "ambiguous"}

Status == {"absent"} \cup OpenStatus \cup {"success", "failed", "reverted"}

Verdicts == {"intent_observed", "target_not_observed", "still_unknown"}

Resolutions ==
  {"confirmed_applied", "confirmed_not_applied", "manual_closed", "retry_authorized"}

Row == [status  : Status,
        content : Contents \cup {NoContent},      \* request_fingerprint
        gen     : Nat,                            \* claim_generation
        reowns  : Nat,                            \* reown_count
        attempts: Nat,                            \* attempt_count
        started : BOOLEAN,                        \* dispatch_started_at IS NOT NULL
        linked  : BOOLEAN,                        \* reverted_from IS NOT NULL
        recon   : {"null"} \cup Verdicts,         \* reconciliation_status
        tries   : Nat,                            \* reconciliation_attempts
        due     : BOOLEAN,                        \* next_reconcile_at IS NULL or <= now
        manual  : {"null"} \cup Resolutions]      \* manual_resolution

NoRow == [status |-> "absent", content |-> NoContent, gen |-> 0, reowns |-> 0,
          attempts |-> 0, started |-> FALSE, linked |-> FALSE, recon |-> "null",
          tries |-> 0, due |-> TRUE, manual |-> "null"]

\* A fresh claim.  The row of an inverse does not carry reverted_from: that
\* column is written by the terminal commit only.
Claimed(content) == [NoRow EXCEPT !.status = "pending", !.content = content]

(***************************************************************************)
(* The statements.                                                         *)
(***************************************************************************)
Undispatched(row) == row.status = "pending" /\ ~row.started

TakeInFlight(row) ==
  [row EXCEPT !.status = "in_flight", !.started = TRUE, !.attempts = @ + 1]

\* Mutant: a fence that no longer compares the generation.
FenceWhereNoGen(row, gen) == Undispatched(row)

\* Mutant: a fence that compares nothing else.
FenceWhereGenOnly(row, gen) == row.gen = gen

\* _FENCE_CAS: the worker that owns generation gen takes in_flight.
FenceWhere(row, gen) == Undispatched(row) /\ row.gen = gen

\* _REOWN_CAS: ownership moves on, nothing else does.
ReownWhere(row) == Undispatched(row) /\ row.reowns < MaxReowns

Reowned(row) == [row EXCEPT !.gen = @ + 1, !.reowns = @ + 1]

\* The stored row still hashes to its fingerprint.  compute_fingerprint
\* covers reverted_from, and the claim of an inverse was hashed with it.
SelfConsistent(op, row) == op \in Inverses => row.linked

\* Mutant: any open row may be resumed, whatever was sent or authorised before.
ResumeWhereOpen(op, row) ==
  /\ row.status \in OpenStatus
  /\ SelfConsistent(op, row)
  /\ row.reowns < MaxReowns
  /\ row.recon = "null"

\* _RESUME_CAS together with the structural part of evaluate_resume.
ResumeWhere(op, row) ==
  /\ Undispatched(row)
  /\ row.attempts = 0
  /\ SelfConsistent(op, row)
  /\ row.reowns < MaxReowns
  /\ row.recon = "null"
  /\ row.manual \in {"null", "confirmed_not_applied", "manual_closed"}

\* Rows the recovery sweep selects.
SweepCandidate(row) ==
  /\ row.status \in OpenStatus
  /\ row.status = "pending" => ~row.started
  /\ row.status = "in_flight" => row.started
  /\ row.due
  /\ row.tries < MaxReconciles

\* Mutant: the attempts are not counted.
ReconciledUncounted(row, verdict) ==
  [row EXCEPT !.recon = verdict, !.due = verdict = "intent_observed"]

\* _WRITE_RECON with the next_reconcile_at _next_reconcile computes: NULL,
\* which the candidate query takes for due, once the goal is met or the
\* attempts are used up, and a moment in the future otherwise.
Reconciled(row, verdict) ==
  [row EXCEPT !.recon = verdict,
              !.tries = @ + 1,
              !.due   = verdict = "intent_observed" \/ row.tries + 1 >= MaxReconciles]

(***************************************************************************)
(* The answer to a request whose key is already taken.                     *)
(***************************************************************************)
ResolveExisting(row, content) ==
  CASE row.status = "absent"                   -> "TRANSIENT_CONFLICT"
    [] row.status # "absent" /\ row.content # content -> "IDEMPOTENCY_MISMATCH"
    [] OTHER -> CASE row.status = "success"    -> "success"
                  [] row.status = "ambiguous"  -> "AMBIGUOUS_PRIOR"
                  [] row.status = "reverted"   -> "ALREADY_REVERTED"
                  [] row.status = "failed"     -> "PRIOR_FAILED"
                  [] OTHER                     -> "OPERATION_IN_PROGRESS"
=============================================================================
