------------------------------ MODULE Recovery ------------------------------
(***************************************************************************)
(* services/marketplace/recovery: the re-own sweep, the read-only recovery *)
(* sweep, the operator's manual resolution and the operator's              *)
(* authorize-and-resume, which share the table with the executor and, for  *)
(* the resume, its dispatch.  Each is behind a feature flag that is off by *)
(* default.                                                                *)
(***************************************************************************)
EXTENDS Executor

CONSTANTS
  Correlations,       \* correlation ids of operator requests
  ReownEnabled,       \* recovery_reown_enabled and not its dry run
  ReaperEnabled,      \* recovery_reaper_enabled and not its dry run
  OperatorEnabled,    \* recovery_operator_enabled
  RedispatchEnabled   \* recovery_redispatch_enabled

ASSUME RecoveryAssumption ==
  {ReownEnabled, ReaperEnabled, OperatorEnabled, RedispatchEnabled} \subseteq BOOLEAN

VARIABLES
  audits,   \* Correlations -> the audit row INSERTed under that id
  sweep     \* Ops -> the verdict the running recovery sweep holds in memory

recoveryVars == <<audits, sweep>>

vars == <<executorVars, recoveryVars>>

Actions == {"confirm_applied", "confirm_not_applied", "close", "authorize_retry"}

Resolution(action) ==
  CASE action = "confirm_applied"     -> "confirmed_applied"
    [] action = "confirm_not_applied" -> "confirmed_not_applied"
    [] action = "close"               -> "manual_closed"
    [] action = "authorize_retry"     -> "retry_authorized"

NoAudit == [action |-> "none", op |-> AnyOp]

Audit == [action : Actions \cup {"none"}, op : Ops]

RecoveryTypeOK ==
  /\ audits \in [Correlations -> Audit]
  /\ sweep \in [Ops -> {"none"} \cup Verdicts]

RecoveryInit ==
  /\ audits = [corr \in Correlations |-> NoAudit]
  /\ sweep = [op \in Ops |-> "none"]

\* INSERT of an audit row; UNIQUE(correlation_id) admits it once.
Audited(corr, action, op) ==
  /\ audits[corr].action = "none"
  /\ audits' = [audits EXCEPT ![corr] = [action |-> action, op |-> op]]

(***************************************************************************)
(* reown_sweep: any undispatched claim may be stale, because nothing       *)
(* bounds how slow its worker is.                                          *)
(***************************************************************************)
Reown(op) ==
  /\ ReownEnabled
  /\ ReownWhere(log[op])
  /\ log' = [log EXCEPT ![op] = Reowned(@)]
  /\ UNCHANGED <<call, provider, recoveryVars>>

(***************************************************************************)
(* operator_resume.resume: row lock, live eligibility, audit INSERT,       *)
(* _RESUME_CAS and commit are one transaction; the caller then goes on to  *)
(* the dispatch shared with execute(), with the STORED payload.            *)
(***************************************************************************)
OriginalRevertible(op) == op \in Inverses => log[Original[op]].status = "success"

Resume(c, op, corr) ==
  /\ OperatorEnabled /\ RedispatchEnabled
  /\ call[c].pc = "idle"
  /\ ResumeWhere(op, log[op])
  /\ OriginalRevertible(op)
  /\ Audited(corr, "authorize_retry", op)
  /\ log' = [log EXCEPT ![op] = [TakeInFlight(@) EXCEPT !.manual = "retry_authorized"]]
  /\ call' = [call EXCEPT ![c] = [Idle EXCEPT !.pc = "dispatching", !.op = op,
                                              !.content = log[op].content,
                                              !.gen = log[op].gen]]
  /\ UNCHANGED <<provider, sweep>>

(***************************************************************************)
(* operator_resolve.resolve: the operator's conclusion, under the row lock *)
(***************************************************************************)
Disputed(row) ==
  row.status \in OpenStatus \/ row.recon \in {"target_not_observed", "still_unknown"}

Resolve(op, corr, action) ==
  /\ OperatorEnabled
  /\ Disputed(log[op])
  /\ action \in {"confirm_applied", "confirm_not_applied"} => SelfConsistent(op, log[op])
  /\ Audited(corr, action, op)
  /\ log' = [log EXCEPT ![op].manual = Resolution(action)]
  /\ UNCHANGED <<call, provider, sweep>>

(***************************************************************************)
(* recovery_sweep: a READ phase that classifies candidates against the     *)
(* marketplace and a later WRITE phase that stores the verdicts.  A        *)
(* classification may be anything: the observed state is not attribution   *)
(* and the read may lag.  A row that fails the fingerprint re-check is     *)
(* not observed at all.                                                    *)
(***************************************************************************)
SweepRead(op) ==
  /\ ReaperEnabled
  /\ sweep[op] = "none"
  /\ SweepCandidate(log[op])
  /\ \E verdict \in IF SelfConsistent(op, log[op]) THEN Verdicts ELSE {"still_unknown"} :
       sweep' = [sweep EXCEPT ![op] = verdict]
  /\ UNCHANGED <<executorVars, audits>>

\* Mutant: the verdict is stored whatever the row has become.
SweepWriteUnguarded(op) ==
  /\ sweep[op] # "none"
  /\ log' = [log EXCEPT ![op] = Reconciled(@, sweep[op])]
  /\ sweep' = [sweep EXCEPT ![op] = "none"]
  /\ UNCHANGED <<call, provider, audits>>

SweepWrite(op) ==
  /\ sweep[op] # "none"
  /\ log' = [log EXCEPT ![op] = IF @.status \in OpenStatus
                                THEN Reconciled(@, sweep[op]) ELSE @]
  /\ sweep' = [sweep EXCEPT ![op] = "none"]
  /\ UNCHANGED <<call, provider, audits>>

\* A batch fails: its verdicts are dropped.
SweepFails(op) ==
  /\ sweep[op] # "none"
  /\ sweep' = [sweep EXCEPT ![op] = "none"]
  /\ UNCHANGED <<executorVars, audits>>

\* next_reconcile_at passes.
BackoffElapses(op) ==
  /\ ~log[op].due
  /\ log' = [log EXCEPT ![op].due = TRUE]
  /\ UNCHANGED <<call, provider, recoveryVars>>
=============================================================================
