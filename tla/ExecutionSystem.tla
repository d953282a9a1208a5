--------------------------- MODULE ExecutionSystem ---------------------------
(***************************************************************************)
(* The executor and the recovery services over one table, and what they    *)
(* promise together.                                                       *)
(***************************************************************************)
EXTENDS Recovery

Init == ExecutorInit /\ RecoveryInit

\* A step of the executor leaves the audits and the sweep's memory alone.
Executing(action) == action /\ UNCHANGED recoveryVars

CallerNext(c) ==
  \/ \E op \in Ops, content \in Contents : Executing(Request(c, op, content))
  \/ Executing(Decline(c))
  \/ Executing(Claim(c))
  \/ Executing(ResolveCredentials(c))
  \/ Executing(PreDispatchFailure(c))
  \/ Executing(Fence(c))
  \/ Executing(FenceLost(c))
  \/ Executing(FenceError(c))
  \/ Executing(Dispatch(c))
  \/ Executing(Answer(c))
  \/ Executing(Finalize(c))
  \/ Executing(Crash(c))

RecoveryNext(op) ==
  \/ Reown(op)
  \/ SweepRead(op)
  \/ SweepWrite(op)
  \/ SweepFails(op)
  \/ BackoffElapses(op)

OperatorNext(op, corr) ==
  \/ \E c \in Callers : Resume(c, op, corr)
  \/ \E action \in Actions \ {"authorize_retry"} : Resolve(op, corr, action)

Next ==
  \/ \E c \in Callers : CallerNext(c)
  \/ \E op \in Ops : Executing(ProviderActs(op))
  \/ \E op \in Ops : RecoveryNext(op)
  \/ \E op \in Ops, corr \in Correlations : OperatorNext(op, corr)

Spec == Init /\ [][Next]_vars

TypeOK == ExecutorTypeOK /\ RecoveryTypeOK

(***************************************************************************)
(* Safety.                                                                 *)
(***************************************************************************)
Applied(op) == provider[op].state = "applied"

MayApply(op) == provider[op].state \in {"received", "applied"}

\* operator_resume.py: "at-most-one LOCAL provider dispatch per existing
\* operation claim".  Whatever the interleaving of requests, reverts,
\* resumes, re-owns and crashes, the marketplace is called at most once
\* under one key.
AtMostOneDispatch == \A op \in Ops : provider[op].calls <= 1

\* attempt_count "counts provable dispatch attempts": the marketplace is
\* never called for a row that does not account for the call, so a row with
\* attempt_count = 0 proves that nothing was sent.
DispatchIsAccounted ==
  \A op \in Ops : /\ provider[op].calls <= log[op].attempts
                  /\ log[op].attempts <= 1
                  /\ log[op].attempts = 1 <=> log[op].started

\* A request answered with success, first-hand or from the cache, was
\* applied by the marketplace with exactly the content the caller sent.
SuccessIsThisRequest ==
  \A op \in Ops, content \in Contents :
    ResolveExisting(log[op], content) = "success" =>
      Applied(op) /\ provider[op].request = content

\* A caller is told to start a new operation (PRIOR_FAILED) only when the
\* marketplace did not and will not apply the old one; otherwise the advice
\* doubles the write.  Holds while operator redispatch is off.
FailedWasNotApplied ==
  \A op \in Ops, content \in Contents :
    ResolveExisting(log[op], content) = "PRIOR_FAILED" => ~MayApply(op)

\* executor.py: "structurally impossible to observe a succeeded inverse
\* whose original is still 'success'", and no row is reverted without one.
RevertIsAtomic ==
  /\ \A r \in Inverses :
       log[r].status \in {"success", "reverted"} =>
         log[r].linked /\ log[Original[r]].status # "success"
  /\ \A op \in Ops :
       log[op].status = "reverted" =>
         \E r \in Inverses : /\ Original[r] = op
                             /\ log[r].status \in {"success", "reverted"}

\* An inverse is sent to the marketplace only after its original was applied.
InverseFollowsOriginal ==
  \A r \in Inverses : provider[r].calls > 0 => Applied(Original[r])

\* operator_resume.py: "retry_authorized is never committed while status is
\* still pending", and an operation is authorised at most once.
AuthorizedOnce ==
  \A op \in Ops :
    /\ log[op].manual = "retry_authorized" => log[op].started
    /\ \A x, y \in Correlations :
         audits[x] = audits[y] /\ audits[x].action = "authorize_retry" => x = y

\* The operator's conclusion on a row never stands without an audit row.
ResolutionIsAudited ==
  \A op \in Ops :
    log[op].manual # "null" =>
      \E corr \in Correlations : /\ audits[corr].op = op
                                 /\ audits[corr].action # "none"
                                 /\ Resolution(audits[corr].action) = log[op].manual

\* execution_log.py: "a revived stale worker is fenced out".  A caller that
\* is about to call the provider, or has, owns the current generation, and
\* no second caller is there with it.
OnlyOwnerDispatches ==
  \A c \in Callers :
    call[c].pc \in {"dispatching", "sent", "answered"} =>
      /\ call[c].gen = log[call[c].op].gen
      /\ call[c].content = log[call[c].op].content
      /\ \A d \in Callers :
           call[d].pc \in {"dispatching", "sent", "answered"} /\ call[d].op = call[c].op
             => d = c

(***************************************************************************)
(* Action properties.                                                      *)
(***************************************************************************)

\* A recorded success is final, save that a revert may follow it.
SuccessIsKept ==
  [][\A op \in Ops : log[op].status = "success" =>
                       log'[op].status \in {"success", "reverted"}]_vars

\* recovery_sweep.py: a status-guarded UPDATE, "so a row the executor has
\* since finalised is never stomped", although the verdict was read before.
SettledIsNotReclassified ==
  [][\A op \in Ops : log[op].status \notin OpenStatus =>
                       log'[op].recon = log[op].recon /\ log'[op].tries = log[op].tries]_vars

(***************************************************************************)
(* What the code says of itself and does not do (checked to be violated).  *)
(***************************************************************************)

\* executor.py:541-543, of an SQLAlchemyError in the CAS phase: "the CAS
\* neither committed in_flight nor dispatched, so the row is already a safe
\* un-dispatched pending claim".
CasErrorLeavesClaim ==
  [][\A c \in Callers : call[c].pc = "ready" /\ call'[c].pc = "idle" => log' = log]_vars

\* recovery_sweep.py:223: "intent_observed -> goal met, stop rechecking".
IntentObservedEndsRechecks ==
  [][\A op \in Ops : log[op].recon = "intent_observed" =>
                       log'[op].tries = log[op].tries]_vars

\* test_operator_resume_pg.py:430: "supported inverse -> one dispatch +
\* original flipped to reverted": a fresh, undisputed claim of an inverse
\* whose original succeeded may be resumed.
PendingInverseIsResumable ==
  \A r \in Inverses :
    log[r] = Claimed(InverseContent) /\ log[Original[r]].status = "success"
      => ResumeWhere(r, log[r])

(***************************************************************************)
(* Liveness.                                                               *)
(***************************************************************************)

\* The scheduler runs the sweep again and again, and time passes.  A batch
\* may fail, but not every time.
SweepFairness ==
  \A op \in Ops : /\ WF_vars(SweepRead(op))
                  /\ SF_vars(SweepWrite(op))
                  /\ WF_vars(BackoffElapses(op))

FairSpec == Spec /\ SweepFairness

\* No stuck row is rechecked for ever, and none is forgotten: each settles
\* or is reconciled MaxReconciles times and left to the operator.
OpenRowsReachTheOperator ==
  \A op \in Ops :
    log[op].status \in OpenStatus ~>
      log[op].status \notin OpenStatus \/ log[op].tries = MaxReconciles

(***************************************************************************)
(* The system implements AtMostOnceOperation.                              *)
(***************************************************************************)
Abstract ==
  INSTANCE AtMostOnceOperation WITH
    claimed <- {op \in Ops : log[op].status # "absent"},
    sent    <- [op \in Ops |-> provider[op].calls],
    applied <- {op \in Ops : Applied(op)}

\* Every behaviour of the table, the callers and the marketplace is one of
\* a key that is claimed, sent at most once and applied at most once.
ImplementsAtMostOnce == Abstract!AbsSpec

=============================================================================
