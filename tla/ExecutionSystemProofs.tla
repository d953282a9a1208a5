----------------------- MODULE ExecutionSystemProofs -----------------------
(***************************************************************************)
(* Theorems of ExecutionSystem, for every set of keys, callers, contents   *)
(* and correlation ids and every setting of the feature flags.             *)
(***************************************************************************)
EXTENDS ExecutionSystem, TLAPS

(***************************************************************************)
(* The inductive invariant.  A caller is holding once its claim committed, *)
(* and active from the commit that takes the row in_flight until the       *)
(* terminal commit.                                                        *)
(***************************************************************************)
Active(c) == call[c].pc \in {"dispatching", "sent", "answered"}

Holding(c) == call[c].pc \in {"claimed", "ready"} \/ Active(c)

\* A row counts its dispatch exactly when it has one.
RowInv ==
  \A op \in Ops :
    /\ log[op].attempts = IF log[op].started THEN 1 ELSE 0
    /\ log[op].status = "absent" => ~log[op].started

\* The marketplace was called for started rows only, and once.
ProviderInv ==
  \A op \in Ops :
    /\ provider[op].calls <= 1
    /\ provider[op].calls > 0 => log[op].started
    /\ provider[op].state # "none" => provider[op].calls = 1

\* What a caller remembers agrees with the row and with the marketplace.
CallerInv ==
  \A c \in Callers :
    LET op == call[c].op IN
    /\ Holding(c) => log[op].status # "absent" /\ log[op].content = call[c].content
    /\ Active(c) => log[op].started /\ log[op].gen = call[c].gen
    /\ call[c].pc = "dispatching" => provider[op].calls = 0
    /\ call[c].pc \in {"sent", "answered"} => provider[op].request = call[c].content
    /\ call[c].pc = "answered" => call[c].answer # "none"
    /\ call[c].pc = "answered" /\ call[c].answer = "ok" => Applied(op)
    /\ call[c].pc = "answered" /\ call[c].answer = "rejected" => provider[op].state = "refused"

\* No two callers are active with one key.
UniqueInv ==
  \A c, d \in Callers : Active(c) /\ Active(d) /\ call[c].op = call[d].op => c = d

\* A succeeded operation is over.
Over(op) == \A c \in Callers : Active(c) => call[c].op # op

SuccessInv ==
  \A op \in Ops :
    log[op].status \in {"success", "reverted"} =>
      Applied(op) /\ provider[op].request = log[op].content /\ Over(op)

DispatchInv ==
  TypeOK /\ RowInv /\ ProviderInv /\ CallerInv /\ UniqueInv /\ SuccessInv

(***************************************************************************)
(* Type correctness.                                                       *)
(***************************************************************************)

\* The default key and the content of an inverse exist.
LEMMA Choices == AnyOp \in Ops /\ InverseContent \in Contents
BY ExecutionLogAssumption DEF AnyOp, InverseContent

\* Every statement of the table yields a row.
LEMMA ClaimedType == NoRow \in Row /\ \A content \in Contents : Claimed(content) \in Row
BY DEF Claimed, NoRow, Row, Status, OpenStatus

LEMMA TakeInFlightType ==
  ASSUME NEW row \in Row, NEW manual \in {"null"} \cup Resolutions
  PROVE  TakeInFlight(row) \in Row /\ [TakeInFlight(row) EXCEPT !.manual = manual] \in Row
<1>1. row.attempts + 1 \in Nat /\ "in_flight" \in Status
  BY DEF Row, Status, OpenStatus
<1>2. TakeInFlight(row) \in Row
  BY <1>1 DEF TakeInFlight, Row
<1> QED
  BY <1>2 DEF Row

LEMMA ReownedType == ASSUME NEW row \in Row PROVE Reowned(row) \in Row
<1>1. row.gen + 1 \in Nat /\ row.reowns + 1 \in Nat
  BY DEF Row
<1> QED
  BY <1>1 DEF Reowned, Row

LEMMA ReconciledType ==
  ASSUME NEW row \in Row, NEW verdict \in Verdicts
  PROVE  Reconciled(row, verdict) \in Row
<1>1. row.tries + 1 \in Nat
  BY DEF Row
<1>2. \A due \in BOOLEAN : [row EXCEPT !.recon = verdict, !.tries = @ + 1, !.due = due] \in Row
  BY <1>1 DEF Row
<1>3. (verdict = "intent_observed" \/ row.tries + 1 >= MaxReconciles) \in BOOLEAN
  OBVIOUS
<1> QED
  BY <1>2, <1>3, Zenon DEF Reconciled

LEMMA UpdatedType ==
  ASSUME NEW row \in Row
  PROVE  /\ \A manual \in Resolutions : [row EXCEPT !.manual = manual] \in Row
         /\ \A status \in Status : [row EXCEPT !.status = status] \in Row
         /\ [row EXCEPT !.due = TRUE] \in Row
BY DEF Row

\* The terminal commit writes one of three statuses.
LEMMA TerminalLogType ==
  ASSUME log \in [Ops -> Row], NEW op \in Ops, NEW answer \in Answers \ {"none"}
  PROVE  /\ TerminalStatus(answer) \in {"success", "failed", "ambiguous"}
         /\ TerminalLog(op, answer) \in [Ops -> Row]
<1>1. TerminalStatus(answer) \in {"success", "failed", "ambiguous"}
  BY DEF Answers, TerminalStatus
<1> DEFINE inverse == op \in Inverses /\ answer = "ok"
<1>2. inverse \in BOOLEAN
  OBVIOUS
<1> HIDE DEF inverse
<1>3. [log[op] EXCEPT !.status = TerminalStatus(answer), !.linked = @ \/ inverse] \in Row
  BY <1>1, <1>2 DEF Row, Status, OpenStatus
<1>4. \A o \in Ops : [log[o] EXCEPT !.status = "reverted"] \in Row /\ log[o] \in Row
  BY UpdatedType DEF Status
<1> QED
  BY <1>1, <1>3, <1>4, Zenon DEF TerminalLog, inverse

\* It touches nothing but the status and the link.
LEMMA TerminalLogKeeps ==
  ASSUME log \in [Ops -> Row], NEW op, NEW answer, NEW o \in Ops
  PROVE  /\ TerminalLog(op, answer)[o].started = log[o].started
         /\ TerminalLog(op, answer)[o].manual = log[o].manual
BY DEF TerminalLog, Row

\* It settles a row that is there and makes none.
LEMMA AbsentKept ==
  ASSUME log \in [Ops -> Row], NEW op \in Ops, NEW answer,
         log[op].status # "absent", TerminalStatus(answer) # "absent", NEW o \in Ops
  PROVE  TerminalLog(op, answer)[o].status = "absent" <=> log[o].status = "absent"
BY DEF TerminalLog, Row

\* The local states a caller takes up.
LEMMA CallTypes ==
  /\ Idle \in Call
  /\ \A op \in Ops, content \in Contents :
       [Idle EXCEPT !.pc = "requested", !.op = op, !.content = content] \in Call
  /\ \A op \in Ops, content \in Contents \cup {NoContent}, gen \in Nat :
       [Idle EXCEPT !.pc = "dispatching", !.op = op, !.content = content, !.gen = gen] \in Call
BY Choices DEF Idle, Call, Answers

\* Only the answer of a caller that is about to record it must be known.
LEMMA TypeStep == TypeOK /\ CallerInv /\ [Next]_vars => TypeOK'
<1> SUFFICES ASSUME TypeOK, CallerInv, [Next]_vars PROVE TypeOK'
  OBVIOUS
<1> USE DEF TypeOK, ExecutorTypeOK, RecoveryTypeOK, recoveryVars
<1>1. ASSUME NEW c \in Callers, NEW op \in Ops, NEW content \in Contents,
             Executing(Request(c, op, content))
      PROVE  TypeOK'
  BY <1>1, CallTypes DEF Executing, Request
<1>2. ASSUME NEW c \in Callers,
             Executing(Decline(c)) \/ Executing(Crash(c)) \/ Executing(FenceLost(c))
      PROVE  TypeOK'
  BY <1>2, CallTypes DEF Executing, Decline, Crash, FenceLost, Return
<1>3. ASSUME NEW c \in Callers, Executing(Claim(c)) PROVE TypeOK'
  <2>1. call[c].op \in Ops /\ call[c].content \in Contents \cup {NoContent}
    BY DEF Call
  <2>2. Claimed(call[c].content) \in Row
    BY <2>1 DEF Claimed, NoRow, Row, Status, OpenStatus
  <2>3. log' \in [Ops -> Row]
    BY <1>3, <2>1, <2>2 DEF Executing, Claim
  <2>4. [call[c] EXCEPT !.pc = "claimed", !.gen = NoRow.gen] \in Call
    BY DEF Call, NoRow
  <2>5. call' = [call EXCEPT ![c] = [call[c] EXCEPT !.pc = "claimed", !.gen = NoRow.gen]]
    BY <1>3 DEF Executing, Claim
  <2> QED
    BY <1>3, <2>3, <2>4, <2>5 DEF Executing, Claim
<1>4. ASSUME NEW c \in Callers, Executing(ResolveCredentials(c)) PROVE TypeOK'
  BY <1>4 DEF Executing, ResolveCredentials, Goto, Call
<1>5. ASSUME NEW c \in Callers, Executing(PreDispatchFailure(c)) PROVE TypeOK'
  <2>1. call[c].op \in Ops /\ "failed" \in Status
    BY DEF Call, Status
  <2>2. log' \in [Ops -> Row]
    BY <1>5, <2>1, UpdatedType DEF Executing, PreDispatchFailure
  <2> QED
    BY <1>5, <2>2, CallTypes DEF Executing, PreDispatchFailure, Return
<1>6. ASSUME NEW c \in Callers, Executing(Fence(c)) PROVE TypeOK'
  <2>1. log' \in [Ops -> Row]
    BY <1>6, TakeInFlightType DEF Executing, Fence, Call
  <2>2. call' \in [Callers -> Call]
    BY <1>6 DEF Executing, Fence, Goto, Call
  <2> QED
    BY <1>6, <2>1, <2>2 DEF Executing, Fence
<1>7. ASSUME NEW c \in Callers, Executing(FenceError(c)) PROVE TypeOK'
  <2>1. CASE UNCHANGED log
    BY <1>7, <2>1, CallTypes DEF Executing, FenceError, Return
  <2>2. CASE log' = [log EXCEPT ![call[c].op] = TakeInFlight(@)]
    <3>1. log' \in [Ops -> Row]
      BY <2>2, TakeInFlightType DEF Call
    <3> QED
      BY <1>7, <3>1, CallTypes DEF Executing, FenceError, Return
  <2> QED
    BY <1>7, <2>1, <2>2 DEF Executing, FenceError
<1>8. ASSUME NEW c \in Callers, Executing(Dispatch(c)) PROVE TypeOK'
  <2>1. /\ call[c].op \in Ops
        /\ call[c].content \in Contents \cup {NoContent}
        /\ provider[call[c].op].calls + 1 \in Nat
    BY DEF Call, Provider
  <2>2. provider' \in [Ops -> Provider]
    BY <1>8, <2>1 DEF Executing, Dispatch, Provider
  <2>3. call' \in [Callers -> Call]
    BY <1>8 DEF Executing, Dispatch, Goto, Call
  <2> QED
    BY <1>8, <2>2, <2>3 DEF Executing, Dispatch
<1>9. ASSUME NEW c \in Callers, Executing(Answer(c)) PROVE TypeOK'
  <2>1. PICK answer \in Answers \ {"none"} :
          call' = [call EXCEPT ![c] = [call[c] EXCEPT !.pc = "answered", !.answer = answer]]
    BY <1>9 DEF Executing, Answer
  <2>2. [call[c] EXCEPT !.pc = "answered", !.answer = answer] \in Call
    BY DEF Call
  <2> QED
    BY <1>9, <2>1, <2>2 DEF Executing, Answer
<1>10. ASSUME NEW c \in Callers, Executing(Finalize(c)) PROVE TypeOK'
  <2>1. call[c].op \in Ops /\ call[c].answer \in Answers \ {"none"}
    BY <1>10 DEF Executing, Finalize, Call, CallerInv
  <2>2. log' \in [Ops -> Row]
    BY <1>10, <2>1, TerminalLogType DEF Executing, Finalize
  <2> QED
    BY <1>10, <2>2, CallTypes DEF Executing, Finalize, Return
<1>11. ASSUME NEW op \in Ops, Executing(ProviderActs(op)) PROVE TypeOK'
  BY <1>11 DEF Executing, ProviderActs, Provider
<1>12. ASSUME NEW op \in Ops, Reown(op) PROVE TypeOK'
  BY <1>12, ReownedType DEF Reown
<1>13. ASSUME NEW op \in Ops, SweepRead(op) PROVE TypeOK'
  BY <1>13 DEF SweepRead, executorVars, Verdicts
<1>14. ASSUME NEW op \in Ops, SweepWrite(op) PROVE TypeOK'
  <2>1. sweep[op] \in Verdicts
    BY <1>14 DEF SweepWrite
  <2> QED
    BY <1>14, <2>1, ReconciledType DEF SweepWrite
<1>15. ASSUME NEW op \in Ops, SweepFails(op) PROVE TypeOK'
  BY <1>15 DEF SweepFails, executorVars
<1>16. ASSUME NEW op \in Ops, BackoffElapses(op) PROVE TypeOK'
  BY <1>16, UpdatedType DEF BackoffElapses
<1>17. ASSUME NEW c \in Callers, NEW op \in Ops, NEW corr \in Correlations, Resume(c, op, corr)
       PROVE  TypeOK'
  <2>1. log' \in [Ops -> Row]
    BY <1>17, TakeInFlightType DEF Resume, Resolutions
  <2>2. /\ log[op].content \in Contents \cup {NoContent}
        /\ log[op].gen \in Nat
    BY DEF Row
  <2>3. call' \in [Callers -> Call]
    BY <1>17, <2>2, CallTypes DEF Resume
  <2>4. audits' \in [Correlations -> Audit]
    BY <1>17 DEF Resume, Audited, Audit, Actions
  <2> QED
    BY <1>17, <2>1, <2>3, <2>4 DEF Resume
<1>18. ASSUME NEW op \in Ops, NEW corr \in Correlations, NEW action \in Actions \ {"authorize_retry"},
              Resolve(op, corr, action)
       PROVE  TypeOK'
  <2>1. Resolution(action) \in Resolutions
    BY DEF Resolution, Resolutions, Actions
  <2>2. log' \in [Ops -> Row]
    BY <1>18, <2>1, UpdatedType DEF Resolve
  <2>3. audits' \in [Correlations -> Audit]
    BY <1>18 DEF Resolve, Audited, Audit, Actions
  <2> QED
    BY <1>18, <2>2, <2>3 DEF Resolve
<1>19. CASE UNCHANGED vars
  BY <1>19 DEF vars, executorVars
<1> QED
  BY <1>1, <1>2, <1>3, <1>4, <1>5, <1>6, <1>7, <1>8, <1>9, <1>10, <1>11, <1>12, <1>13, <1>14,
     <1>15, <1>16, <1>17, <1>18, <1>19
     DEF Next, CallerNext, RecoveryNext, OperatorNext

(***************************************************************************)
(* The invariant is inductive.                                             *)
(***************************************************************************)
LEMMA DispatchInit == Init => DispatchInv
<1> SUFFICES ASSUME Init PROVE DispatchInv
  OBVIOUS
<1> USE DEF Init, ExecutorInit, RecoveryInit
<1>1. TypeOK
  BY CallTypes, ClaimedType, Choices
     DEF TypeOK, ExecutorTypeOK, RecoveryTypeOK, Provider, Audit, NoAudit
<1>2. RowInv /\ ProviderInv
  BY DEF RowInv, ProviderInv, NoRow
<1>3. CallerInv /\ UniqueInv
  BY DEF CallerInv, UniqueInv, Holding, Active, Idle
<1>4. SuccessInv
  BY DEF SuccessInv, NoRow
<1> QED
  BY <1>1, <1>2, <1>3, <1>4 DEF DispatchInv

LEMMA DispatchStep == DispatchInv /\ [Next]_vars => DispatchInv'
<1> DEFINE Rest == RowInv /\ ProviderInv /\ CallerInv /\ UniqueInv /\ SuccessInv
<1> SUFFICES ASSUME DispatchInv, [Next]_vars PROVE Rest'
  BY TypeStep DEF DispatchInv
<1> USE DEF DispatchInv, TypeOK, ExecutorTypeOK, Active, Holding, Over, Applied
<1>0. ASSUME NEW c \in Callers, call'[c].pc \in {"idle", "requested"},
             \A d \in Callers \ {c} : call'[d] = call[d],
             log' = log, provider' = provider
      PROVE  Rest'
  <2>1. RowInv' /\ ProviderInv'
    BY <1>0 DEF RowInv, ProviderInv
  <2>2. CallerInv'
    BY <1>0 DEF CallerInv, Call
  <2>3. UniqueInv' /\ SuccessInv'
    BY <1>0 DEF UniqueInv, SuccessInv, Call
  <2> QED
    BY <2>1, <2>2, <2>3
<1>1. ASSUME NEW c \in Callers, NEW op \in Ops, NEW content \in Contents,
             Executing(Request(c, op, content))
      PROVE  Rest'
  BY <1>0, <1>1 DEF Executing, Request, Idle
<1>2. ASSUME NEW c \in Callers,
             Executing(Decline(c)) \/ Executing(Crash(c)) \/ Executing(FenceLost(c))
      PROVE  Rest'
  BY <1>0, <1>2 DEF Executing, Decline, Crash, FenceLost, Return, Idle
<1>3. ASSUME NEW c \in Callers, Executing(Claim(c)) PROVE Rest'
  <2> DEFINE op == call[c].op
  <2>1. /\ op \in Ops
        /\ call[c].pc = "requested"
        /\ log[op].status = "absent"
        /\ log' = [log EXCEPT ![op] = Claimed(call[c].content)]
        /\ call' = [call EXCEPT ![c].pc = "claimed", ![c].gen = NoRow.gen]
        /\ provider' = provider
    BY <1>3 DEF Executing, Claim, Call
  <2>2. \A d \in Callers : Holding(d) => call[d].op # op
    BY <2>1 DEF CallerInv
  <2>3. RowInv' /\ ProviderInv'
    BY <2>1 DEF RowInv, ProviderInv, Claimed, NoRow, Row
  <2>4. CallerInv'
    BY <2>1, <2>2 DEF CallerInv, Claimed, NoRow, Row, Call
  <2>5. UniqueInv' /\ SuccessInv'
    BY <2>1 DEF UniqueInv, SuccessInv, Claimed, NoRow, Row, Call
  <2> QED
    BY <2>3, <2>4, <2>5
<1>4. ASSUME NEW c \in Callers, Executing(ResolveCredentials(c)) PROVE Rest'
  BY <1>4 DEF Executing, ResolveCredentials, Goto, Call,
              RowInv, ProviderInv, CallerInv, UniqueInv, SuccessInv
<1>5. ASSUME NEW c \in Callers, Executing(PreDispatchFailure(c)) PROVE Rest'
  <2>1. /\ call[c].op \in Ops
        /\ call[c].pc = "claimed"
        /\ log' = [log EXCEPT ![call[c].op].status = "failed"]
        /\ call' = [call EXCEPT ![c] = Idle]
        /\ provider' = provider
    BY <1>5 DEF Executing, PreDispatchFailure, Return, Call
  <2>2. RowInv' /\ ProviderInv'
    BY <2>1 DEF RowInv, ProviderInv, Row
  <2>3. CallerInv'
    BY <2>1 DEF CallerInv, Row, Call, Idle
  <2>4. UniqueInv' /\ SuccessInv'
    BY <2>1 DEF UniqueInv, SuccessInv, Row, Call, Idle
  <2> QED
    BY <2>2, <2>3, <2>4
<1>6. ASSUME NEW c \in Callers, Executing(Fence(c)) PROVE Rest'
  <2> DEFINE op == call[c].op
  <2>1. /\ op \in Ops
        /\ log' = [log EXCEPT ![op] = TakeInFlight(@)]
        /\ call' = [call EXCEPT ![c].pc = "dispatching"]
        /\ provider' = provider
        /\ call[c].pc = "ready"
        /\ log[op].status = "pending" /\ ~log[op].started /\ log[op].gen = call[c].gen
    BY <1>6 DEF Executing, Fence, Goto, FenceWhere, Undispatched, Call
  <2>2. RowInv' /\ ProviderInv'
    BY <2>1 DEF RowInv, ProviderInv, TakeInFlight, Row
  <2>3. CallerInv'
    BY <2>1 DEF CallerInv, ProviderInv, TakeInFlight, Row, Call, Provider
  <2>4. UniqueInv'
    BY <2>1 DEF UniqueInv, CallerInv, Call
  <2>5. SuccessInv'
    BY <2>1 DEF SuccessInv, TakeInFlight, Row, Call
  <2> QED
    BY <2>2, <2>3, <2>4, <2>5
<1>7. ASSUME NEW c \in Callers, Executing(FenceError(c)) PROVE Rest'
  <2>1. /\ call[c].op \in Ops
        /\ call[c].pc = "ready"
        /\ call' = [call EXCEPT ![c] = Idle]
        /\ provider' = provider
    BY <1>7 DEF Executing, FenceError, Return, Call
  <2>2. CASE log' = log
    BY <1>0, <2>1, <2>2 DEF Idle
  <2>3. CASE /\ log' = [log EXCEPT ![call[c].op] = TakeInFlight(@)]
             /\ Undispatched(log[call[c].op])
    <3>1. RowInv' /\ ProviderInv'
      BY <2>1, <2>3 DEF RowInv, ProviderInv, TakeInFlight, Undispatched, Row
    <3>2. CallerInv'
      BY <2>1, <2>3 DEF CallerInv, TakeInFlight, Undispatched, Row, Call, Idle
    <3>3. UniqueInv' /\ SuccessInv'
      BY <2>1, <2>3 DEF UniqueInv, SuccessInv, TakeInFlight, Undispatched, Row, Call, Idle
    <3> QED
      BY <3>1, <3>2, <3>3
  <2> QED
    BY <1>7, <2>2, <2>3 DEF Executing, FenceError, FenceWhere
<1>8. ASSUME NEW c \in Callers, Executing(Dispatch(c)) PROVE Rest'
  <2> DEFINE op == call[c].op
  <2>1. /\ op \in Ops
        /\ call[c].pc = "dispatching"
        /\ log' = log
        /\ call' = [call EXCEPT ![c].pc = "sent"]
        /\ provider' = [provider EXCEPT ![op] = [calls   |-> provider[op].calls + 1,
                                                 request |-> call[c].content,
                                                 state   |-> "received"]]
    BY <1>8 DEF Executing, Dispatch, Goto, Call
  <2>2. /\ provider[op].calls = 0
        /\ provider[op].state = "none"
        /\ log[op].started
        /\ \A d \in Callers : Active(d) /\ d # c => call[d].op # op
        /\ log[op].status \notin {"success", "reverted"}
    BY <2>1 DEF CallerInv, ProviderInv, UniqueInv, SuccessInv, Provider
  <2>3. RowInv' /\ ProviderInv'
    BY <2>1, <2>2 DEF RowInv, ProviderInv, Provider
  <2>4. CallerInv'
    BY <2>1, <2>2 DEF CallerInv, Provider, Call
  <2>5. UniqueInv' /\ SuccessInv'
    BY <2>1, <2>2 DEF UniqueInv, SuccessInv, Provider, Call
  <2> QED
    BY <2>3, <2>4, <2>5
<1>9. ASSUME NEW c \in Callers, Executing(Answer(c)) PROVE Rest'
  <2>1. PICK answer \in Answers \ {"none"} :
          /\ AnswerPossible(provider[call[c].op].state, answer)
          /\ call' = [call EXCEPT ![c].pc = "answered", ![c].answer = answer]
    BY <1>9 DEF Executing, Answer
  <2>2. call[c].pc = "sent" /\ log' = log /\ provider' = provider
    BY <1>9 DEF Executing, Answer
  <2>3. RowInv' /\ ProviderInv'
    BY <2>2 DEF RowInv, ProviderInv
  <2>4. CallerInv'
    BY <2>1, <2>2 DEF CallerInv, AnswerPossible, Call
  <2>5. UniqueInv' /\ SuccessInv'
    BY <2>1, <2>2 DEF UniqueInv, SuccessInv, Call
  <2> QED
    BY <2>3, <2>4, <2>5
<1>10. ASSUME NEW c \in Callers, Executing(Finalize(c)) PROVE Rest'
  <2> DEFINE op == call[c].op
  <2> DEFINE answer == call[c].answer
  <2>1. /\ op \in Ops
        /\ call[c].pc = "answered"
        /\ answer \in Answers \ {"none"}
        /\ log' = TerminalLog(op, answer)
        /\ call' = [call EXCEPT ![c] = Idle]
        /\ provider' = provider
    BY <1>10 DEF Executing, Finalize, Return, Call, CallerInv
  <2>2. /\ TerminalStatus(answer) \in {"success", "failed", "ambiguous"}
        /\ TerminalStatus(answer) = "success" => answer = "ok"
    BY <2>1 DEF TerminalStatus, Answers
  <2>3. \A o \in Ops : /\ log'[o].started = log[o].started
                       /\ log'[o].attempts = log[o].attempts
                       /\ log'[o].content = log[o].content
                       /\ log'[o].gen = log[o].gen
                       /\ log'[o].status # log[o].status =>
                            \/ o = op /\ log'[o].status = TerminalStatus(answer)
                            \/ log[o].status = "success" /\ log'[o].status = "reverted"
    BY <2>1 DEF TerminalLog, Row
  <2>4. RowInv' /\ ProviderInv'
    BY <2>1, <2>2, <2>3 DEF RowInv, ProviderInv
  <2>5. CallerInv'
    BY <2>1, <2>2, <2>3 DEF CallerInv, Call, Idle
  <2>6. UniqueInv'
    BY <2>1 DEF UniqueInv, Call, Idle
  <2>7. SuccessInv'
    BY <2>1, <2>2, <2>3 DEF SuccessInv, CallerInv, UniqueInv, Call, Idle
  <2> QED
    BY <2>4, <2>5, <2>6, <2>7
<1>11. ASSUME NEW op \in Ops, Executing(ProviderActs(op)) PROVE Rest'
  BY <1>11 DEF Executing, ProviderActs, Provider, Call,
               RowInv, ProviderInv, CallerInv, UniqueInv, SuccessInv
<1>12. ASSUME NEW op \in Ops, Reown(op) PROVE Rest'
  <2>1. /\ log' = [log EXCEPT ![op] = Reowned(@)]
        /\ ~log[op].started
        /\ call' = call /\ provider' = provider
    BY <1>12 DEF Reown, ReownWhere, Undispatched
  <2>2. RowInv' /\ ProviderInv'
    BY <2>1 DEF RowInv, ProviderInv, Reowned, Row
  <2>3. CallerInv'
    BY <2>1 DEF CallerInv, Reowned, Row, Call
  <2>4. UniqueInv' /\ SuccessInv'
    BY <2>1 DEF UniqueInv, SuccessInv, Reowned, Row
  <2> QED
    BY <2>2, <2>3, <2>4
<1>13. ASSUME NEW op \in Ops, SweepRead(op) \/ SweepFails(op) PROVE Rest'
  BY <1>13 DEF SweepRead, SweepFails, executorVars, RowInv, ProviderInv, CallerInv, UniqueInv, SuccessInv
<1>14. ASSUME call' = call, provider' = provider, TypeOK',
              \A o \in Ops : /\ log'[o].status = log[o].status
                             /\ log'[o].content = log[o].content
                             /\ log'[o].started = log[o].started
                             /\ log'[o].attempts = log[o].attempts
                             /\ log'[o].gen = log[o].gen
       PROVE  Rest'
  BY <1>14 DEF RowInv, ProviderInv, CallerInv, UniqueInv, SuccessInv, Call
<1>15. ASSUME NEW op \in Ops, SweepWrite(op) PROVE Rest'
  BY <1>14, <1>15, TypeStep DEF SweepWrite, Reconciled, Row
<1>16. ASSUME NEW op \in Ops, BackoffElapses(op) PROVE Rest'
  BY <1>14, <1>16, TypeStep DEF BackoffElapses, Row
<1>17. ASSUME NEW c \in Callers, NEW op \in Ops, NEW corr \in Correlations, Resume(c, op, corr)
       PROVE  Rest'
  <2>1. /\ call[c].pc = "idle"
        /\ log[op].status = "pending" /\ ~log[op].started
        /\ log' = [log EXCEPT ![op] = [TakeInFlight(@) EXCEPT !.manual = "retry_authorized"]]
        /\ call' = [call EXCEPT ![c] = [Idle EXCEPT !.pc = "dispatching", !.op = op,
                                                    !.content = log[op].content,
                                                    !.gen = log[op].gen]]
        /\ provider' = provider
    BY <1>17 DEF Resume, ResumeWhere, Undispatched
  <2>2. RowInv' /\ ProviderInv'
    BY <2>1 DEF RowInv, ProviderInv, TakeInFlight, Row
  <2>3. CallerInv'
    BY <2>1 DEF CallerInv, ProviderInv, TakeInFlight, Row, Call, Idle, Provider
  <2>4. UniqueInv'
    BY <2>1 DEF UniqueInv, CallerInv, Call, Idle
  <2>5. SuccessInv'
    BY <2>1 DEF SuccessInv, TakeInFlight, Row, Call, Idle
  <2> QED
    BY <2>2, <2>3, <2>4, <2>5
<1>18. ASSUME NEW op \in Ops, NEW corr \in Correlations, NEW action \in Actions \ {"authorize_retry"},
              Resolve(op, corr, action)
       PROVE  Rest'
  BY <1>14, <1>18, TypeStep DEF Resolve, Row
<1>19. CASE UNCHANGED vars
  BY <1>19 DEF vars, executorVars, RowInv, ProviderInv, CallerInv, UniqueInv, SuccessInv
<1> QED
  BY <1>1, <1>2, <1>3, <1>4, <1>5, <1>6, <1>7, <1>8, <1>9, <1>10, <1>11, <1>12, <1>13,
     <1>15, <1>16, <1>17, <1>18, <1>19
     DEF Next, CallerNext, RecoveryNext, OperatorNext

THEOREM Dispatching == Spec => []DispatchInv
BY DispatchInit, DispatchStep, PTL DEF Spec

(***************************************************************************)
(* Theorems.                                                               *)
(***************************************************************************)

\* The table, the callers, the marketplace and the audits keep their types.
THEOREM TypeCorrect == Spec => []TypeOK
BY Dispatching, PTL DEF DispatchInv

\* The marketplace is called at most once under one key.
THEOREM DispatchedOnce == Spec => []AtMostOneDispatch
<1>1. DispatchInv => AtMostOneDispatch
  BY DEF DispatchInv, ProviderInv, AtMostOneDispatch
<1> QED
  BY <1>1, Dispatching, PTL

\* The call is accounted for by the row, so attempt_count = 0 proves that
\* nothing was sent.
THEOREM DispatchAccounted == Spec => []DispatchIsAccounted
<1>1. DispatchInv => DispatchIsAccounted
  <2> SUFFICES ASSUME DispatchInv, NEW op \in Ops
               PROVE  /\ provider[op].calls <= log[op].attempts
                      /\ log[op].attempts <= 1
                      /\ log[op].attempts = 1 <=> log[op].started
    BY DEF DispatchIsAccounted
  <2>1. provider[op].calls \in Nat /\ log[op].started \in BOOLEAN
    BY DEF DispatchInv, TypeOK, ExecutorTypeOK, Provider, Row
  <2> QED
    BY <2>1 DEF DispatchInv, RowInv, ProviderInv
<1> QED
  BY <1>1, Dispatching, PTL

\* Only the owner of the current generation is between the fence and the
\* terminal commit, and it is alone there.
THEOREM OwnerDispatches == Spec => []OnlyOwnerDispatches
<1>1. DispatchInv => OnlyOwnerDispatches
  BY DEF DispatchInv, CallerInv, UniqueInv, Holding, Active, OnlyOwnerDispatches
<1> QED
  BY <1>1, Dispatching, PTL

\* A success that a caller is told of is the marketplace having applied
\* exactly the content that caller sent.
THEOREM SuccessIsHonest == Spec => []SuccessIsThisRequest
<1>1. DispatchInv => SuccessIsThisRequest
  <2> SUFFICES ASSUME DispatchInv, NEW op \in Ops, NEW content \in Contents,
                      ResolveExisting(log[op], content) = "success"
               PROVE  Applied(op) /\ provider[op].request = content
    BY DEF SuccessIsThisRequest
  <2>1. log[op].status = "success" /\ log[op].content = content
    BY DEF ResolveExisting
  <2> QED
    BY <2>1 DEF DispatchInv, SuccessInv
<1> QED
  BY <1>1, Dispatching, PTL

(***************************************************************************)
(* The operator's audit trail.                                             *)
(***************************************************************************)
\* Every authorisation has started its row, and every conclusion is audited.
AuditInv ==
  /\ \A corr \in Correlations :
       audits[corr].action = "authorize_retry" => log[audits[corr].op].started
  /\ AuthorizedOnce
  /\ ResolutionIsAudited

LEMMA AuditInit == Init => AuditInv
BY DEF Init, ExecutorInit, RecoveryInit, AuditInv, AuthorizedOnce, ResolutionIsAudited,
       NoAudit, NoRow

LEMMA AuditStep == DispatchInv /\ AuditInv /\ [Next]_vars => AuditInv'
<1> SUFFICES ASSUME DispatchInv, AuditInv, [Next]_vars PROVE AuditInv'
  OBVIOUS
<1> USE DEF AuditInv, AuthorizedOnce, ResolutionIsAudited
<1> USE DEF DispatchInv, TypeOK, ExecutorTypeOK, RecoveryTypeOK
\* Most steps start no fewer rows and conclude nothing.
<1>1. ASSUME audits' = audits,
             \A op \in Ops : /\ log[op].started => log'[op].started
                             /\ log'[op].manual \in {log[op].manual, "null"}
      PROVE  AuditInv'
  BY <1>1 DEF Audit
<1>2. ASSUME NEW c \in Callers, CallerNext(c) PROVE AuditInv'
  <2>1. audits' = audits
    BY <1>2 DEF CallerNext, Executing, recoveryVars
  <2> SUFFICES ASSUME NEW op \in Ops
               PROVE  /\ log[op].started => log'[op].started
                      /\ log'[op].manual \in {log[op].manual, "null"}
    BY <1>1, <2>1
  <2>2. CASE log' = log
    BY <2>2
  <2>3. CASE Claim(c)
    BY <2>3 DEF Claim, Claimed, NoRow, RowInv, Row, Call
  <2>4. CASE PreDispatchFailure(c)
    BY <2>4 DEF PreDispatchFailure, Row, Call
  <2>5. CASE log' = [log EXCEPT ![call[c].op] = TakeInFlight(@)]
    BY <2>5 DEF TakeInFlight, Row, Call
  <2>6. CASE Finalize(c)
    BY <2>6, TerminalLogKeeps DEF Finalize
  <2>7. CASE Fence(c) \/ FenceError(c)
    BY <2>2, <2>5, <2>7 DEF Fence, FenceError
  <2>8. CASE \E o \in Ops, content \in Contents : Request(c, o, content)
    BY <2>2, <2>8 DEF Request
  <2>9. CASE \/ Decline(c) \/ ResolveCredentials(c) \/ FenceLost(c) \/ Dispatch(c)
             \/ Answer(c) \/ Crash(c)
    BY <2>2, <2>9 DEF Decline, ResolveCredentials, FenceLost, Dispatch, Answer, Crash
  <2> QED
    BY <1>2, <2>3, <2>4, <2>6, <2>7, <2>8, <2>9 DEF CallerNext, Executing
<1>3. ASSUME NEW op \in Ops, Executing(ProviderActs(op)) \/ RecoveryNext(op) PROVE AuditInv'
  <2>1. audits' = audits
    BY <1>3 DEF RecoveryNext, Executing, recoveryVars, Reown, SweepRead, SweepWrite, SweepFails,
                BackoffElapses
  <2> SUFFICES ASSUME NEW o \in Ops
               PROVE  /\ log[o].started => log'[o].started
                      /\ log'[o].manual \in {log[o].manual, "null"}
    BY <1>1, <2>1
  <2>2. CASE log' = log
    BY <2>2
  <2>3. CASE Reown(op)
    BY <2>3 DEF Reown, Reowned, Row
  <2>4. CASE SweepWrite(op)
    BY <2>4 DEF SweepWrite, Reconciled, Row
  <2>5. CASE BackoffElapses(op)
    BY <2>5 DEF BackoffElapses, Row
  <2> QED
    BY <1>3, <2>2, <2>3, <2>4, <2>5
       DEF RecoveryNext, Executing, ProviderActs, SweepRead, SweepFails, executorVars
<1>4. ASSUME NEW c \in Callers, NEW op \in Ops, NEW corr \in Correlations, Resume(c, op, corr)
      PROVE  AuditInv'
  <2>1. /\ ~log[op].started
        /\ audits[corr].action = "none"
        /\ audits' = [audits EXCEPT ![corr] = [action |-> "authorize_retry", op |-> op]]
        /\ log' = [log EXCEPT ![op] = [TakeInFlight(@) EXCEPT !.manual = "retry_authorized"]]
    BY <1>4 DEF Resume, ResumeWhere, Undispatched, Audited
  <2>2. /\ log'[op].started /\ log'[op].manual = "retry_authorized"
        /\ \A o \in Ops \ {op} : log'[o] = log[o]
    BY <2>1 DEF TakeInFlight, Row
  <2>3. /\ audits'[corr].action = "authorize_retry" /\ audits'[corr].op = op
        /\ \A x \in Correlations \ {corr} : audits'[x] = audits[x] /\ audits[x].op \in Ops
    BY <2>1 DEF Audit
  <2>4. \A x \in Correlations : audits'[x].action = "authorize_retry" => log'[audits'[x].op].started
    BY <2>2, <2>3
  <2>5. AuthorizedOnce'
    BY <2>1, <2>2, <2>3
  <2>6. ResolutionIsAudited'
    <3> SUFFICES ASSUME NEW o \in Ops, log'[o].manual # "null"
                 PROVE  \E x \in Correlations : /\ audits'[x].op = o
                                                /\ audits'[x].action # "none"
                                                /\ Resolution(audits'[x].action) = log'[o].manual
      OBVIOUS
    <3>1. CASE o = op
      BY <2>2, <2>3, <3>1 DEF Resolution
    <3>2. CASE o # op
      BY <2>1, <2>2, <2>3, <3>2
    <3> QED
      BY <3>1, <3>2
  <2> QED
    BY <2>4, <2>5, <2>6
<1>5. ASSUME NEW op \in Ops, NEW corr \in Correlations, NEW action \in Actions \ {"authorize_retry"},
             Resolve(op, corr, action)
      PROVE  AuditInv'
  <2>1. /\ audits[corr].action = "none"
        /\ audits' = [audits EXCEPT ![corr] = [action |-> action, op |-> op]]
        /\ log' = [log EXCEPT ![op].manual = Resolution(action)]
    BY <1>5 DEF Resolve, Audited
  <2>2. /\ \A o \in Ops : log'[o].started = log[o].started
        /\ log'[op].manual = Resolution(action) /\ Resolution(action) # "retry_authorized"
        /\ \A o \in Ops \ {op} : log'[o] = log[o]
    BY <2>1 DEF Row, Resolution, Actions
  <2>3. /\ audits'[corr].action = action /\ audits'[corr].op = op /\ action # "none"
        /\ \A x \in Correlations \ {corr} : audits'[x] = audits[x] /\ audits[x].op \in Ops
    BY <2>1 DEF Audit, Actions
  <2>4. \A x \in Correlations : audits'[x].action = "authorize_retry" => log'[audits'[x].op].started
    BY <2>2, <2>3
  <2>5. AuthorizedOnce'
    BY <2>1, <2>2, <2>3
  <2>6. ResolutionIsAudited'
    <3> SUFFICES ASSUME NEW o \in Ops, log'[o].manual # "null"
                 PROVE  \E x \in Correlations : /\ audits'[x].op = o
                                                /\ audits'[x].action # "none"
                                                /\ Resolution(audits'[x].action) = log'[o].manual
      OBVIOUS
    <3>1. CASE o = op
      BY <2>2, <2>3, <3>1
    <3>2. CASE o # op
      BY <2>1, <2>2, <2>3, <3>2
    <3> QED
      BY <3>1, <3>2
  <2> QED
    BY <2>4, <2>5, <2>6
<1>6. CASE UNCHANGED vars
  BY <1>6 DEF vars, executorVars, recoveryVars
<1> QED
  BY <1>2, <1>3, <1>4, <1>5, <1>6 DEF Next, OperatorNext

\* An operation is authorised at most once, and never while still pending.
THEOREM AuthorizedAtMostOnce == Spec => []AuthorizedOnce
BY Dispatching, AuditInit, AuditStep, PTL DEF Spec, AuditInv

\* No conclusion of an operator stands without its audit row.
THEOREM ResolutionAudited == Spec => []ResolutionIsAudited
BY Dispatching, AuditInit, AuditStep, PTL DEF Spec, AuditInv

(***************************************************************************)
(* The refinement.  Claims, dispatches and applications are steps of       *)
(* AtMostOnceOperation; every other step leaves what it sees unchanged.    *)
(***************************************************************************)
LEMMA AbstractStutter ==
  ASSUME DispatchInv, provider' = provider,
         \A op \in Ops : log'[op].status = "absent" <=> log[op].status = "absent"
  PROVE  UNCHANGED Abstract!absVars
BY DEF Abstract!absVars, Applied

LEMMA AbstractStep == DispatchInv /\ [Next]_vars => [Abstract!AbsNext]_(Abstract!absVars)
<1> SUFFICES ASSUME DispatchInv, [Next]_vars PROVE [Abstract!AbsNext]_(Abstract!absVars)
  OBVIOUS
<1> USE DEF DispatchInv, TypeOK, ExecutorTypeOK
<1>1. ASSUME NEW c \in Callers, Claim(c) PROVE Abstract!AbsNext
  <2> PICK op \in Ops : op = call[c].op
    BY DEF Call
  <2>1. /\ log[op].status = "absent"
        /\ log'[op].status = "pending"
        /\ \A o \in Ops \ {op} : log'[o] = log[o]
        /\ provider' = provider
    BY <1>1 DEF Claim, Call, Claimed, NoRow
  <2>2. Abstract!AbsClaim(op)
    BY <2>1 DEF Abstract!AbsClaim, Applied
  <2> QED
    BY <2>1, <2>2 DEF Abstract!AbsNext
<1>2. ASSUME NEW c \in Callers, Dispatch(c) PROVE Abstract!AbsNext
  <2> PICK op \in Ops : op = call[c].op
    BY DEF Call
  <2>1. /\ log' = log
        /\ log[op].status # "absent"
        /\ provider[op].calls = 0 /\ provider[op].state = "none"
        /\ provider'[op].calls = 1 /\ provider'[op].state = "received"
        /\ \A o \in Ops \ {op} : provider'[o] = provider[o]
    BY <1>2 DEF Dispatch, CallerInv, ProviderInv, Holding, Active, Call, Provider
  <2>2. Abstract!AbsSend(op)
    BY <2>1 DEF Abstract!AbsSend, Applied
  <2> QED
    BY <2>1, <2>2 DEF Abstract!AbsNext
<1>3. ASSUME NEW op \in Ops, ProviderActs(op) PROVE [Abstract!AbsNext]_(Abstract!absVars)
  <2>1. PICK outcome \in {"applied", "refused"} :
          /\ log' = log
          /\ provider[op].state = "received" /\ provider[op].calls = 1
          /\ provider'[op].state = outcome
          /\ \A o \in Ops \ {op} : provider'[o] = provider[o]
          /\ \A o \in Ops : provider'[o].calls = provider[o].calls
    BY <1>3 DEF ProviderActs, ProviderInv, Provider
  <2>2. CASE outcome = "applied"
    <3>1. Abstract!AbsApply(op)
      BY <2>1, <2>2 DEF Abstract!AbsApply, Applied
    <3> QED
      BY <3>1 DEF Abstract!AbsNext
  <2>3. CASE outcome = "refused"
    BY <2>1, <2>3 DEF Abstract!absVars, Applied
  <2> QED
    BY <2>1, <2>2, <2>3
<1>4. ASSUME provider' = provider,
             \A op \in Ops : log'[op].status = "absent" <=> log[op].status = "absent"
      PROVE  [Abstract!AbsNext]_(Abstract!absVars)
  BY <1>4, AbstractStutter
<1>5. ASSUME NEW c \in Callers, CallerNext(c), ~Claim(c), ~Dispatch(c)
      PROVE  [Abstract!AbsNext]_(Abstract!absVars)
  <2>1. CASE provider' = provider /\ log' = log
    BY <1>4, <2>1
  <2>2. CASE PreDispatchFailure(c)
    BY <1>4, <2>2 DEF PreDispatchFailure, CallerInv, Holding, Row, Call
  <2>3. CASE /\ provider' = provider /\ call[c].pc = "ready"
             /\ log' = [log EXCEPT ![call[c].op] = TakeInFlight(@)]
    BY <1>4, <2>3 DEF TakeInFlight, CallerInv, Holding, Row, Call
  <2>4. CASE Finalize(c)
    <3>1. /\ provider' = provider
          /\ call[c].op \in Ops
          /\ log[call[c].op].status # "absent"
          /\ log' = TerminalLog(call[c].op, call[c].answer)
          /\ TerminalStatus(call[c].answer) # "absent"
      BY <2>4, TerminalLogType DEF Finalize, CallerInv, Holding, Active, Call
    <3>2. \A op \in Ops : log'[op].status = "absent" <=> log[op].status = "absent"
      BY <3>1, AbsentKept, Zenon
    <3> QED
      BY <1>4, <3>1, <3>2
  <2>5. CASE Fence(c) \/ FenceError(c)
    BY <2>1, <2>3, <2>5 DEF Fence, FenceError
  <2>6. CASE \E op \in Ops, content \in Contents : Request(c, op, content)
    BY <2>1, <2>6 DEF Request
  <2>7. CASE \/ Decline(c) \/ ResolveCredentials(c) \/ FenceLost(c) \/ Answer(c) \/ Crash(c)
    BY <2>1, <2>7 DEF Decline, ResolveCredentials, FenceLost, Answer, Crash
  <2> QED
    BY <1>5, <2>2, <2>4, <2>5, <2>6, <2>7 DEF CallerNext, Executing
<1>6. ASSUME NEW op \in Ops, RecoveryNext(op) PROVE [Abstract!AbsNext]_(Abstract!absVars)
  <2>1. CASE Reown(op)
    BY <1>4, <2>1 DEF Reown, Reowned, Row
  <2>2. CASE SweepWrite(op)
    BY <1>4, <2>2 DEF SweepWrite, Reconciled, Row
  <2>3. CASE BackoffElapses(op)
    BY <1>4, <2>3 DEF BackoffElapses, Row
  <2>4. CASE SweepRead(op) \/ SweepFails(op)
    BY <1>4, <2>4 DEF SweepRead, SweepFails, executorVars
  <2> QED
    BY <1>6, <2>1, <2>2, <2>3, <2>4 DEF RecoveryNext
<1>7. ASSUME NEW op \in Ops, NEW corr \in Correlations, OperatorNext(op, corr)
      PROVE  [Abstract!AbsNext]_(Abstract!absVars)
  <2>1. ASSUME NEW c \in Callers, Resume(c, op, corr) PROVE [Abstract!AbsNext]_(Abstract!absVars)
    BY <1>4, <2>1 DEF Resume, ResumeWhere, Undispatched, TakeInFlight, Row
  <2>2. ASSUME NEW action \in Actions, Resolve(op, corr, action)
        PROVE  [Abstract!AbsNext]_(Abstract!absVars)
    BY <1>4, <2>2 DEF Resolve, Row
  <2> QED
    BY <1>7, <2>1, <2>2 DEF OperatorNext
<1>8. CASE UNCHANGED vars
  BY <1>4, <1>8 DEF vars, executorVars
<1> QED
  BY <1>1, <1>2, <1>3, <1>5, <1>6, <1>7, <1>8 DEF Next, Executing

\* The executor, its callers and the recovery services implement the
\* abstract promise: claimed before sent, sent once, applied once.
THEOREM Refinement == Spec => ImplementsAtMostOnce
<1>1. Init => Abstract!AbsInit
  BY DEF Init, ExecutorInit, Abstract!AbsInit, NoRow, Applied
<1> QED
  BY <1>1, AbstractStep, Dispatching, PTL
     DEF Spec, ImplementsAtMostOnce, Abstract!AbsSpec

(***************************************************************************)
(* The recovery sweep and the rows the executor has settled.               *)
(***************************************************************************)
\* The missing row carries nothing that a claim would disturb.
CleanInv == \A op \in Ops : log[op].status = "absent" => log[op] = NoRow

\* What a step leaves of a row: the verdict of a settled one, and an absent
\* one as it is or not at all.
LEMMA SettledStep ==
  ASSUME DispatchInv, CleanInv, [Next]_vars, NEW op \in Ops
  PROVE  /\ log[op].status \notin OpenStatus =>
              log'[op].recon = log[op].recon /\ log'[op].tries = log[op].tries
         /\ log'[op].status = "absent" => log'[op] = log[op]
<1> DEFINE Kept == log'[op].recon = log[op].recon /\ log'[op].tries = log[op].tries
<1> DEFINE Goal == /\ log[op].status \notin OpenStatus => Kept
                   /\ log'[op].status = "absent" => log'[op] = log[op]
<1> SUFFICES Goal
  OBVIOUS
<1>1. log \in [Ops -> Row] /\ call \in [Callers -> Call]
  BY DEF DispatchInv, TypeOK, ExecutorTypeOK
<1>2. ASSUME log'[op] = log[op] \/ (Kept /\ log'[op].status # "absent")
      PROVE  Goal
  BY <1>2
<1>3. ASSUME NEW c \in Callers, CallerNext(c) PROVE Goal
  <2>1. CASE log' = log
    BY <1>2, <2>1
  <2>2. CASE Claim(c)
    BY <1>1, <1>2, <2>2 DEF Claim, Claimed, NoRow, CleanInv, Row, Call
  <2>3. CASE PreDispatchFailure(c)
    BY <1>1, <1>2, <2>3 DEF PreDispatchFailure, Row, Call
  <2>4. CASE Fence(c) \/ FenceError(c)
    <3>1. log' = log \/ log' = [log EXCEPT ![call[c].op] = TakeInFlight(@)]
      BY <2>4 DEF Fence, FenceError
    <3>2. log'[op] = log[op] \/ log'[op] = TakeInFlight(log[op])
      BY <1>1, <3>1
    <3>3. LET row == TakeInFlight(log[op]) IN
          row.recon = log[op].recon /\ row.tries = log[op].tries /\ row.status # "absent"
      BY <1>1 DEF TakeInFlight, Row
    <3> QED
      BY <1>2, <3>2, <3>3
  <2>5. CASE Finalize(c)
    <3> PICK o \in Ops, answer \in Answers \ {"none"} : o = call[c].op /\ answer = call[c].answer
      BY <1>1, <2>5 DEF Finalize, DispatchInv, CallerInv, Call
    <3>1. log' = TerminalLog(o, answer) /\ TerminalStatus(answer) # "absent"
      BY <2>5, TerminalLogType, <1>1 DEF Finalize
    <3>2. \/ log'[op] = log[op]
          \/ /\ log'[op].recon = log[op].recon /\ log'[op].tries = log[op].tries
             /\ log'[op].status \in {TerminalStatus(answer), "reverted"}
      BY <1>1, <3>1 DEF TerminalLog, Row
    <3> QED
      BY <1>2, <3>1, <3>2
  <2>6. CASE \E o \in Ops, content \in Contents : Request(c, o, content)
    BY <2>1, <2>6 DEF Request
  <2>7. CASE \/ Decline(c) \/ ResolveCredentials(c) \/ FenceLost(c) \/ Dispatch(c)
             \/ Answer(c) \/ Crash(c)
    BY <2>1, <2>7 DEF Decline, ResolveCredentials, FenceLost, Dispatch, Answer, Crash
  <2> HIDE DEF Goal
  <2> QED
    BY <1>3, <2>2, <2>3, <2>4, <2>5, <2>6, <2>7 DEF CallerNext, Executing
<1>4. ASSUME NEW o \in Ops, Executing(ProviderActs(o)) PROVE Goal
  BY <1>2, <1>4 DEF Executing, ProviderActs
<1>5. ASSUME NEW o \in Ops, RecoveryNext(o) PROVE Goal
  <2>1. CASE Reown(o)
    BY <1>1, <1>2, <2>1 DEF Reown, ReownWhere, Undispatched, Reowned, Row
  <2>2. CASE SweepWrite(o)
    BY <1>1, <1>2, <2>2 DEF SweepWrite, Reconciled, OpenStatus, Row
  <2>3. CASE BackoffElapses(o)
    BY <1>1, <1>2, <2>3 DEF BackoffElapses, CleanInv, NoRow, Row
  <2>4. CASE SweepRead(o) \/ SweepFails(o)
    BY <1>2, <2>4 DEF SweepRead, SweepFails, executorVars
  <2> HIDE DEF Goal
  <2> QED
    BY <1>5, <2>1, <2>2, <2>3, <2>4 DEF RecoveryNext
<1>6. ASSUME NEW c \in Callers, NEW o \in Ops, NEW corr \in Correlations, Resume(c, o, corr)
      PROVE  Goal
  BY <1>1, <1>2, <1>6 DEF Resume, ResumeWhere, Undispatched, TakeInFlight, Row
<1>7. ASSUME NEW o \in Ops, NEW corr \in Correlations, NEW action \in Actions,
             Resolve(o, corr, action)
      PROVE  Goal
  BY <1>1, <1>2, <1>7 DEF Resolve, Disputed, OpenStatus, CleanInv, NoRow, Row
<1>8. CASE UNCHANGED vars
  BY <1>2, <1>8 DEF vars, executorVars
<1> HIDE DEF Goal
<1> QED
  BY <1>3, <1>4, <1>5, <1>6, <1>7, <1>8 DEF Next, OperatorNext

\* A verdict read before the executor settled a row is not stored after.
THEOREM SettledStays == Spec => SettledIsNotReclassified
<1> DEFINE Inv == DispatchInv /\ CleanInv
<1>1. Init => Inv
  BY DispatchInit DEF Init, ExecutorInit, CleanInv
<1>2. Inv /\ [Next]_vars => Inv'
  BY DispatchStep, SettledStep DEF CleanInv
<1>3. Inv /\ [Next]_vars =>
        [\A op \in Ops : log[op].status \notin OpenStatus =>
                           log'[op].recon = log[op].recon /\ log'[op].tries = log[op].tries]_vars
  BY SettledStep
<1> QED
  BY <1>1, <1>2, <1>3, PTL DEF Spec, SettledIsNotReclassified

(***************************************************************************)
(* The pairing of an operation and its inverse, and what a recorded        *)
(* failure or success means while operator redispatch is off.              *)
(*                                                                         *)
(* An exclusive operation is one that no operator resumes: redispatch is   *)
(* off, or it is an inverse, whose stored row never passes the fingerprint *)
(* re-check before it has succeeded.                                       *)
(***************************************************************************)
Exclusive(op) == op \in Inverses \/ ~RedispatchEnabled

\* An inverse is linked by its success, and by nothing else.
LinkInv == \A r \in Inverses : log[r].linked <=> log[r].status \in {"success", "reverted"}

\* The claim of an exclusive operation stays with the caller that made it,
HolderInv ==
  \A c, d \in Callers :
    Holding(c) /\ Holding(d) /\ call[c].op = call[d].op /\ Exclusive(call[c].op) => c = d

\* undispatched until that caller's own fence,
ClaimInv ==
  \A c \in Callers :
    call[c].pc \in {"claimed", "ready"} /\ Exclusive(call[c].op) => Undispatched(log[call[c].op])

\* and when it fails, nothing was or will be applied.
FailedInv ==
  \A op \in Ops : log[op].status = "failed" /\ Exclusive(op) => ~MayApply(op) /\ Over(op)

ExclusiveInv == DispatchInv /\ LinkInv /\ HolderInv /\ ClaimInv /\ FailedInv

LEMMA ExclusiveInit == Init => ExclusiveInv
BY DispatchInit, ExecutionLogAssumption
   DEF Init, ExecutorInit, ExclusiveInv, LinkInv, HolderInv, ClaimInv, FailedInv, Holding, Active,
       Idle, NoRow

\* The rows after the terminal commit.
LEMMA TerminalLogRows ==
  ASSUME log \in [Ops -> Row], NEW op \in Ops, NEW answer
  PROVE  LET after == TerminalLog(op, answer) IN
         /\ after[op].status = TerminalStatus(answer)
         /\ after[op].linked <=> (log[op].linked \/ (op \in Inverses /\ answer = "ok"))
         /\ op \in Inverses /\ answer = "ok" => after[Original[op]].status # "success"
         /\ \A o \in Ops \ {op} :
              \/ after[o] = log[o]
              \/ /\ op \in Inverses /\ answer = "ok" /\ o = Original[op]
                 /\ log[o].status = "success" /\ after[o].status = "reverted"
                 /\ after[o].linked = log[o].linked
<1> DEFINE after == TerminalLog(op, answer)
<1>1. after[op].status = TerminalStatus(answer)
  BY DEF TerminalLog, Row
<1>2. after[op].linked <=> (log[op].linked \/ (op \in Inverses /\ answer = "ok"))
  BY DEF TerminalLog, Row
<1>3. op \in Inverses => Original[op] \in Ops \ {op}
  BY ExecutionLogAssumption
<1>4. op \in Inverses /\ answer = "ok" => after[Original[op]].status # "success"
  BY <1>3 DEF TerminalLog, Row
<1>5. ASSUME NEW o \in Ops \ {op}
      PROVE  \/ after[o] = log[o]
             \/ /\ op \in Inverses /\ answer = "ok" /\ o = Original[op]
                /\ log[o].status = "success" /\ after[o].status = "reverted"
                /\ after[o].linked = log[o].linked
  BY DEF TerminalLog, Row
<1> QED
  BY <1>1, <1>2, <1>4, <1>5

\* Nobody resumes an exclusive operation.
LEMMA ExclusiveNotResumed ==
  ASSUME ExclusiveInv, NEW c, NEW op \in Ops, NEW corr, Resume(c, op, corr)
  PROVE  ~Exclusive(op)
BY ExecutionLogAssumption, RecoveryAssumption
   DEF ExclusiveInv, LinkInv, Resume, ResumeWhere, Undispatched, SelfConsistent, Exclusive

\* A claim that its caller may still fail or fence has sent nothing, and
\* nobody else is at it.
LEMMA ClaimIsQuiet ==
  ASSUME ExclusiveInv, NEW c \in Callers, call[c].pc \in {"claimed", "ready"},
         Exclusive(call[c].op)
  PROVE  /\ Undispatched(log[call[c].op])
         /\ ~MayApply(call[c].op)
         /\ Over(call[c].op)
<1>1. call[c].op \in Ops /\ Undispatched(log[call[c].op])
  BY DEF ExclusiveInv, ClaimInv, DispatchInv, TypeOK, ExecutorTypeOK, Call
<1> QED
  BY <1>1 DEF ExclusiveInv, DispatchInv, ProviderInv, CallerInv, Undispatched, MayApply, Over,
              TypeOK, ExecutorTypeOK, Provider

LEMMA ExclusiveStep == ExclusiveInv /\ [Next]_vars => ExclusiveInv'
<1> DEFINE Rest == LinkInv /\ HolderInv /\ ClaimInv /\ FailedInv
<1> SUFFICES ASSUME ExclusiveInv, [Next]_vars PROVE Rest'
  BY DispatchStep DEF ExclusiveInv
<1>t. /\ DispatchInv
      /\ log \in [Ops -> Row] /\ call \in [Callers -> Call] /\ provider \in [Ops -> Provider]
      /\ log' \in [Ops -> Row] /\ call' \in [Callers -> Call]
      /\ Inverses \subseteq Ops
  BY DispatchStep, ExecutionLogAssumption DEF ExclusiveInv, DispatchInv, TypeOK, ExecutorTypeOK
<1>i. LinkInv /\ HolderInv /\ ClaimInv /\ FailedInv
  BY DEF ExclusiveInv
<1> USE <1>t
\* A caller that gives up or asks holds nothing.
<1>0. ASSUME NEW c \in Callers, call'[c].pc \in {"idle", "requested"},
             \A d \in Callers \ {c} : call'[d] = call[d],
             log' = log, provider' = provider
      PROVE  Rest'
  <2>1. \A d \in Callers : Holding(d)' => d # c /\ Holding(d)
    BY <1>0 DEF Holding, Active
  <2>2. LinkInv' /\ HolderInv' /\ ClaimInv'
    BY <1>0, <1>i, <2>1 DEF LinkInv, HolderInv, ClaimInv, Holding, Active, Exclusive
  <2>3. FailedInv'
    BY <1>0, <1>i DEF FailedInv, MayApply, Over, Active, Exclusive
  <2> QED
    BY <2>2, <2>3
<1>1. ASSUME NEW c \in Callers, NEW op \in Ops, NEW content \in Contents,
             Executing(Request(c, op, content))
      PROVE  Rest'
  BY <1>0, <1>1 DEF Executing, Request, Idle
<1>2. ASSUME NEW c \in Callers,
             Executing(Decline(c)) \/ Executing(Crash(c)) \/ Executing(FenceLost(c))
      PROVE  Rest'
  BY <1>0, <1>2 DEF Executing, Decline, Crash, FenceLost, Return, Idle
\* A step that moves neither caller nor provider, nor anything of the rows
\* that the invariant speaks of.
<1>3. ASSUME call' = call, provider' = provider,
             \A o \in Ops : /\ log'[o].status = log[o].status
                            /\ log'[o].linked = log[o].linked
                            /\ log'[o].started = log[o].started
      PROVE  Rest'
  <2>1. LinkInv' /\ HolderInv'
    BY <1>3, <1>i DEF LinkInv, HolderInv, Holding, Active, Exclusive
  <2>2. ClaimInv'
    BY <1>3, <1>i DEF ClaimInv, Undispatched, Exclusive, Call
  <2>3. FailedInv'
    BY <1>3, <1>i DEF FailedInv, MayApply, Over, Active, Exclusive
  <2> QED
    BY <2>1, <2>2, <2>3
<1>4. ASSUME NEW c \in Callers, Executing(Claim(c)) PROVE Rest'
  <2> PICK op \in Ops : op = call[c].op
    BY DEF Call
  <2>1. /\ call[c].pc = "requested"
        /\ log[op].status = "absent"
        /\ log' = [log EXCEPT ![op] = Claimed(call[c].content)]
        /\ call' = [call EXCEPT ![c].pc = "claimed", ![c].gen = NoRow.gen]
        /\ provider' = provider
    BY <1>4 DEF Executing, Claim
  <2>2. \A d \in Callers : Holding(d) => call[d].op # op
    BY <2>1 DEF DispatchInv, CallerInv
  <2>3. LinkInv'
    BY <2>1, <1>i DEF LinkInv, Claimed, NoRow, Row
  <2>4. HolderInv'
    BY <2>1, <2>2, <1>i DEF HolderInv, Holding, Active, Exclusive, Call
  <2>5. ClaimInv'
    BY <2>1, <2>2, <1>i DEF ClaimInv, Holding, Undispatched, Claimed, NoRow, Exclusive, Row, Call
  <2>6. FailedInv'
    BY <2>1, <1>i DEF FailedInv, MayApply, Over, Active, Claimed, NoRow, Exclusive, Row, Call
  <2> QED
    BY <2>3, <2>4, <2>5, <2>6
<1>5. ASSUME NEW c \in Callers, Executing(ResolveCredentials(c)) PROVE Rest'
  <2>1. call[c].pc = "claimed" /\ call' = [call EXCEPT ![c].pc = "ready"]
        /\ log' = log /\ provider' = provider
    BY <1>5 DEF Executing, ResolveCredentials, Goto
  <2>2. LinkInv' /\ HolderInv' /\ ClaimInv'
    BY <2>1, <1>i DEF LinkInv, HolderInv, ClaimInv, Holding, Active, Exclusive, Call
  <2>3. FailedInv'
    BY <2>1, <1>i DEF FailedInv, MayApply, Over, Active, Exclusive, Call
  <2> QED
    BY <2>2, <2>3
<1>6. ASSUME NEW c \in Callers, Executing(PreDispatchFailure(c)) PROVE Rest'
  <2> PICK op \in Ops : op = call[c].op
    BY DEF Call
  <2>1. /\ call[c].pc = "claimed"
        /\ log' = [log EXCEPT ![op].status = "failed"]
        /\ call' = [call EXCEPT ![c] = Idle]
        /\ provider' = provider
    BY <1>6 DEF Executing, PreDispatchFailure, Return
  <2>2. Exclusive(op) => /\ log[op].status = "pending" /\ ~MayApply(op) /\ Over(op)
                         /\ \A d \in Callers : d # c /\ Holding(d) => call[d].op # op
    BY <2>1, <1>i, ClaimIsQuiet DEF Undispatched, HolderInv, Holding
  <2>3. LinkInv'
    BY <2>1, <2>2, <1>i DEF LinkInv, Exclusive, Row
  <2>4. HolderInv'
    BY <2>1, <1>i DEF HolderInv, Holding, Active, Exclusive, Call, Idle
  <2>5. ClaimInv'
    BY <2>1, <2>2, <1>i DEF ClaimInv, Holding, Undispatched, Exclusive, Row, Call, Idle
  <2>6. FailedInv'
    BY <2>1, <2>2, <1>i DEF FailedInv, MayApply, Over, Active, Exclusive, Row, Call, Idle
  <2> QED
    BY <2>3, <2>4, <2>5, <2>6
\* The row of a caller at its fence is taken in_flight, the caller goes on or
\* gives up.
<1>7. ASSUME NEW c \in Callers, NEW op \in Ops, op = call[c].op, call[c].pc = "ready",
             Undispatched(log[op]),
             log' = [log EXCEPT ![op] = TakeInFlight(@)],
             call'[c].pc = "idle" \/ call' = [call EXCEPT ![c].pc = "dispatching"],
             \A d \in Callers \ {c} : call'[d] = call[d],
             provider' = provider
      PROVE  Rest'
  <2>1. Exclusive(op) => \A d \in Callers : d # c /\ Holding(d) => call[d].op # op
    BY <1>7, <1>i DEF HolderInv, Holding
  <2>2. LinkInv'
    BY <1>7, <1>i DEF LinkInv, Undispatched, TakeInFlight, Row
  <2>3. HolderInv'
    BY <1>7, <1>i DEF HolderInv, Holding, Active, Exclusive, Call
  <2>4. ClaimInv'
    BY <1>7, <2>1, <1>i DEF ClaimInv, Holding, Undispatched, TakeInFlight, Exclusive, Row, Call
  <2>5. FailedInv'
    BY <1>7, <1>i DEF FailedInv, MayApply, Over, Active, Undispatched, TakeInFlight, Exclusive,
                      Row, Call
  <2> QED
    BY <2>2, <2>3, <2>4, <2>5
<1>8. ASSUME NEW c \in Callers, Executing(Fence(c)) PROVE Rest'
  BY <1>7, <1>8 DEF Executing, Fence, Goto, FenceWhere, Call
<1>9. ASSUME NEW c \in Callers, Executing(FenceError(c)) PROVE Rest'
  BY <1>0, <1>7, <1>9 DEF Executing, FenceError, Return, FenceWhere, Call, Idle
<1>10. ASSUME NEW c \in Callers, Executing(Dispatch(c)) PROVE Rest'
  <2> PICK op \in Ops : op = call[c].op
    BY DEF Call
  <2>1. /\ call[c].pc = "dispatching"
        /\ log' = log
        /\ call' = [call EXCEPT ![c].pc = "sent"]
        /\ \A o \in Ops \ {op} : provider'[o] = provider[o]
    BY <1>10 DEF Executing, Dispatch, Goto
  <2>2. LinkInv' /\ HolderInv' /\ ClaimInv'
    BY <2>1, <1>i DEF LinkInv, HolderInv, ClaimInv, Holding, Active, Exclusive, Call
  <2>3. FailedInv'
    BY <2>1, <1>i DEF FailedInv, MayApply, Over, Active, Exclusive, Call
  <2> QED
    BY <2>2, <2>3
<1>11. ASSUME NEW c \in Callers, Executing(Answer(c)) PROVE Rest'
  <2>1. /\ call[c].pc = "sent" /\ call'[c].pc = "answered" /\ call'[c].op = call[c].op
        /\ \A d \in Callers \ {c} : call'[d] = call[d]
        /\ log' = log /\ provider' = provider
    BY <1>11 DEF Executing, Answer, Call
  <2>2. LinkInv' /\ HolderInv' /\ ClaimInv'
    BY <2>1, <1>i DEF LinkInv, HolderInv, ClaimInv, Holding, Active, Exclusive
  <2>3. FailedInv'
    BY <2>1, <1>i DEF FailedInv, MayApply, Over, Active, Exclusive
  <2> QED
    BY <2>2, <2>3
<1>12. ASSUME NEW c \in Callers, Executing(Finalize(c)) PROVE Rest'
  <2> PICK op \in Ops : op = call[c].op
    BY DEF Call
  <2> PICK answer \in Answers \ {"none"} : answer = call[c].answer
    BY <1>12 DEF Executing, Finalize, DispatchInv, CallerInv, Call
  <2>1. /\ call[c].pc = "answered"
        /\ log' = TerminalLog(op, answer)
        /\ call' = [call EXCEPT ![c] = Idle]
        /\ provider' = provider
    BY <1>12 DEF Executing, Finalize, Return
  <2>2. /\ log'[op].status = TerminalStatus(answer)
        /\ log'[op].linked <=> (log[op].linked \/ (op \in Inverses /\ answer = "ok"))
        /\ \A o \in Ops \ {op} :
             \/ log'[o] = log[o]
             \/ /\ log[o].status = "success" /\ log'[o].status = "reverted"
                /\ log'[o].linked = log[o].linked
    BY <2>1, TerminalLogRows
  <2>3. /\ log[op].status \notin {"success", "reverted"}
        /\ answer = "rejected" => ~MayApply(op)
        /\ Exclusive(op) => log[op].status # "failed"
        /\ Exclusive(op) => \A d \in Callers : d # c /\ Holding(d) => call[d].op # op
        /\ \A d \in Callers : d # c /\ Active(d) => call[d].op # op
    BY <2>1, <1>i DEF DispatchInv, SuccessInv, Over, Active, FailedInv, HolderInv, Holding,
                      CallerInv, UniqueInv, MayApply
  <2>4. /\ answer = "ok" <=> TerminalStatus(answer) = "success"
        /\ answer = "rejected" <=> TerminalStatus(answer) = "failed"
        /\ TerminalStatus(answer) \in {"success", "failed", "ambiguous"}
    BY DEF TerminalStatus, Answers
  <2>5. LinkInv'
    BY <2>2, <2>3, <2>4, <1>i DEF LinkInv
  <2>6. HolderInv'
    BY <2>1, <1>i DEF HolderInv, Holding, Active, Exclusive, Call, Idle
  <2>7. ClaimInv'
    <3> SUFFICES ASSUME NEW d \in Callers, call'[d].pc \in {"claimed", "ready"},
                        Exclusive(call'[d].op)
                 PROVE  Undispatched(log'[call'[d].op])
      BY DEF ClaimInv, Exclusive
    <3>1. d # c /\ call'[d] = call[d] /\ call[d].op \in Ops /\ Holding(d)
      BY <2>1 DEF Call, Idle, Holding
    <3>2. call[d].op # op /\ Undispatched(log[call[d].op])
      BY <3>1, <2>3, <1>i DEF ClaimInv
    <3> QED
      BY <3>1, <3>2, <2>2 DEF Undispatched
  <2>8. FailedInv'
    <3> SUFFICES ASSUME NEW o \in Ops, log'[o].status = "failed", Exclusive(o)
                 PROVE  ~MayApply(o)' /\ Over(o)'
      BY DEF FailedInv, Exclusive
    <3>1. CASE o = op
      BY <2>1, <2>2, <2>3, <2>4, <3>1 DEF MayApply, Over, Active, Call, Idle
    <3>2. CASE o # op
      BY <2>1, <2>2, <3>2, <1>i DEF FailedInv, MayApply, Over, Active, Call, Idle
    <3> QED
      BY <3>1, <3>2
  <2> QED
    BY <2>5, <2>6, <2>7, <2>8
<1>13. ASSUME NEW op \in Ops, Executing(ProviderActs(op)) PROVE Rest'
  <2>1. /\ log' = log /\ call' = call
        /\ provider[op].state = "received"
        /\ \A o \in Ops \ {op} : provider'[o] = provider[o]
    BY <1>13 DEF Executing, ProviderActs
  <2>2. LinkInv' /\ HolderInv' /\ ClaimInv'
    BY <2>1, <1>i DEF LinkInv, HolderInv, ClaimInv, Holding, Active, Exclusive
  <2>3. FailedInv'
    BY <2>1, <1>i DEF FailedInv, MayApply, Over, Active, Exclusive
  <2> QED
    BY <2>2, <2>3
<1>14. ASSUME NEW op \in Ops, Reown(op) PROVE Rest'
  BY <1>3, <1>14 DEF Reown, Reowned, Row
<1>15. ASSUME NEW op \in Ops, SweepWrite(op) PROVE Rest'
  BY <1>3, <1>15 DEF SweepWrite, Reconciled, Row
<1>16. ASSUME NEW op \in Ops, BackoffElapses(op) PROVE Rest'
  BY <1>3, <1>16 DEF BackoffElapses, Row
<1>17. ASSUME NEW op \in Ops, SweepRead(op) \/ SweepFails(op) PROVE Rest'
  BY <1>3, <1>17 DEF SweepRead, SweepFails, executorVars
<1>18. ASSUME NEW op \in Ops, NEW corr \in Correlations, NEW action \in Actions \ {"authorize_retry"},
              Resolve(op, corr, action)
       PROVE  Rest'
  BY <1>3, <1>18 DEF Resolve, Row
<1>19. ASSUME NEW c \in Callers, NEW op \in Ops, NEW corr \in Correlations, Resume(c, op, corr)
       PROVE  Rest'
  <2>1. /\ call[c].pc = "idle"
        /\ log[op].status = "pending"
        /\ log' = [log EXCEPT ![op] = [TakeInFlight(@) EXCEPT !.manual = "retry_authorized"]]
        /\ call'[c].op = op
        /\ \A d \in Callers \ {c} : call'[d] = call[d]
        /\ call'[c].pc = "dispatching"
        /\ provider' = provider
    BY <1>19 DEF Resume, ResumeWhere, Undispatched, Call, Idle
  <2>2. ~Exclusive(op)
    BY <1>19, ExclusiveNotResumed
  <2>3. LinkInv'
    BY <2>1, <1>i DEF LinkInv, TakeInFlight, Row
  <2>4. HolderInv'
    BY <2>1, <2>2, <1>i DEF HolderInv, Holding, Active, Exclusive
  <2>5. ClaimInv'
    BY <2>1, <2>2, <1>i DEF ClaimInv, Undispatched, Exclusive
  <2>6. FailedInv'
    BY <2>1, <2>2, <1>i DEF FailedInv, MayApply, Over, Active, Exclusive
  <2> QED
    BY <2>3, <2>4, <2>5, <2>6
<1>20. CASE UNCHANGED vars
  BY <1>3, <1>20 DEF vars, executorVars
<1> QED
  BY <1>1, <1>2, <1>4, <1>5, <1>6, <1>8, <1>9, <1>10, <1>11, <1>12, <1>13, <1>14, <1>15, <1>16,
     <1>17, <1>18, <1>19, <1>20
     DEF Next, CallerNext, RecoveryNext, OperatorNext

THEOREM ExclusiveClaims == Spec => []ExclusiveInv
BY ExclusiveInit, ExclusiveStep, PTL DEF Spec

(***************************************************************************)
(* The pairing of an operation and its inverse.                            *)
(***************************************************************************)

\* From its request on, an inverse has an original that was applied and is over.
BegunInv ==
  \A r \in Inverses :
    log[r].status # "absent" \/ (\E c \in Callers : call[c].op = r /\ call[c].pc # "idle") =>
      Applied(Original[r]) /\ Over(Original[r])

\* The statuses of the two move together.
PairInv ==
  /\ \A r \in Inverses :
       log[r].status \in {"success", "reverted"} => log[Original[r]].status # "success"
  /\ \A op \in Ops :
       log[op].status = "reverted" =>
         \E r \in Inverses : Original[r] = op /\ log[r].status \in {"success", "reverted"}

RevertInv == BegunInv /\ PairInv

LEMMA RevertInit == Init => RevertInv
BY ExecutionLogAssumption
   DEF Init, ExecutorInit, RevertInv, BegunInv, PairInv, Idle, NoRow

\* What an applied and finished operation keeps: nobody can fence or resume
\* it again, because its row has been dispatched.
LEMMA OverIsKept ==
  ASSUME ExclusiveInv, [Next]_vars, NEW op \in Ops, Applied(op), Over(op)
  PROVE  Applied(op)' /\ Over(op)'
<1> USE DEF Applied, Over, Active
<1>1. /\ log[op].started
      /\ call \in [Callers -> Call] /\ provider \in [Ops -> Provider]
  BY DEF ExclusiveInv, DispatchInv, ProviderInv, TypeOK, ExecutorTypeOK, Provider
<1>2. ASSUME NEW c \in Callers, CallerNext(c) PROVE Applied(op)' /\ Over(op)'
  <2>1. CASE call'[c].pc \in {"idle", "requested", "claimed", "ready"} /\ provider' = provider
             /\ \A d \in Callers \ {c} : call'[d] = call[d]
    BY <2>1
  <2>2. CASE Fence(c)
    BY <1>1, <2>2 DEF Fence, FenceWhere, Undispatched, Goto, Call
  <2>3. CASE Dispatch(c)
    BY <1>1, <2>3 DEF Dispatch, Goto, Call
  <2>4. CASE Answer(c)
    BY <1>1, <2>4 DEF Answer, Call
  <2>5. CASE Claim(c) \/ ResolveCredentials(c)
    BY <1>1, <2>1, <2>5 DEF Claim, ResolveCredentials, Goto, Call
  <2>6. CASE \/ Decline(c) \/ Crash(c) \/ FenceLost(c) \/ FenceError(c) \/ Finalize(c)
             \/ PreDispatchFailure(c)
    BY <1>1, <2>1, <2>6
       DEF Decline, Crash, FenceLost, FenceError, Finalize, PreDispatchFailure, Return, Idle
  <2>7. CASE \E o \in Ops, content \in Contents : Request(c, o, content)
    BY <1>1, <2>1, <2>7 DEF Request, Idle
  <2> QED
    BY <1>2, <2>2, <2>3, <2>4, <2>5, <2>6, <2>7 DEF CallerNext, Executing
<1>3. ASSUME NEW o \in Ops, Executing(ProviderActs(o)) PROVE Applied(op)' /\ Over(op)'
  BY <1>1, <1>3 DEF Executing, ProviderActs
<1>4. ASSUME call' = call, provider' = provider PROVE Applied(op)' /\ Over(op)'
  BY <1>4
<1>5. ASSUME NEW o \in Ops, RecoveryNext(o) PROVE Applied(op)' /\ Over(op)'
  BY <1>4, <1>5 DEF RecoveryNext, Reown, SweepRead, SweepWrite, SweepFails, BackoffElapses,
                    executorVars
<1>6. ASSUME NEW c \in Callers, NEW o \in Ops, NEW corr \in Correlations, Resume(c, o, corr)
      PROVE  Applied(op)' /\ Over(op)'
  BY <1>1, <1>6 DEF Resume, ResumeWhere, Undispatched, Idle, Call
<1>7. ASSUME NEW o \in Ops, NEW corr \in Correlations, NEW action \in Actions,
             Resolve(o, corr, action)
      PROVE  Applied(op)' /\ Over(op)'
  BY <1>4, <1>7 DEF Resolve
<1>8. CASE UNCHANGED vars
  BY <1>4, <1>8 DEF vars, executorVars
<1> QED
  BY <1>2, <1>3, <1>5, <1>6, <1>7, <1>8 DEF Next, OperatorNext

\* How a step may change the status of a row: only a claim fills an absent
\* one, only the terminal commit of its caller makes a success, and an
\* inverse that succeeded, or was reverted, stays so.
LEMMA StatusSteps ==
  ASSUME ExclusiveInv, [Next]_vars, NEW op \in Ops
  PROVE  /\ log[op].status = "absent" /\ log'[op].status # "absent" =>
              \E c \in Callers : call[c].op = op /\ call[c].pc # "idle"
         /\ log[op].status # "success" /\ log'[op].status = "success" =>
              /\ ~Over(op)
              /\ op \in Inverses => log'[Original[op]].status # "success"
         /\ log[op].status # "reverted" /\ log'[op].status = "reverted" =>
              /\ log[op].status = "success"
              /\ \E r \in Inverses : Original[r] = op /\ log'[r].status = "success"
         /\ log[op].status \in {"success", "reverted"} /\ Exclusive(op) =>
              log'[op].status \in {"success", "reverted"}
<1> DEFINE Goal ==
      /\ log[op].status = "absent" /\ log'[op].status # "absent" =>
           \E c \in Callers : call[c].op = op /\ call[c].pc # "idle"
      /\ log[op].status # "success" /\ log'[op].status = "success" =>
           /\ ~Over(op)
           /\ op \in Inverses => log'[Original[op]].status # "success"
      /\ log[op].status # "reverted" /\ log'[op].status = "reverted" =>
           /\ log[op].status = "success"
           /\ \E r \in Inverses : Original[r] = op /\ log'[r].status = "success"
      /\ log[op].status \in {"success", "reverted"} /\ Exclusive(op) =>
           log'[op].status \in {"success", "reverted"}
<1> SUFFICES Goal
  OBVIOUS
<1>1. DispatchInv /\ log \in [Ops -> Row] /\ call \in [Callers -> Call]
  BY DEF ExclusiveInv, DispatchInv, TypeOK, ExecutorTypeOK
<1>2. CASE log'[op].status = log[op].status
  BY <1>2
<1>3. CASE log[op].status = "pending" /\ log'[op].status = "in_flight"
  BY <1>3
<1>4. ASSUME NEW c \in Callers, CallerNext(c) PROVE Goal
  <2>1. CASE log' = log
    BY <1>2, <2>1
  <2>2. CASE Claim(c)
    <3>1. /\ log'[op] = log[op] \/ (call[c].op = op /\ log[op].status = "absent"
                                   /\ log'[op].status = "pending")
          /\ call[c].pc = "requested"
      BY <1>1, <2>2 DEF Claim, Claimed, NoRow
    <3> QED
      BY <1>2, <3>1
  <2>3. CASE PreDispatchFailure(c)
    <3>1. \/ log'[op] = log[op]
          \/ call[c].op = op /\ call[c].pc = "claimed" /\ log'[op].status = "failed"
      BY <1>1, <2>3 DEF PreDispatchFailure, Row
    <3>2. call[c].op = op /\ call[c].pc = "claimed" =>
            log[op].status # "absent" /\ (Exclusive(op) => log[op].status = "pending")
      BY <1>1, ClaimIsQuiet DEF DispatchInv, CallerInv, Holding, Undispatched
    <3> QED
      BY <1>2, <3>1, <3>2
  <2>4. CASE Fence(c) \/ FenceError(c)
    BY <1>1, <1>2, <1>3, <2>4
       DEF Fence, FenceError, FenceWhere, Undispatched, TakeInFlight, Row
  <2>5. CASE Finalize(c)
    <3> PICK o \in Ops : o = call[c].op
      BY <1>1 DEF Call
    <3> PICK answer \in Answers \ {"none"} : answer = call[c].answer
      BY <1>1, <2>5 DEF Finalize, DispatchInv, CallerInv, Call
    <3>1. call[c].pc = "answered" /\ log' = TerminalLog(o, answer)
      BY <2>5 DEF Finalize
    <3>2. ~Over(o) /\ log[o].status \notin {"absent", "success", "reverted"}
      BY <1>1, <3>1 DEF DispatchInv, CallerInv, SuccessInv, Over, Active, Holding
    <3>3. /\ TerminalStatus(answer) = "success" <=> answer = "ok"
          /\ TerminalStatus(answer) \in {"success", "failed", "ambiguous"}
      BY DEF TerminalStatus, Answers
    <3>4. CASE op = o
      BY <1>1, <3>1, <3>2, <3>3, <3>4, TerminalLogRows
    <3>5. CASE op # o
      BY <1>1, <3>1, <3>3, <3>5, TerminalLogRows
    <3> QED
      BY <3>4, <3>5
  <2>6. CASE \E o \in Ops, content \in Contents : Request(c, o, content)
    BY <2>1, <2>6 DEF Request
  <2>7. CASE \/ Decline(c) \/ ResolveCredentials(c) \/ FenceLost(c) \/ Dispatch(c)
             \/ Answer(c) \/ Crash(c)
    BY <2>1, <2>7 DEF Decline, ResolveCredentials, FenceLost, Dispatch, Answer, Crash
  <2> HIDE DEF Goal
  <2> QED
    BY <1>4, <2>2, <2>3, <2>4, <2>5, <2>6, <2>7 DEF CallerNext, Executing
<1>5. ASSUME NEW o \in Ops, Executing(ProviderActs(o)) PROVE Goal
  BY <1>2, <1>5 DEF Executing, ProviderActs
<1>6. ASSUME NEW o \in Ops, RecoveryNext(o) PROVE Goal
  <2>1. CASE Reown(o)
    BY <1>1, <1>2, <2>1 DEF Reown, Reowned, Row
  <2>2. CASE SweepWrite(o)
    BY <1>1, <1>2, <2>2 DEF SweepWrite, Reconciled, Row
  <2>3. CASE BackoffElapses(o)
    BY <1>1, <1>2, <2>3 DEF BackoffElapses, Row
  <2>4. CASE SweepRead(o) \/ SweepFails(o)
    BY <1>2, <2>4 DEF SweepRead, SweepFails, executorVars
  <2> HIDE DEF Goal
  <2> QED
    BY <1>6, <2>1, <2>2, <2>3, <2>4 DEF RecoveryNext
<1>7. ASSUME NEW c \in Callers, NEW o \in Ops, NEW corr \in Correlations, Resume(c, o, corr)
      PROVE  Goal
  BY <1>1, <1>2, <1>3, <1>7 DEF Resume, ResumeWhere, Undispatched, TakeInFlight, Row
<1>8. ASSUME NEW o \in Ops, NEW corr \in Correlations, NEW action \in Actions,
             Resolve(o, corr, action)
      PROVE  Goal
  BY <1>1, <1>2, <1>8 DEF Resolve, Row
<1>9. CASE UNCHANGED vars
  BY <1>2, <1>9 DEF vars, executorVars
<1> HIDE DEF Goal
<1> QED
  BY <1>4, <1>5, <1>6, <1>7, <1>8, <1>9 DEF Next, OperatorNext

\* Who is at work on a key was, asked for it, or resumed its row.
LEMMA CallSteps ==
  ASSUME ExclusiveInv, [Next]_vars, NEW op \in Ops,
         \E c \in Callers : call'[c].op = op /\ call'[c].pc # "idle"
  PROVE  \/ \E c \in Callers : call[c].op = op /\ call[c].pc # "idle"
         \/ log[op].status # "absent"
         \/ op \in Inverses => log[Original[op]].status = "success"
<1> PICK c \in Callers : call'[c].op = op /\ call'[c].pc # "idle"
  OBVIOUS
<1>1. call \in [Callers -> Call]
  BY DEF ExclusiveInv, DispatchInv, TypeOK, ExecutorTypeOK
<1>2. CASE call'[c].op = call[c].op /\ call[c].pc # "idle"
  BY <1>2
<1>3. CASE call'[c] = call[c]
  BY <1>3
<1>4. ASSUME NEW d \in Callers, CallerNext(d)
      PROVE  \/ call'[c] = call[c]
             \/ call'[c].op = call[c].op /\ call[c].pc # "idle"
             \/ \E o \in Ops, content \in Contents : Request(d, o, content) /\ c = d
  <2>1. CASE \/ Claim(d) \/ ResolveCredentials(d) \/ Fence(d) \/ Dispatch(d) \/ Answer(d)
    BY <1>1, <2>1 DEF Claim, ResolveCredentials, Fence, Dispatch, Answer, Goto, Call
  <2>2. CASE \/ Decline(d) \/ Crash(d) \/ FenceLost(d) \/ FenceError(d) \/ Finalize(d)
             \/ PreDispatchFailure(d)
    BY <1>1, <2>2
       DEF Decline, Crash, FenceLost, FenceError, Finalize, PreDispatchFailure, Return, Idle
  <2>3. CASE \E o \in Ops, content \in Contents : Request(d, o, content)
    BY <1>1, <2>3 DEF Request
  <2> QED
    BY <1>4, <2>1, <2>2, <2>3 DEF CallerNext, Executing
<1>5. ASSUME NEW o \in Ops, NEW content \in Contents, Request(c, o, content)
      PROVE  op \in Inverses => log[Original[op]].status = "success"
  BY <1>1, <1>5 DEF Request, Idle
<1>6. ASSUME NEW d \in Callers, NEW o \in Ops, NEW corr \in Correlations, Resume(d, o, corr)
      PROVE  call'[c] = call[c] \/ log[op].status # "absent"
  BY <1>1, <1>6 DEF Resume, ResumeWhere, Undispatched, Idle
<1>7. \/ \E d \in Callers : CallerNext(d)
      \/ \E d \in Callers, o \in Ops, corr \in Correlations : Resume(d, o, corr)
      \/ call' = call
  BY DEF Next, Executing, ProviderActs, RecoveryNext, OperatorNext, Reown, SweepRead, SweepWrite,
         SweepFails, BackoffElapses, Resolve, vars, executorVars
<1> QED
  BY <1>2, <1>3, <1>4, <1>5, <1>6, <1>7

LEMMA RevertStep == ExclusiveInv /\ RevertInv /\ [Next]_vars => RevertInv'
<1> SUFFICES ASSUME ExclusiveInv, RevertInv, [Next]_vars PROVE RevertInv'
  OBVIOUS
<1>1. Inverses \subseteq Ops /\ \A r \in Inverses : Original[r] \in Ops /\ Exclusive(r)
  BY ExecutionLogAssumption DEF Exclusive
<1>2. \A op \in Ops : log[op].status = "success" => Applied(op) /\ Over(op)
  BY DEF ExclusiveInv, DispatchInv, SuccessInv
<1>3. BegunInv'
  <2> SUFFICES ASSUME NEW r \in Inverses,
                      \/ log'[r].status # "absent"
                      \/ \E c \in Callers : call'[c].op = r /\ call'[c].pc # "idle"
               PROVE  Applied(Original[r])' /\ Over(Original[r])'
    BY DEF BegunInv
  <2>1. \/ log[r].status # "absent"
        \/ \E c \in Callers : call[c].op = r /\ call[c].pc # "idle"
        \/ log[Original[r]].status = "success"
    BY <1>1, StatusSteps, CallSteps
  <2>2. Applied(Original[r]) /\ Over(Original[r])
    BY <1>1, <1>2, <2>1 DEF RevertInv, BegunInv
  <2> QED
    BY <1>1, <2>2, OverIsKept
<1>4. ASSUME NEW r \in Inverses, log'[r].status \in {"success", "reverted"}
      PROVE  log'[Original[r]].status # "success"
  <2>1. CASE log[r].status \in {"success", "reverted"}
    <3>1. Over(Original[r]) /\ log[Original[r]].status # "success"
      BY <2>1 DEF RevertInv, BegunInv, PairInv
    <3> QED
      BY <1>1, <3>1, StatusSteps
  <2>2. CASE log[r].status \notin {"success", "reverted"}
    BY <1>1, <1>4, <2>2, StatusSteps
  <2> QED
    BY <2>1, <2>2
<1>5. ASSUME NEW op \in Ops, log'[op].status = "reverted"
      PROVE  \E r \in Inverses : Original[r] = op /\ log'[r].status \in {"success", "reverted"}
  <2>1. CASE log[op].status = "reverted"
    BY <1>1, <2>1, StatusSteps DEF RevertInv, PairInv
  <2>2. CASE log[op].status # "reverted"
    BY <1>5, <2>2, StatusSteps
  <2> QED
    BY <2>1, <2>2
<1> QED
  BY <1>3, <1>4, <1>5 DEF RevertInv, PairInv

THEOREM Reverting == Spec => [](ExclusiveInv /\ RevertInv)
BY ExclusiveInit, ExclusiveStep, RevertInit, RevertStep, PTL DEF Spec

(***************************************************************************)
(* Theorems.                                                               *)
(***************************************************************************)

\* A succeeded inverse is never seen beside an original still in success,
\* nor a reverted operation without its inverse.
THEOREM RevertsAtomically == Spec => []RevertIsAtomic
<1>1. ExclusiveInv /\ RevertInv => RevertIsAtomic
  BY DEF ExclusiveInv, LinkInv, RevertInv, PairInv, RevertIsAtomic
<1> QED
  BY <1>1, Reverting, PTL

\* An inverse reaches the marketplace only after its original was applied.
THEOREM InverseComesSecond == Spec => []InverseFollowsOriginal
<1>1. ExclusiveInv /\ RevertInv => InverseFollowsOriginal
  BY ExecutionLogAssumption
     DEF ExclusiveInv, DispatchInv, ProviderInv, RowInv, RevertInv, BegunInv, InverseFollowsOriginal
<1> QED
  BY <1>1, Reverting, PTL

\* With operator redispatch off, a caller that is told to start a new
\* operation does not double the old one.
THEOREM FailedIsFinal ==
  ASSUME ~RedispatchEnabled
  PROVE  Spec => []FailedWasNotApplied
<1>1. ExclusiveInv => FailedWasNotApplied
  <2> SUFFICES ASSUME ExclusiveInv, NEW op \in Ops, NEW content \in Contents,
                      ResolveExisting(log[op], content) = "PRIOR_FAILED"
               PROVE  ~MayApply(op)
    BY DEF FailedWasNotApplied
  <2>1. log[op].status = "failed"
    BY DEF ResolveExisting, ExclusiveInv, DispatchInv, TypeOK, ExecutorTypeOK, Row, Status, OpenStatus
  <2> QED
    BY <2>1 DEF ExclusiveInv, FailedInv, Exclusive
<1> QED
  BY <1>1, ExclusiveClaims, PTL

\* With operator redispatch off, a recorded success stays one, or is reverted.
THEOREM SuccessIsFinal ==
  ASSUME ~RedispatchEnabled
  PROVE  Spec => SuccessIsKept
<1>1. ExclusiveInv /\ [Next]_vars =>
        [\A op \in Ops : log[op].status = "success" =>
                            log'[op].status \in {"success", "reverted"}]_vars
  BY StatusSteps DEF Exclusive
<1> QED
  BY <1>1, ExclusiveClaims, PTL DEF Spec, SuccessIsKept

=============================================================================
