------------------------------ MODULE Executor ------------------------------
(***************************************************************************)
(* services/marketplace/executor.py: execute(), revert() and the shared    *)
(* _dispatch_and_finalize().  A caller is one coroutine serving a request; *)
(* it awaits between its steps, so callers interleave at every step, and   *)
(* every step that touches the table is one committed statement.           *)
(*                                                                         *)
(* The marketplace is external: it receives a request, applies or refuses  *)
(* it at some later moment, and its answer may be lost.                    *)
(***************************************************************************)
EXTENDS ExecutionLog

CONSTANT Callers

VARIABLES
  log,       \* Ops -> Row
  call,      \* Callers -> the local variables of the coroutine
  provider   \* Ops -> what the marketplace was sent and what it did

executorVars == <<log, call, provider>>

(***************************************************************************)
(* pc of a caller:                                                         *)
(*   idle         no request                                               *)
(*   requested    inside execute(), before the claim INSERT                *)
(*   claimed      pending row committed, generation captured               *)
(*   ready        credentials resolved, about to run the fencing CAS       *)
(*   dispatching  in_flight committed, about to call the provider          *)
(*   sent         request handed to the provider                           *)
(*   answered     the provider's answer is in hand, not yet recorded       *)
(***************************************************************************)
Answers == {"none", "ok", "rejected", "lost"}

Call == [pc      : {"idle", "requested", "claimed", "ready", "dispatching", "sent", "answered"},
         op      : Ops,
         content : Contents \cup {NoContent},
         gen     : Nat,
         answer  : Answers]

Provider == [calls : Nat,
             request : Contents \cup {NoContent},
             state : {"none", "received", "applied", "refused"}]

AnyOp == CHOOSE op \in Ops : TRUE

Idle == [pc |-> "idle", op |-> AnyOp, content |-> NoContent, gen |-> 0, answer |-> "none"]

ExecutorTypeOK ==
  /\ log \in [Ops -> Row]
  /\ call \in [Callers -> Call]
  /\ provider \in [Ops -> Provider]

ExecutorInit ==
  /\ log = [op \in Ops |-> NoRow]
  /\ call = [c \in Callers |-> Idle]
  /\ provider = [op \in Ops |-> [calls |-> 0, request |-> NoContent, state |-> "none"]]

Return(c) == call' = [call EXCEPT ![c] = Idle]

Goto(c, to) == call' = [call EXCEPT ![c].pc = to]

\* The payload revert() derives from the original is the same every time.
InverseContent == CHOOSE content \in Contents : TRUE

\* Mutant: a revert that does not look at the status of its original.
RequestAnyOriginal(c, op, content) ==
  /\ call[c].pc = "idle"
  /\ call' = [call EXCEPT ![c] = [Idle EXCEPT !.pc = "requested", !.op = op, !.content = content]]
  /\ UNCHANGED <<log, provider>>

(***************************************************************************)
(* A request enters.  revert() demands a succeeded original, read here and *)
(* not again before the claim.                                             *)
(***************************************************************************)
Request(c, op, content) ==
  /\ call[c].pc = "idle"
  /\ op \in Inverses => /\ log[Original[op]].status = "success"
                        /\ content = InverseContent
  /\ call' = [call EXCEPT ![c] = [Idle EXCEPT !.pc = "requested", !.op = op, !.content = content]]
  /\ UNCHANGED <<log, provider>>

\* The request is refused by a check before the claim (contained action,
\* kill switch, scope, payload, capability, guard, key, legacy alias), or
\* the key is taken and ResolveExisting answers it.  Neither dispatches.
Decline(c) ==
  /\ call[c].pc = "requested"
  /\ Return(c)
  /\ UNCHANGED <<log, provider>>

\* Mutant: an INSERT that no UNIQUE index refuses.
ClaimNoUnique(c) ==
  /\ call[c].pc = "requested"
  /\ log' = [log EXCEPT ![call[c].op] = Claimed(call[c].content)]
  /\ call' = [call EXCEPT ![c].pc = "claimed", ![c].gen = NoRow.gen]
  /\ UNCHANGED provider

\* INSERT of the pending row and its commit; the UNIQUE index lets one win.
\* The generation is the one of our own INSERT and is not read again.
Claim(c) ==
  LET op == call[c].op IN
  /\ call[c].pc = "requested"
  /\ log[op].status = "absent"
  /\ log' = [log EXCEPT ![op] = Claimed(call[c].content)]
  /\ call' = [call EXCEPT ![c].pc = "claimed", ![c].gen = NoRow.gen]
  /\ UNCHANGED provider

\* Account reference and token are read in the same session.
ResolveCredentials(c) ==
  /\ call[c].pc = "claimed"
  /\ Goto(c, "ready")
  /\ UNCHANGED <<log, provider>>

\* They cannot be resolved: the row is written by its id, whatever its
\* status and generation are by now.
PreDispatchFailure(c) ==
  /\ call[c].pc = "claimed"
  /\ log' = [log EXCEPT ![call[c].op].status = "failed"]
  /\ Return(c)
  /\ UNCHANGED provider

(***************************************************************************)
(* The fencing CAS and its commit.                                         *)
(***************************************************************************)
Fence(c) ==
  LET op == call[c].op IN
  /\ call[c].pc = "ready"
  /\ FenceWhere(log[op], call[c].gen)
  /\ log' = [log EXCEPT ![op] = TakeInFlight(@)]
  /\ Goto(c, "dispatching")
  /\ UNCHANGED provider

FenceLost(c) ==
  /\ call[c].pc = "ready"
  /\ ~FenceWhere(log[call[c].op], call[c].gen)
  /\ Return(c)
  /\ UNCHANGED <<log, provider>>

\* Mutant: the request goes on to the provider after a failed CAS.
FenceErrorIgnored(c) ==
  /\ call[c].pc = "ready"
  /\ Goto(c, "dispatching")
  /\ UNCHANGED <<log, provider>>

\* An SQLAlchemyError around the CAS or its commit: no dispatch.  When the
\* connection is lost while the COMMIT is acknowledged, the statement stands.
FenceError(c) ==
  LET op == call[c].op IN
  /\ call[c].pc = "ready"
  /\ \/ UNCHANGED log
     \/ /\ FenceWhere(log[op], call[c].gen)
        /\ log' = [log EXCEPT ![op] = TakeInFlight(@)]
  /\ Return(c)
  /\ UNCHANGED provider

(***************************************************************************)
(* _dispatch_and_finalize: one provider call, then the terminal commit.    *)
(***************************************************************************)
Dispatch(c) ==
  LET op == call[c].op IN
  /\ call[c].pc = "dispatching"
  /\ provider' = [provider EXCEPT ![op] = [calls   |-> @.calls + 1,
                                           request |-> call[c].content,
                                           state   |-> "received"]]
  /\ Goto(c, "sent")
  /\ UNCHANGED log

\* The marketplace acts on a request it received; external.
ProviderActs(op) ==
  /\ provider[op].state = "received"
  /\ \E outcome \in {"applied", "refused"} :
       provider' = [provider EXCEPT ![op].state = outcome]
  /\ UNCHANGED <<log, call>>

\* What the client may conclude: a 2xx, a clean refusal (4xx, 429, or an
\* exception before the request left), or a timeout / 5xx at any moment.
AnswerPossible(state, answer) ==
  \/ answer = "ok" /\ state = "applied"
  \/ answer = "rejected" /\ state = "refused"
  \/ answer = "lost"

Answer(c) ==
  /\ call[c].pc = "sent"
  /\ \E answer \in Answers \ {"none"} :
       /\ AnswerPossible(provider[call[c].op].state, answer)
       /\ call' = [call EXCEPT ![c].pc = "answered", ![c].answer = answer]
  /\ UNCHANGED <<log, provider>>

\* Mutant: a lost answer is taken for a refusal.
TerminalStatusNoAmbiguous(answer) ==
  IF answer = "ok" THEN "success" ELSE "failed"

\* Mutant: a lost answer is taken for a success.
TerminalStatusOptimistic(answer) ==
  IF answer = "rejected" THEN "failed" ELSE "success"

\* Mutant: the status of a request that never held a claim.
TerminalStatusRejected(answer) ==
  CASE answer = "ok"       -> "success"
    [] answer = "rejected" -> "rejected"
    [] answer = "lost"     -> "ambiguous"

\* The status each answer is recorded as: TIMEOUT and 5XX are ambiguous.
TerminalStatus(answer) ==
  CASE answer = "ok"       -> "success"
    [] answer = "rejected" -> "failed"
    [] answer = "lost"     -> "ambiguous"

\* Mutant: the original is left for a second commit.
TerminalLogInverseOnly(op, answer) ==
  [log EXCEPT ![op].status = TerminalStatus(answer),
              ![op].linked = @ \/ (op \in Inverses /\ answer = "ok")]

\* The succeeded inverse, its reverted_from link and the status of its
\* original change in one commit.
TerminalLog(op, answer) ==
  LET inverse == op \in Inverses /\ answer = "ok" IN
  [o \in Ops |->
     CASE o = op -> [log[o] EXCEPT !.status = TerminalStatus(answer),
                                   !.linked = @ \/ inverse]
       [] o # op /\ inverse /\ o = Original[op] /\ log[o].status = "success"
            -> [log[o] EXCEPT !.status = "reverted"]
       [] OTHER -> log[o]]

Finalize(c) ==
  /\ call[c].pc = "answered"
  /\ log' = TerminalLog(call[c].op, call[c].answer)
  /\ Return(c)
  /\ UNCHANGED provider

\* The coroutine ends without its next commit: process crash, cancellation,
\* a vault error, or a commit that raises.
Crash(c) ==
  /\ call[c].pc # "idle"
  /\ Return(c)
  /\ UNCHANGED <<log, provider>>
=============================================================================
