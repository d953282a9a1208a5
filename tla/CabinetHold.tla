---------------------------- MODULE CabinetHold ----------------------------
(***************************************************************************)
(* services/marketplace/ym_review_read_hold.py: the hold of one Yandex     *)
(* cabinet and who it admits.  Every managed read and every managed claim  *)
(* of a reply is admitted under the account's row lock; every 420 or 429   *)
(* that comes back is recorded under it.  A task is one coroutine; other   *)
(* tasks run whenever it awaits.                                           *)
(***************************************************************************)
EXTENDS Naturals, FiniteSets, FiniteSetsExt

CONSTANTS
  Tasks,      \* coroutines: requests, scheduler jobs, operator resumes
  NoTask,     \* nobody holds the lock
  Ops,        \* operation keys of replies under this cabinet
  MaxTime,    \* bound: the database clock stops here
  MaxDelay    \* bound: the largest Retry-After of the marketplace

ASSUME CabinetHoldAssumption ==
  /\ NoTask \notin Tasks
  /\ Ops # {}
  /\ MaxTime \in Nat
  /\ MaxDelay \in Nat

VARIABLES
  clock,     \* clock_timestamp() of the database
  hold,      \* ym_review_read_not_before, ym_review_read_indeterminate
  lock,      \* who holds the row lock of the account
  rows,      \* Ops -> state of the execution_logs row
  rowLock,   \* Ops -> who holds FOR UPDATE on it
  task,      \* Tasks -> local state of the coroutine
  sent,      \* Ops -> number of publications sent
  observed   \* history: what has been recorded of all responses

vars == <<clock, hold, lock, rows, rowLock, task, sent, observed>>

(***************************************************************************)
(* pc of a task:                                                           *)
(*   idle         no invocation                                            *)
(*   waiting      entering claim_admission, its timer runs                 *)
(*   locked       grant "open": the authority row is locked and read       *)
(*   granted      the savepoint is released, the lock is kept              *)
(*   committing   the claim is written, its COMMIT is out                  *)
(*   claimed      the commit was confirmed, the fence is next              *)
(*   dispatching  in_flight, about to send                                 *)
(*   sent         the publication is at the marketplace                    *)
(*   settling     its terminal commit is next                              *)
(*   reading      a read asks for admission                                *)
(*   read         a read is at the marketplace                             *)
(*   observing    a 420 or 429 is in hand                                  *)
(***************************************************************************)
Timed == {"waiting", "locked", "granted", "committing"}

Times == 0 .. MaxTime + MaxDelay    \* 0 is NULL, and never in the future

\* A header: absent, unreadable or duplicated, a date, or a delay.
Dates  == [kind : {"at"}, value : 1 .. MaxTime]
Delays == [kind : {"after"}, value : 0 .. MaxDelay]
Silent == [kind : {"absent", "malformed"}, value : {0}]

Headers == [resource : Silent \cup Dates,              \* X-RateLimit-Resource-Until
            retry    : Silent \cup Dates \cup Delays]  \* Retry-After

NoHeaders == [resource |-> [kind |-> "absent", value |-> 0],
              retry    |-> [kind |-> "absent", value |-> 0]]

Task == [pc      : {"idle", "claimed", "dispatching", "sent", "settling", "reading", "read",
                    "observing"} \cup Timed,
         kind    : {"execute", "resume", "read"},
         managed : BOOLEAN,            \* the credential is bound to the cabinet
         op      : Ops,
         seen    : Times,              \* the clock read under the lock
         permit  : BOOLEAN,            \* holds an unused FirstPermit
         headers : Headers,
         landed  : BOOLEAN,            \* history: its claim was committed
         outcome : {"none", "deferred", "uncertain", "answered", "done"}]

Fresh == [pc |-> "idle", kind |-> "read", managed |-> FALSE, op |-> CHOOSE op \in Ops : TRUE,
          seen |-> 0, permit |-> FALSE, headers |-> NoHeaders, landed |-> FALSE,
          outcome |-> "none"]

RowStates == {"absent", "pending", "in_flight", "done"}

TypeOK ==
  /\ clock \in 0 .. MaxTime
  /\ hold \in [until : Times, bad : BOOLEAN]
  /\ lock \in Tasks \cup {NoTask}
  /\ rows \in [Ops -> RowStates]
  /\ rowLock \in [Ops -> Tasks \cup {NoTask}]
  /\ task \in [Tasks -> Task]
  /\ sent \in [Ops -> Nat]
  /\ observed \in [bounds : SUBSET Times, bad : BOOLEAN]

Init ==
  /\ clock = 0
  /\ hold = [until |-> 0, bad |-> FALSE]
  /\ lock = NoTask
  /\ rows = [op \in Ops |-> "absent"]
  /\ rowLock = [op \in Ops |-> NoTask]
  /\ task = [t \in Tasks |-> Fresh]
  /\ sent = [op \in Ops |-> 0]
  /\ observed = [bounds |-> {}, bad |-> FALSE]

Tick ==
  /\ clock < MaxTime
  /\ clock' = clock + 1
  /\ UNCHANGED <<hold, lock, rows, rowLock, task, sent, observed>>

Goto(t, to) == task' = [task EXCEPT ![t].pc = to]

End(t, outcome) ==
  task' = [task EXCEPT ![t] = [@ EXCEPT !.pc = "idle", !.permit = FALSE, !.outcome = outcome]]

\* The locks of t go with its transaction.
Release(t) ==
  /\ lock' = IF lock = t THEN NoTask ELSE lock
  /\ rowLock' = [op \in Ops |-> IF rowLock[op] = t THEN NoTask ELSE rowLock[op]]

Held(until, bad, now) == bad \/ until > now

(***************************************************************************)
(* A claim begins.                                                         *)
(***************************************************************************)

\* execute(): no result is known for the key.  A credential that is missing,
\* or not proven to belong to the cabinet, takes the claim outside the hold.
Begin(t, op, managed) ==
  /\ task[t].pc = "idle"
  /\ rows[op] = "absent"
  /\ task' = [task EXCEPT ![t] = [Fresh EXCEPT !.pc = IF managed THEN "waiting" ELSE "granted",
                                               !.kind = "execute", !.managed = managed,
                                               !.op = op]]
  /\ UNCHANGED <<clock, hold, lock, rows, rowLock, sent, observed>>

\* operator_resume.resume(): the log row is locked before the account row.
BeginResume(t, op, managed) ==
  /\ task[t].pc = "idle"
  /\ rows[op] = "pending"
  /\ rowLock[op] = NoTask
  /\ rowLock' = [rowLock EXCEPT ![op] = t]
  /\ task' = [task EXCEPT ![t] = [Fresh EXCEPT !.pc = IF managed THEN "waiting" ELSE "granted",
                                               !.kind = "resume", !.managed = managed,
                                               !.op = op]]
  /\ UNCHANGED <<clock, hold, lock, rows, sent, observed>>

(***************************************************************************)
(* claim_admission and ClaimGrant.                                         *)
(***************************************************************************)

\* _locked_authority: the row lock first, the clock after it.
LockAuthority(t) ==
  /\ task[t].pc = "waiting"
  /\ lock = NoTask
  /\ lock' = t
  /\ task' = [task EXCEPT ![t].pc = "locked", ![t].seen = clock]
  /\ UNCHANGED <<clock, hold, rows, rowLock, sent, observed>>

\* rollback_unclaimed: the hold stands, or the cabinet, the connection or
\* the credential is no longer the one that was bound.
Deny(t) ==
  /\ task[t].pc = "locked"
  /\ End(t, "deferred")
  /\ Release(t)
  /\ UNCHANGED <<clock, hold, rows, sent, observed>>

\* rollback_unclaimed: the key was taken since the first look.
FoundExisting(t) ==
  /\ task[t].pc = "locked"
  /\ task[t].kind = "execute"
  /\ rows[task[t].op] # "absent"
  /\ End(t, "answered")
  /\ Release(t)
  /\ UNCHANGED <<clock, hold, rows, sent, observed>>

\* Mutant: the savepoint's release gives the lock up.
AllowReleasing(t) ==
  /\ task[t].pc = "locked"
  /\ ~Held(hold.until, hold.bad, task[t].seen)
  /\ task[t].kind = "execute" => rows[task[t].op] = "absent"
  /\ Goto(t, "granted")
  /\ lock' = NoTask
  /\ UNCHANGED <<clock, hold, rows, rowLock, sent, observed>>

\* allow_new_claim.
Allow(t) ==
  /\ task[t].pc = "locked"
  /\ ~Held(hold.until, hold.bad, task[t].seen)
  /\ task[t].kind = "execute" => rows[task[t].op] = "absent"
  /\ Goto(t, "granted")
  /\ UNCHANGED <<clock, hold, lock, rows, rowLock, sent, observed>>

\* INSERT of the claim; it waits for an uncommitted INSERT of the same key.
\* A resume's _RESUME_CAS instead updates the row it has locked.
Write(t) ==
  /\ task[t].pc = "granted"
  /\ task[t].kind = "execute" =>
       /\ rows[task[t].op] = "absent"
       /\ \A u \in Tasks : task[u].pc = "committing" => task[u].op # task[t].op
  /\ Goto(t, "committing")
  /\ UNCHANGED <<clock, hold, lock, rows, rowLock, sent, observed>>

\* The INSERT meets a committed row: rollback and the winner's answer.  The
\* audit or the CAS of a resume may miss as well.
Conflict(t) ==
  /\ task[t].pc = "granted"
  /\ task[t].kind = "execute" => rows[task[t].op] # "absent"
  /\ End(t, "answered")
  /\ Release(t)
  /\ UNCHANGED <<clock, hold, rows, sent, observed>>

Land(t) ==
  rows' = [rows EXCEPT ![task[t].op] = IF task[t].kind = "execute" THEN "pending" ELSE "in_flight"]

\* commit_claim returns.  A managed claim comes with its FirstPermit.
CommitConfirmed(t) ==
  /\ task[t].pc = "committing"
  /\ Land(t)
  /\ task' = [task EXCEPT ![t].pc = IF task[t].kind = "execute" THEN "claimed" ELSE "dispatching",
                          ![t].permit = task[t].managed,
                          ![t].landed = TRUE]
  /\ Release(t)
  /\ UNCHANGED <<clock, hold, sent, observed>>

\* Mutant: an unconfirmed commit is reported as a denial.
CommitUnconfirmedDeferred(t) ==
  /\ task[t].pc = "committing"
  /\ \/ Land(t) /\ task' = [task EXCEPT ![t].pc = "idle", ![t].outcome = "deferred",
                                        ![t].landed = TRUE]
     \/ UNCHANGED rows /\ End(t, "deferred")
  /\ Release(t)
  /\ UNCHANGED <<clock, hold, sent, observed>>

\* The deadline passes around the commit, or it raises: discarded, and
\* nobody knows whether the claim stands.
CommitUnconfirmed(t) ==
  /\ task[t].pc = "committing"
  /\ \/ Land(t) /\ task' = [task EXCEPT ![t].pc = "idle", ![t].outcome = "uncertain",
                                        ![t].landed = TRUE]
     \/ UNCHANGED rows /\ End(t, "uncertain")
  /\ Release(t)
  /\ UNCHANGED <<clock, hold, sent, observed>>

\* Mutant: the timer ends with the admission.
TimeoutBeforeGrant(t) ==
  /\ task[t].managed
  /\ task[t].pc \in {"waiting", "locked"}
  /\ End(t, "deferred")
  /\ Release(t)
  /\ UNCHANGED <<clock, hold, rows, sent, observed>>

\* The two-second timer before the commit: an open grant is rolled back, or
\* discarded when that fails; a granted one is discarded.
Timeout(t) ==
  /\ task[t].managed
  /\ \/ task[t].pc \in {"waiting", "locked"} /\ End(t, "deferred")
     \/ task[t].pc \in {"locked", "granted"} /\ End(t, "uncertain")
  /\ Release(t)
  /\ UNCHANGED <<clock, hold, rows, sent, observed>>

(***************************************************************************)
(* The fence, the one send, the terminal commit.                           *)
(***************************************************************************)
Fence(t) ==
  /\ task[t].pc = "claimed"
  /\ rowLock[task[t].op] = NoTask
  /\ rows[task[t].op] = "pending"
  /\ rows' = [rows EXCEPT ![task[t].op] = "in_flight"]
  /\ Goto(t, "dispatching")
  /\ UNCHANGED <<clock, hold, lock, rowLock, sent, observed>>

\* Mutant: a lost fence is not noticed.
FenceLostIgnored(t) ==
  /\ task[t].pc = "claimed"
  /\ rows[task[t].op] # "pending"
  /\ Goto(t, "dispatching")
  /\ UNCHANGED <<clock, hold, lock, rows, rowLock, sent, observed>>

\* The claim has moved on.
FenceLost(t) ==
  /\ task[t].pc = "claimed"
  /\ rows[task[t].op] # "pending"
  /\ End(t, "answered")
  /\ UNCHANGED <<clock, hold, lock, rows, rowLock, sent, observed>>

\* The claim of an unmanaged task fails for want of its credential.
NoCredential(t) ==
  /\ task[t].pc = "claimed"
  /\ ~task[t].managed
  /\ rowLock[task[t].op] = NoTask
  /\ rows' = [rows EXCEPT ![task[t].op] = "done"]
  /\ End(t, "done")
  /\ UNCHANGED <<clock, hold, lock, rowLock, sent, observed>>

\* admit_yandex_attempt of a publication: the permit is used up and neither
\* the database nor the hold is looked at again.
Send(t) ==
  /\ task[t].pc = "dispatching"
  /\ task[t].managed => task[t].permit
  /\ task' = [task EXCEPT ![t].pc = "sent", ![t].permit = FALSE]
  /\ sent' = [sent EXCEPT ![task[t].op] = @ + 1]
  /\ UNCHANGED <<clock, hold, lock, rows, rowLock, observed>>

\* Any answer but 420 and 429, or none.
Answer(t) ==
  /\ task[t].pc = "sent"
  /\ Goto(t, "settling")
  /\ UNCHANGED <<clock, hold, lock, rows, rowLock, sent, observed>>

Settle(t) ==
  /\ task[t].pc = "settling"
  /\ rowLock[task[t].op] = NoTask
  /\ rows' = [rows EXCEPT ![task[t].op] = "done"]
  /\ End(t, "done")
  /\ UNCHANGED <<clock, hold, lock, rowLock, sent, observed>>

(***************************************************************************)
(* Managed reads.                                                          *)
(***************************************************************************)
BeginRead(t) ==
  /\ task[t].pc = "idle"
  /\ task' = [task EXCEPT ![t] = [Fresh EXCEPT !.pc = "reading", !.managed = TRUE]]
  /\ UNCHANGED <<clock, hold, lock, rows, rowLock, sent, observed>>

\* _authority(managed): lock, clock, check and commit are one transaction.
AdmitRead(t) ==
  /\ task[t].pc = "reading"
  /\ lock = NoTask
  /\ ~Held(hold.until, hold.bad, clock)
  /\ task' = [task EXCEPT ![t].pc = "read", ![t].seen = clock]
  /\ UNCHANGED <<clock, hold, lock, rows, rowLock, sent, observed>>

\* The hold stands, or the authority cannot be asked.
DenyRead(t) ==
  /\ task[t].pc = "reading"
  /\ End(t, "deferred")
  /\ UNCHANGED <<clock, hold, lock, rows, rowLock, sent, observed>>

ReadDone(t) ==
  /\ task[t].pc = "read"
  /\ End(t, "done")
  /\ UNCHANGED <<clock, hold, lock, rows, rowLock, sent, observed>>

\* A timeout or 5xx of a repeat-safe read: the next attempt asks again.
RetryRead(t) ==
  /\ task[t].pc = "read"
  /\ Goto(t, "reading")
  /\ UNCHANGED <<clock, hold, lock, rows, rowLock, sent, observed>>

(***************************************************************************)
(* A 420 or 429 arrives, and its headers are recorded.                     *)
(***************************************************************************)
Throttled(t, headers) ==
  /\ task[t].pc \in {"sent", "read"}
  /\ task[t].managed
  /\ task' = [task EXCEPT ![t].pc = "observing", ![t].headers = headers]
  /\ UNCHANGED <<clock, hold, lock, rows, rowLock, sent, observed>>

\* _hints: the bounds that can be read, and whether one could not be.
Bounds(headers, now) ==
  {headers[h].value : h \in {g \in DOMAIN headers : headers[g].kind = "at"}}
    \cup {now + headers[h].value : h \in {g \in DOMAIN headers : headers[g].kind = "after"}}

Malformed(headers) == \E h \in DOMAIN headers : headers[h].kind = "malformed"

\* Mutant: the last response decides.
RecordedLast(headers, now) ==
  [until |-> Max(Bounds(headers, now) \cup {0}), bad |-> Malformed(headers)]

\* The UPDATE: not_before only grows, indeterminate only rises.
Recorded(headers, now) ==
  [until |-> Max(Bounds(headers, now) \cup {hold.until}),
   bad   |-> hold.bad \/ Malformed(headers)]

AfterObserving(t) ==
  IF task[t].kind = "read" THEN End(t, "deferred") ELSE Goto(t, "settling")

\* _authority(managed, response), one transaction under the row lock.
Observe(t) ==
  LET headers == task[t].headers IN
  /\ task[t].pc = "observing"
  /\ lock = NoTask
  /\ hold' = Recorded(headers, clock)
  /\ observed' = [bounds |-> observed.bounds \cup Bounds(headers, clock),
                  bad    |-> observed.bad \/ Malformed(headers)]
  /\ AfterObserving(t)
  /\ UNCHANGED <<clock, lock, rows, rowLock, sent>>

\* It times out, or the cabinet is no longer ours: nothing is recorded, and
\* this task sends no more.
ObserveFails(t) ==
  /\ task[t].pc = "observing"
  /\ AfterObserving(t)
  /\ UNCHANGED <<clock, hold, lock, rows, rowLock, sent, observed>>

\* The process dies or the task is cancelled; a COMMIT that is out may land.
Crash(t) ==
  /\ task[t].pc # "idle"
  /\ \/ UNCHANGED rows /\ End(t, "none")
     \/ /\ task[t].pc = "committing"
        /\ Land(t)
        /\ task' = [task EXCEPT ![t].pc = "idle", ![t].landed = TRUE]
  /\ Release(t)
  /\ UNCHANGED <<clock, hold, sent, observed>>

TaskNext(t) ==
  \/ \E op \in Ops, managed \in BOOLEAN : Begin(t, op, managed) \/ BeginResume(t, op, managed)
  \/ LockAuthority(t)
  \/ Deny(t)
  \/ FoundExisting(t)
  \/ Allow(t)
  \/ Write(t)
  \/ Conflict(t)
  \/ CommitConfirmed(t)
  \/ CommitUnconfirmed(t)
  \/ Timeout(t)
  \/ Fence(t)
  \/ FenceLost(t)
  \/ NoCredential(t)
  \/ Send(t)
  \/ Answer(t)
  \/ Settle(t)
  \/ BeginRead(t)
  \/ AdmitRead(t)
  \/ DenyRead(t)
  \/ ReadDone(t)
  \/ RetryRead(t)
  \/ \E headers \in Headers : Throttled(t, headers)
  \/ Observe(t)
  \/ ObserveFails(t)
  \/ Crash(t)

Next == Tick \/ \E t \in Tasks : TaskNext(t)

Spec == Init /\ [][Next]_vars

(***************************************************************************)
(* Safety.                                                                 *)
(***************************************************************************)

\* Responses arrive in any order, each with a moment of its own, and still
\* the hold covers every one that was recorded; an unreadable one holds the
\* cabinet for good.
HoldCoversObservations ==
  /\ \A bound \in observed.bounds : bound <= hold.until
  /\ observed.bad => hold.bad

\* YM_CABINET_SAFETY_HOLD.md: "Denied admission creates no claim or attempt",
\* and a timeout "once commit is attempted is uncertain, not a proven
\* unclaimed deferral".
DeferredLeavesNoClaim ==
  \A t \in Tasks : task[t].outcome = "deferred" => ~task[t].landed

\* One publication is sent per key, by whoever claims it and whoever resumes
\* it, and only once a confirmed commit has taken the row in_flight.
OneSendPerClaim ==
  \A op \in Ops : /\ sent[op] <= 1
                  /\ sent[op] = 1 => rows[op] \in {"in_flight", "done"}

\* The keys whose claim has landed, and what was sent under them, are those of
\* AtMostOnceOperation; what the marketplace makes of a reply is not part of
\* this module.
Abstract ==
  INSTANCE AtMostOnceOperation WITH
    claimed <- {op \in Ops : rows[op] # "absent"},
    applied <- {}

\* First requests and resumes, managed or not, claim before they send and send
\* once, although nobody looks at the row between the fence and the send
\* (ym_review_read_hold.py, FirstPermit).
ImplementsAtMostOnce == Abstract!AbsSpec

\* "The account authority lock is held through that transaction's confirmed
\* commit": no managed claim lands after a hold that its admission did not
\* see was recorded.
ClaimHonoursHold ==
  [][\A t \in Tasks :
       task[t].managed /\ ~task[t].landed /\ task'[t].landed =>
         /\ \A bound \in observed.bounds : bound <= task[t].seen
         /\ ~observed.bad]_vars

(***************************************************************************)
(* Liveness.                                                               *)
(***************************************************************************)

\* The event loop runs its timers; nothing else is promised to go on.
TimerFairness == \A t \in Tasks : WF_vars(Timeout(t)) /\ WF_vars(CommitUnconfirmed(t))

FairSpec == Spec /\ TimerFairness

\* "The admission-to-claim-commit section has a bounded database budget": no
\* managed task waits for the cabinet, or keeps its lock, for ever.
AdmissionEnds ==
  \A t \in Tasks :
    task[t].managed /\ task[t].pc \in Timed ~> task[t].pc \notin Timed
=============================================================================
