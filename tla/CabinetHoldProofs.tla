-------------------------- MODULE CabinetHoldProofs -------------------------
(***************************************************************************)
(* What CabinetHold promises, for any number of tasks and keys and any     *)
(* bound of the clock and of the delays.  The argument is about one task   *)
(* at a time: what its place in the code says of the lock, of the hold, of *)
(* its row and of what was sent, and that no other task can disturb it.    *)
(***************************************************************************)
EXTENDS CabinetHold, TLAPS

(***************************************************************************)
(* The inductive invariant.                                                *)
(***************************************************************************)
\* Whoever was admitted holds the cabinet's lock to its commit, and has seen
\* a clock that the hold, unchanged since, allows.
Admitted(t, q) ==
  /\ q.pc \in {"waiting", "locked"} => q.managed
  /\ q.managed /\ q.pc \in {"locked", "granted", "committing"} => lock = t
  /\ q.managed /\ q.pc \in {"granted", "committing"} => hold.until <= q.seen /\ ~hold.bad

\* Nothing has landed while an admission may still be deferred.
Deferrable(q) ==
  /\ q.pc # "idle" => q.outcome = "none"
  /\ q.pc \in Timed => q.kind # "read" /\ ~q.landed
  /\ q.pc \in {"reading", "read"} => q.kind = "read"
  /\ q.kind = "read" => ~q.landed
  /\ q.outcome = "deferred" => ~q.landed

\* A resume has its pending row locked, an open INSERT is of a key nobody has,
\* who is about to send under a key is the first to do so, and a row stays.
Claiming(t, q) ==
  /\ q.pc \in Timed /\ q.kind = "resume" => rowLock[q.op] = t /\ rows[q.op] = "pending"
  /\ q.pc = "committing" /\ q.kind = "execute" => rows[q.op] = "absent"
  /\ q.pc = "dispatching" => rows[q.op] \in {"in_flight", "done"} /\ sent[q.op] = 0
  /\ q.pc \in {"claimed", "sent", "settling"} \/ (q.pc = "observing" /\ q.kind # "read") =>
       rows[q.op] # "absent"

Sound(t, q) == Admitted(t, q) /\ Deferrable(q) /\ Claiming(t, q)

Inserting(q) == q.pc = "committing" /\ q.kind = "execute"

\* One open INSERT and one sender per key.
Alone ==
  \A t, u \in Tasks :
    t # u /\ task[t].op = task[u].op =>
      /\ ~(Inserting(task[t]) /\ Inserting(task[u]))
      /\ ~(task[t].pc = "dispatching" /\ task[u].pc = "dispatching")

HoldInv ==
  /\ TypeOK
  /\ \A t \in Tasks : Sound(t, task[t])
  /\ Alone
  /\ OneSendPerClaim
  /\ HoldCoversObservations

LEMMA FreshIsTask == Fresh \in Task
BY CabinetHoldAssumption DEF Fresh, Task, Timed, Times, NoHeaders, Headers, Silent, Dates, Delays

LEMMA HoldInit == Init => HoldInv
<1> SUFFICES ASSUME Init PROVE HoldInv
  OBVIOUS
<1>1. Fresh \in Task
  BY FreshIsTask
<1>2. TypeOK
  BY <1>1, CabinetHoldAssumption DEF Init, TypeOK, Times, RowStates
<1>3. \A t \in Tasks : Sound(t, task[t])
  BY DEF Init, Fresh, Sound, Admitted, Deferrable, Claiming, Timed
<1>4. Alone
  BY DEF Init, Fresh, Alone, Inserting
<1>5. OneSendPerClaim /\ HoldCoversObservations
  BY DEF Init, OneSendPerClaim, HoldCoversObservations
<1> QED
  BY <1>2, <1>3, <1>4, <1>5 DEF HoldInv

(***************************************************************************)
(* One step of one task.                                                   *)
(***************************************************************************)
\* What a step keeps of a task that goes to another place.
Same(new, q) ==
  /\ new.kind = q.kind /\ new.managed = q.managed /\ new.op = q.op /\ new.seen = q.seen
  /\ new.landed = q.landed

Places == {"idle", "claimed", "dispatching", "sent", "settling", "reading", "read",
           "observing"} \cup Timed

LEMMA Going ==
  ASSUME TypeOK, NEW t \in Tasks, NEW to \in Places, Goto(t, to)
  PROVE  \E new \in Task : /\ task' = [task EXCEPT ![t] = new]
                           /\ new.pc = to /\ new.outcome = task[t].outcome
                           /\ Same(new, task[t])
<1>1. task[t] \in Task
  BY DEF TypeOK
<1>2. [task[t] EXCEPT !.pc = to] \in Task
  BY <1>1 DEF Task, Places
<1>3. task' = [task EXCEPT ![t] = [task[t] EXCEPT !.pc = to]]
  BY DEF Goto
<1> QED
  BY <1>1, <1>2, <1>3 DEF Task, Same

LEMMA Ending ==
  ASSUME TypeOK, NEW t \in Tasks,
         NEW outcome \in {"none", "deferred", "uncertain", "answered", "done"}, End(t, outcome)
  PROVE  \E new \in Task : /\ task' = [task EXCEPT ![t] = new]
                           /\ new.pc = "idle" /\ new.outcome = outcome
                           /\ Same(new, task[t])
<1>1. task[t] \in Task
  BY DEF TypeOK
<1> DEFINE new == [task[t] EXCEPT !.pc = "idle", !.permit = FALSE, !.outcome = outcome]
<1>2. new \in Task
  BY <1>1 DEF Task
<1>3. task' = [task EXCEPT ![t] = new]
  BY DEF End
<1>4. new.pc = "idle" /\ new.outcome = outcome
  BY <1>1 DEF Task
<1>5. Same(new, task[t])
  BY <1>1 DEF Task, Same
<1> HIDE DEF new
<1> QED
  BY <1>2, <1>3, <1>4, <1>5

\* A step of t takes or gives up locks of t only.
LocksKept(t) ==
  /\ lock' \in Tasks \cup {NoTask}
  /\ lock' # lock => lock \in {t, NoTask}
  /\ rowLock' \in [Ops -> Tasks \cup {NoTask}]
  /\ \A op \in Ops : rowLock'[op] # rowLock[op] => rowLock[op] \in {t, NoTask}

\* It writes a row that others have not locked, inserts what it was about to
\* insert, and deletes nothing.
RowsKept(t) ==
  /\ rows' \in [Ops -> RowStates]
  /\ \A op \in Ops : rows'[op] # rows[op] =>
       /\ rows[op] = "absent" => Inserting(task[t]) /\ task[t].op = op
       /\ rows[op] # "absent" => rowLock[op] \in {t, NoTask}
       /\ rows[op] \in {"in_flight", "done"} => rows'[op] \in {"in_flight", "done"}
       /\ rows'[op] # "absent"

\* What the other tasks rely on.
LEMMA OthersSound ==
  ASSUME HoldInv, NEW t \in Tasks, NEW new, task' = [task EXCEPT ![t] = new],
         UNCHANGED hold \/ lock = NoTask,
         LocksKept(t), RowsKept(t),
         \A op \in Ops : sent'[op] # sent[op] => task[t].pc = "dispatching" /\ task[t].op = op
  PROVE  \A u \in Tasks \ {t} : task'[u] = task[u] /\ Sound(u, task[u])'
<1> SUFFICES ASSUME NEW u \in Tasks \ {t}
             PROVE  task'[u] = task[u] /\ Sound(u, task[u])'
  OBVIOUS
<1>1. /\ task'[u] = task[u] /\ Sound(u, task[u])
      /\ task[u].op \in Ops /\ u # NoTask
  BY CabinetHoldAssumption DEF HoldInv, TypeOK, Task
<1>2. Admitted(u, task[u])'
  BY <1>1 DEF Sound, Admitted, LocksKept
<1>3. Deferrable(task[u])'
  BY <1>1 DEF Sound, Deferrable
<1>4. Claiming(u, task[u])'
  BY <1>1 DEF Sound, Claiming, HoldInv, Alone, Inserting, LocksKept, RowsKept
<1> QED
  BY <1>1, <1>2, <1>3, <1>4 DEF Sound

\* A step that records no response and sends nothing.
LEMMA TaskStep ==
  ASSUME HoldInv, NEW t \in Tasks, NEW new \in Task, task' = [task EXCEPT ![t] = new],
         UNCHANGED <<clock, hold, sent, observed>>,
         LocksKept(t), RowsKept(t),
         Sound(t, new)',
         \A u \in Tasks \ {t} : task[u].op = new.op =>
           /\ ~(Inserting(new) /\ Inserting(task[u]))
           /\ ~(new.pc = "dispatching" /\ task[u].pc = "dispatching")
  PROVE  HoldInv'
<1>1. TypeOK'
  BY DEF HoldInv, TypeOK, LocksKept, RowsKept
<1>2. \A u \in Tasks \ {t} : task'[u] = task[u] /\ Sound(u, task[u])'
  BY OthersSound
<1>3. task'[t] = new
  BY DEF HoldInv, TypeOK
<1>4. \A u \in Tasks : Sound(u, task[u])'
  BY <1>2, <1>3
<1>5. Alone'
  BY <1>2, <1>3 DEF HoldInv, Alone, Inserting
<1>6. OneSendPerClaim' /\ HoldCoversObservations'
  BY DEF HoldInv, OneSendPerClaim, HoldCoversObservations, TypeOK, RowStates, RowsKept
<1> QED
  BY <1>1, <1>4, <1>5, <1>6 DEF HoldInv

LEMMA SameLocks ==
  ASSUME HoldInv, NEW t \in Tasks, UNCHANGED <<lock, rowLock>>
  PROVE  LocksKept(t)
BY DEF LocksKept, HoldInv, TypeOK

LEMMA SameRows ==
  ASSUME HoldInv, NEW t \in Tasks, UNCHANGED rows
  PROVE  RowsKept(t)
BY DEF RowsKept, HoldInv, TypeOK

LEMMA Releasing ==
  ASSUME HoldInv, NEW t \in Tasks, Release(t)
  PROVE  LocksKept(t)
BY DEF LocksKept, HoldInv, TypeOK, Release

LEMMA Landing ==
  ASSUME HoldInv, NEW t \in Tasks, task[t].pc = "committing", Land(t)
  PROVE  RowsKept(t)
<1>1. task[t] \in Task /\ Sound(t, task[t])
  BY DEF HoldInv, TypeOK
<1>2. task[t].op \in Ops /\ task[t].kind \in {"execute", "resume"}
  BY <1>1 DEF Task, Sound, Deferrable, Timed
<1> QED
  BY <1>1, <1>2 DEF RowsKept, Land, HoldInv, TypeOK, RowStates, Sound, Claiming, Inserting, Timed

\* The end of an invocation, with its locks and perhaps its row.
LEMMA EndStep ==
  ASSUME HoldInv, NEW t \in Tasks,
         NEW outcome \in {"none", "deferred", "uncertain", "answered", "done"}, End(t, outcome),
         outcome = "deferred" => ~task[t].landed,
         UNCHANGED <<clock, hold, sent, observed>>,
         LocksKept(t), RowsKept(t)
  PROVE  HoldInv'
<1>1. PICK new \in Task : /\ task' = [task EXCEPT ![t] = new]
                          /\ new.pc = "idle" /\ new.outcome = outcome
                          /\ Same(new, task[t])
  BY Ending DEF HoldInv
<1>2. Sound(t, new)'
  BY <1>1 DEF HoldInv, Sound, Admitted, Deferrable, Claiming, Same, Timed
<1> QED
  BY <1>1, <1>2, TaskStep DEF Inserting

\* A step from one place to another that leaves the rows and the locks alone.
LEMMA GoStep ==
  ASSUME HoldInv, NEW t \in Tasks, NEW to \in Places, Goto(t, to),
         UNCHANGED <<clock, hold, lock, rows, rowLock, sent, observed>>,
         \A new \in Task : new.pc = to /\ new.outcome = task[t].outcome /\ Same(new, task[t])
           => Sound(t, new),
         to \notin {"committing", "dispatching"}
  PROVE  HoldInv'
<1>1. PICK new \in Task : /\ task' = [task EXCEPT ![t] = new]
                          /\ new.pc = to /\ new.outcome = task[t].outcome
                          /\ Same(new, task[t])
  BY Going DEF HoldInv
<1>2. Sound(t, new)'
  BY <1>1 DEF Sound, Admitted, Deferrable, Claiming
<1> QED
  BY <1>1, <1>2, TaskStep, SameLocks, SameRows DEF Inserting

(***************************************************************************)
(* The steps of an admission.                                              *)
(***************************************************************************)
LEMMA BeginStep ==
  ASSUME HoldInv, NEW t \in Tasks, NEW op \in Ops, NEW managed \in BOOLEAN,
         Begin(t, op, managed) \/ BeginResume(t, op, managed)
  PROVE  HoldInv'
<1> DEFINE kind == IF rows[op] = "absent" THEN "execute" ELSE "resume"
           after == [Fresh EXCEPT !.pc = IF managed THEN "waiting" ELSE "granted",
                                  !.kind = kind, !.managed = managed, !.op = op]
<1>1. Fresh \in Task
  BY FreshIsTask
<1>2. after \in Task
  BY <1>1 DEF Task, Timed
<1>3. /\ after.pc \in {"waiting", "granted"} /\ after.kind = kind /\ after.managed = managed
      /\ after.op = op /\ ~after.landed /\ after.outcome = "none"
      /\ managed => after.pc = "waiting"
      /\ ~managed => after.pc = "granted"
  BY <1>1 DEF Fresh
<1>4. task' = [task EXCEPT ![t] = after]
  BY DEF Begin, BeginResume
<1> HIDE DEF after
<1>5. PICK new \in Task :
         /\ task' = [task EXCEPT ![t] = new]
         /\ new.pc \in {"waiting", "granted"} /\ new.kind = kind /\ new.managed = managed
         /\ new.op = op /\ ~new.landed /\ new.outcome = "none"
         /\ managed => new.pc = "waiting"
         /\ ~managed => new.pc = "granted"
  BY <1>2, <1>3, <1>4
<1>6. LocksKept(t) /\ RowsKept(t)
  BY SameRows DEF Begin, BeginResume, LocksKept, HoldInv, TypeOK
<1>7. kind = "resume" => rows'[op] = "pending" /\ rowLock'[op] = t
  BY DEF Begin, BeginResume, HoldInv, TypeOK
<1>8. Sound(t, new)'
  BY <1>5, <1>7 DEF Sound, Admitted, Deferrable, Claiming, Timed
<1>9. UNCHANGED <<clock, hold, sent, observed>>
  BY DEF Begin, BeginResume
<1> QED
  BY <1>5, <1>6, <1>8, <1>9, TaskStep DEF Inserting

LEMMA LockStep ==
  ASSUME HoldInv, NEW t \in Tasks, LockAuthority(t)
  PROVE  HoldInv'
<1> DEFINE after == [task[t] EXCEPT !.pc = "locked", !.seen = clock]
<1>1. task[t] \in Task /\ clock \in Times /\ Sound(t, task[t])
  BY CabinetHoldAssumption DEF HoldInv, TypeOK, Times
<1>2. after \in Task
  BY <1>1 DEF Task, Timed
<1>3. /\ after.pc = "locked" /\ after.outcome = task[t].outcome /\ after.kind = task[t].kind
      /\ after.managed = task[t].managed /\ after.op = task[t].op /\ after.landed = task[t].landed
  BY <1>1 DEF Task
<1>4. task' = [task EXCEPT ![t] = after]
  BY DEF LockAuthority
<1> HIDE DEF after
<1>5. PICK new \in Task :
         /\ task' = [task EXCEPT ![t] = new]
         /\ new.pc = "locked" /\ new.outcome = task[t].outcome /\ new.kind = task[t].kind
         /\ new.managed = task[t].managed /\ new.op = task[t].op /\ new.landed = task[t].landed
  BY <1>2, <1>3, <1>4
<1>6. LocksKept(t) /\ RowsKept(t)
  BY SameRows DEF LockAuthority, LocksKept, HoldInv, TypeOK
<1>7. Sound(t, new)'
  BY <1>1, <1>5 DEF LockAuthority, Sound, Admitted, Deferrable, Claiming, Timed
<1>8. UNCHANGED <<clock, hold, sent, observed>>
  BY DEF LockAuthority
<1> QED
  BY <1>5, <1>6, <1>7, <1>8, TaskStep DEF Inserting

LEMMA AllowStep ==
  ASSUME HoldInv, NEW t \in Tasks, Allow(t)
  PROVE  HoldInv'
<1>1. task[t] \in Task /\ hold \in [until : Times, bad : BOOLEAN] /\ Sound(t, task[t])
  BY DEF HoldInv, TypeOK
<1>2. hold.until <= task[t].seen /\ ~hold.bad /\ task[t].pc = "locked"
  BY <1>1, CabinetHoldAssumption DEF Allow, Held, Task, Times
<1>3. ASSUME NEW new \in Task, new.pc = "granted", new.outcome = task[t].outcome,
             Same(new, task[t])
      PROVE  Sound(t, new)
  BY <1>1, <1>2, <1>3 DEF Same, Sound, Admitted, Deferrable, Claiming, Timed
<1>4. "granted" \in Places /\ Goto(t, "granted")
  BY DEF Places, Timed, Allow
<1>5. UNCHANGED <<clock, hold, lock, rows, rowLock, sent, observed>>
  BY DEF Allow
<1> QED
  BY <1>3, <1>4, <1>5, GoStep

LEMMA WriteStep ==
  ASSUME HoldInv, NEW t \in Tasks, Write(t)
  PROVE  HoldInv'
<1>1. "committing" \in Places /\ Goto(t, "committing")
  BY DEF Places, Timed, Write
<1>2. PICK new \in Task : /\ task' = [task EXCEPT ![t] = new]
                          /\ new.pc = "committing" /\ new.outcome = task[t].outcome
                          /\ Same(new, task[t])
  BY <1>1, Going DEF HoldInv
<1>3. /\ UNCHANGED <<clock, hold, lock, rows, rowLock, sent, observed>>
      /\ task[t].pc = "granted" /\ Sound(t, task[t])
      /\ task[t].kind = "execute" =>
           /\ rows[task[t].op] = "absent"
           /\ \A u \in Tasks : task[u].pc = "committing" => task[u].op # task[t].op
  BY DEF Write, HoldInv
<1>4. Sound(t, new)'
  BY <1>2, <1>3 DEF Same, Sound, Admitted, Deferrable, Claiming, Timed
<1>5. \A u \in Tasks \ {t} : task[u].op = new.op => ~(Inserting(new) /\ Inserting(task[u]))
  BY <1>2, <1>3 DEF Same, Inserting
<1> QED
  BY <1>2, <1>3, <1>4, <1>5, TaskStep, SameLocks, SameRows

LEMMA CommitStep ==
  ASSUME HoldInv, NEW t \in Tasks, CommitConfirmed(t)
  PROVE  HoldInv'
<1> DEFINE to == IF task[t].kind = "execute" THEN "claimed" ELSE "dispatching"
           after == [task[t] EXCEPT !.pc = to, !.permit = task[t].managed, !.landed = TRUE]
<1>1. task[t] \in Task /\ Sound(t, task[t]) /\ task[t].pc = "committing"
  BY DEF HoldInv, TypeOK, CommitConfirmed
<1>2. after \in Task
  BY <1>1 DEF Task
<1>3. /\ after.pc = to /\ after.outcome = task[t].outcome /\ after.kind = task[t].kind
      /\ after.managed = task[t].managed /\ after.op = task[t].op /\ after.landed
  BY <1>1 DEF Task
<1>4. task' = [task EXCEPT ![t] = after]
  BY DEF CommitConfirmed
<1> HIDE DEF after
<1>5. PICK new \in Task :
         /\ task' = [task EXCEPT ![t] = new]
         /\ new.pc = to /\ new.outcome = task[t].outcome /\ new.kind = task[t].kind
         /\ new.managed = task[t].managed /\ new.op = task[t].op /\ new.landed
  BY <1>2, <1>3, <1>4
<1>6. LocksKept(t) /\ RowsKept(t)
  BY <1>1, Releasing, Landing DEF CommitConfirmed
<1>7. UNCHANGED <<clock, hold, sent, observed>> /\ Land(t)
  BY DEF CommitConfirmed
<1>8. task[t].op \in Ops /\ task[t].kind \in {"execute", "resume"} /\ task[t].outcome = "none"
  BY <1>1 DEF Task, Sound, Deferrable, Timed
<1>9. rows'[task[t].op] = IF task[t].kind = "execute" THEN "pending" ELSE "in_flight"
  BY <1>7, <1>8 DEF Land, HoldInv, TypeOK
<1>10. task[t].kind = "resume" => rows[task[t].op] = "pending" /\ sent[task[t].op] = 0
  BY <1>1, <1>8 DEF Sound, Claiming, Timed, HoldInv, OneSendPerClaim, TypeOK
<1>11. Sound(t, new)'
  BY <1>5, <1>7, <1>8, <1>9, <1>10 DEF Sound, Admitted, Deferrable, Claiming, Timed
<1>12. \A u \in Tasks \ {t} : task[u].op = new.op =>
         ~(new.pc = "dispatching" /\ task[u].pc = "dispatching")
  BY <1>5, <1>8, <1>10 DEF HoldInv, Sound, Claiming
<1>13. ~Inserting(new)
  BY <1>5 DEF Inserting
<1> QED
  BY <1>5, <1>6, <1>7, <1>11, <1>12, <1>13, TaskStep

\* A COMMIT that lands and whose worker stops there.
LEMMA LandAndStop ==
  ASSUME HoldInv, NEW t \in Tasks, task[t].pc = "committing", Land(t), Release(t),
         UNCHANGED <<clock, hold, sent, observed>>,
         NEW outcome \in {"none", "uncertain"},
         task' = [task EXCEPT ![t] = [task[t] EXCEPT !.pc = "idle", !.outcome = outcome,
                                                     !.landed = TRUE]]
  PROVE  HoldInv'
<1> DEFINE after == [task[t] EXCEPT !.pc = "idle", !.outcome = outcome, !.landed = TRUE]
<1>1. task[t] \in Task /\ Sound(t, task[t])
  BY DEF HoldInv, TypeOK
<1>2. after \in Task
  BY <1>1 DEF Task
<1>3. after.pc = "idle" /\ after.outcome = outcome /\ after.kind = task[t].kind
  BY <1>1 DEF Task
<1>4. task' = [task EXCEPT ![t] = after]
  OBVIOUS
<1> HIDE DEF after
<1>5. PICK new \in Task :
         /\ task' = [task EXCEPT ![t] = new]
         /\ new.pc = "idle" /\ new.outcome = outcome /\ new.kind = task[t].kind
  BY <1>2, <1>3, <1>4
<1>6. LocksKept(t) /\ RowsKept(t)
  BY Releasing, Landing
<1>7. Sound(t, new)'
  BY <1>1, <1>5 DEF Sound, Admitted, Deferrable, Claiming, Timed
<1> QED
  BY <1>5, <1>6, <1>7, TaskStep DEF Inserting

LEMMA UnconfirmedStep ==
  ASSUME HoldInv, NEW t \in Tasks, CommitUnconfirmed(t)
  PROVE  HoldInv'
<1>1. task[t].pc = "committing" /\ Release(t) /\ UNCHANGED <<clock, hold, sent, observed>>
  BY DEF CommitUnconfirmed
<1>2. CASE Land(t) /\ task' = [task EXCEPT ![t].pc = "idle", ![t].outcome = "uncertain",
                                           ![t].landed = TRUE]
  BY <1>1, <1>2, LandAndStop
<1>3. CASE UNCHANGED rows /\ End(t, "uncertain")
  BY <1>1, <1>3, EndStep, Releasing, SameRows
<1> QED
  BY <1>2, <1>3 DEF CommitUnconfirmed

LEMMA CrashStep ==
  ASSUME HoldInv, NEW t \in Tasks, Crash(t)
  PROVE  HoldInv'
<1>1. Release(t) /\ UNCHANGED <<clock, hold, sent, observed>>
  BY DEF Crash
<1>2. CASE UNCHANGED rows /\ End(t, "none")
  BY <1>1, <1>2, EndStep, Releasing, SameRows
<1>3. CASE /\ task[t].pc = "committing"
           /\ Land(t)
           /\ task' = [task EXCEPT ![t].pc = "idle", ![t].landed = TRUE]
  <2>1. task[t] \in Task /\ task[t].outcome = "none"
    BY <1>3 DEF HoldInv, TypeOK, Sound, Deferrable
  <2>2. \A q \in Task : q.outcome = "none" =>
          [q EXCEPT !.pc = "idle", !.landed = TRUE]
            = [q EXCEPT !.pc = "idle", !.outcome = "none", !.landed = TRUE]
    BY DEF Task
  <2>3. task' = [task EXCEPT ![t] = [task[t] EXCEPT !.pc = "idle", !.landed = TRUE]]
    BY <1>3
  <2>4. task' = [task EXCEPT ![t] = [task[t] EXCEPT !.pc = "idle", !.outcome = "none",
                                                    !.landed = TRUE]]
    BY <2>1, <2>2, <2>3
  <2> QED
    BY <1>1, <1>3, <2>4, LandAndStop
<1> QED
  BY <1>2, <1>3 DEF Crash

LEMMA TimeoutStep ==
  ASSUME HoldInv, NEW t \in Tasks, Timeout(t)
  PROVE  HoldInv'
<1>1. LocksKept(t) /\ RowsKept(t) /\ UNCHANGED <<clock, hold, sent, observed>>
  BY Releasing, SameRows DEF Timeout
<1>2. CASE task[t].pc \in {"waiting", "locked"} /\ End(t, "deferred")
  <2>1. ~task[t].landed
    BY <1>2 DEF HoldInv, Sound, Deferrable, Timed
  <2> QED
    BY <1>1, <1>2, <2>1, EndStep
<1>3. CASE End(t, "uncertain")
  BY <1>1, <1>3, EndStep
<1> QED
  BY <1>2, <1>3 DEF Timeout

\* The other ways an admission ends.
LEMMA RefusedStep ==
  ASSUME HoldInv, NEW t \in Tasks, Deny(t) \/ FoundExisting(t) \/ Conflict(t)
  PROVE  HoldInv'
<1>1. LocksKept(t) /\ RowsKept(t) /\ UNCHANGED <<clock, hold, sent, observed>>
  BY Releasing, SameRows DEF Deny, FoundExisting, Conflict
<1>2. CASE Deny(t)
  <2>1. ~task[t].landed /\ End(t, "deferred")
    BY <1>2 DEF Deny, HoldInv, Sound, Deferrable, Timed
  <2> QED
    BY <1>1, <2>1, EndStep
<1>3. CASE FoundExisting(t) \/ Conflict(t)
  BY <1>1, <1>3, EndStep DEF FoundExisting, Conflict
<1> QED
  BY <1>2, <1>3

(***************************************************************************)
(* The steps from the fence to the terminal commit.                        *)
(***************************************************************************)
LEMMA FenceStep ==
  ASSUME HoldInv, NEW t \in Tasks, Fence(t)
  PROVE  HoldInv'
<1>1. "dispatching" \in Places /\ Goto(t, "dispatching")
  BY DEF Places, Fence
<1>2. PICK new \in Task : /\ task' = [task EXCEPT ![t] = new]
                          /\ new.pc = "dispatching" /\ new.outcome = task[t].outcome
                          /\ Same(new, task[t])
  BY <1>1, Going DEF HoldInv
<1>3. /\ UNCHANGED <<clock, hold, lock, rowLock, sent, observed>>
      /\ task[t].pc = "claimed" /\ Sound(t, task[t]) /\ task[t].op \in Ops
      /\ rowLock[task[t].op] = NoTask /\ rows[task[t].op] = "pending"
      /\ rows' = [rows EXCEPT ![task[t].op] = "in_flight"]
  BY DEF Fence, HoldInv, TypeOK, Task
<1>4. sent[task[t].op] = 0
  BY <1>3 DEF HoldInv, OneSendPerClaim, TypeOK
<1>5. LocksKept(t) /\ RowsKept(t)
  BY <1>3, SameLocks DEF RowsKept, HoldInv, TypeOK, RowStates
<1>6. rows'[task[t].op] = "in_flight"
  BY <1>3 DEF HoldInv, TypeOK
<1>7. Sound(t, new)'
  BY <1>2, <1>3, <1>4, <1>6 DEF Same, Sound, Admitted, Deferrable, Claiming, Timed
<1>8. \A u \in Tasks \ {t} : task[u].op = new.op => task[u].pc # "dispatching"
  BY <1>2, <1>3 DEF Same, HoldInv, Sound, Claiming
<1> QED
  BY <1>2, <1>3, <1>5, <1>7, <1>8, TaskStep DEF Inserting

LEMMA SendStep ==
  ASSUME HoldInv, NEW t \in Tasks, Send(t)
  PROVE  HoldInv'
<1> DEFINE after == [task[t] EXCEPT !.pc = "sent", !.permit = FALSE]
<1>1. /\ task[t] \in Task /\ Sound(t, task[t]) /\ task[t].op \in Ops
      /\ task[t].pc = "dispatching"
  BY DEF HoldInv, TypeOK, Task, Send
<1>2. after \in Task
  BY <1>1 DEF Task
<1>3. after.pc = "sent" /\ after.outcome = task[t].outcome /\ Same(after, task[t])
  BY <1>1 DEF Task, Same
<1>4. task' = [task EXCEPT ![t] = after]
  BY DEF Send
<1> HIDE DEF after
<1>5. PICK new \in Task : /\ task' = [task EXCEPT ![t] = new]
                          /\ new.pc = "sent" /\ new.outcome = task[t].outcome
                          /\ Same(new, task[t])
  BY <1>2, <1>3, <1>4
<1>6. UNCHANGED <<clock, hold, lock, rows, rowLock, observed>>
  BY DEF Send
<1>7. sent' = [sent EXCEPT ![task[t].op] = sent[task[t].op] + 1]
  BY DEF Send
<1>8. LocksKept(t) /\ RowsKept(t)
  BY <1>6, SameLocks, SameRows
<1>9. /\ sent[task[t].op] = 0 /\ rows[task[t].op] \in {"in_flight", "done"}
      /\ task[t].outcome = "none"
  BY <1>1 DEF Sound, Claiming, Deferrable
<1>10. \A u \in Tasks \ {t} : task'[u] = task[u] /\ Sound(u, task[u])'
  BY <1>1, <1>5, <1>6, <1>7, <1>8, OthersSound DEF HoldInv, TypeOK
<1>11. task'[t] = new /\ Sound(t, new)'
  BY <1>1, <1>5, <1>6, <1>9
     DEF HoldInv, TypeOK, Same, Sound, Admitted, Deferrable, Claiming, Timed
<1>12. TypeOK'
  <2>1. sent' \in [Ops -> Nat]
    BY <1>1, <1>7, <1>9 DEF HoldInv, TypeOK
  <2> QED
    BY <2>1, <1>5, <1>6 DEF HoldInv, TypeOK
<1>13. Alone'
  BY <1>5, <1>10, <1>11 DEF HoldInv, Alone, Inserting
<1>14. OneSendPerClaim'
  BY <1>1, <1>6, <1>7, <1>9 DEF HoldInv, TypeOK, OneSendPerClaim
<1>15. HoldCoversObservations'
  BY <1>6 DEF HoldInv, HoldCoversObservations
<1> QED
  BY <1>10, <1>11, <1>12, <1>13, <1>14, <1>15 DEF HoldInv

\* The terminal commit, of an answer or for want of a credential.
LEMMA SettleStep ==
  ASSUME HoldInv, NEW t \in Tasks, Settle(t) \/ NoCredential(t)
  PROVE  HoldInv'
<1>1. /\ UNCHANGED <<clock, hold, lock, rowLock, sent, observed>> /\ End(t, "done")
      /\ rowLock[task[t].op] = NoTask /\ task[t].pc \in {"claimed", "settling"}
      /\ rows' = [rows EXCEPT ![task[t].op] = "done"]
  BY DEF Settle, NoCredential
<1>2. rows[task[t].op] # "absent" /\ task[t].op \in Ops
  BY <1>1 DEF HoldInv, TypeOK, Task, Sound, Claiming
<1>3. RowsKept(t)
  BY <1>1, <1>2 DEF RowsKept, HoldInv, TypeOK, RowStates
<1> QED
  BY <1>1, <1>3, EndStep, SameLocks

(***************************************************************************)
(* Reads, answers, and what is recorded of them.                           *)
(***************************************************************************)
LEMMA ReadStep ==
  ASSUME HoldInv, NEW t \in Tasks, BeginRead(t) \/ AdmitRead(t)
  PROVE  HoldInv'
<1> DEFINE after == IF task[t].pc = "idle" THEN [Fresh EXCEPT !.pc = "reading", !.managed = TRUE]
                                           ELSE [task[t] EXCEPT !.pc = "read", !.seen = clock]
<1>1. task[t] \in Task /\ Sound(t, task[t]) /\ Fresh \in Task /\ clock \in Times
  BY FreshIsTask, CabinetHoldAssumption DEF HoldInv, TypeOK, Times
<1>2. after \in Task
  BY <1>1 DEF Task
<1>3. task' = [task EXCEPT ![t] = after]
  BY DEF BeginRead, AdmitRead
<1>4. /\ after.pc \in {"reading", "read"} /\ after.kind = "read" /\ after.outcome = "none"
      /\ ~after.landed
  BY <1>1 DEF BeginRead, AdmitRead, Fresh, Task, Sound, Deferrable
<1> HIDE DEF after
<1>5. PICK new \in Task :
        /\ task' = [task EXCEPT ![t] = new]
        /\ new.pc \in {"reading", "read"} /\ new.kind = "read" /\ new.outcome = "none"
        /\ ~new.landed
  BY <1>2, <1>3, <1>4
<1>6. UNCHANGED <<clock, hold, lock, rows, rowLock, sent, observed>>
  BY DEF BeginRead, AdmitRead
<1>7. Sound(t, new)'
  BY <1>5 DEF Sound, Admitted, Deferrable, Claiming, Timed
<1> QED
  BY <1>5, <1>6, <1>7, TaskStep, SameLocks, SameRows DEF Inserting

\* A read, a lost claim or an answered send that changes nothing shared.
LEMMA QuietStep ==
  ASSUME HoldInv, NEW t \in Tasks,
         FenceLost(t) \/ Answer(t) \/ DenyRead(t) \/ ReadDone(t) \/ RetryRead(t)
  PROVE  HoldInv'
<1>1. UNCHANGED <<clock, hold, lock, rows, rowLock, sent, observed>>
  BY DEF FenceLost, Answer, DenyRead, ReadDone, RetryRead
<1>2. Sound(t, task[t])
  BY DEF HoldInv
<1>3. CASE FenceLost(t) \/ ReadDone(t)
  BY <1>1, <1>3, EndStep, SameLocks, SameRows DEF FenceLost, ReadDone
<1>4. CASE DenyRead(t)
  BY <1>1, <1>2, <1>4, EndStep, SameLocks, SameRows DEF DenyRead, Sound, Deferrable
<1>5. CASE Answer(t)
  <2>1. "settling" \in Places /\ Goto(t, "settling") /\ task[t].pc = "sent"
    BY <1>5 DEF Answer, Places
  <2>2. ASSUME NEW new \in Task, new.pc = "settling", new.outcome = task[t].outcome,
               Same(new, task[t])
        PROVE  Sound(t, new)
    BY <1>2, <2>1, <2>2 DEF Same, Sound, Admitted, Deferrable, Claiming, Timed
  <2> QED
    BY <1>1, <2>1, <2>2, GoStep
<1>6. CASE RetryRead(t)
  <2>1. "reading" \in Places /\ Goto(t, "reading") /\ task[t].pc = "read"
    BY <1>6 DEF RetryRead, Places
  <2>2. ASSUME NEW new \in Task, new.pc = "reading", new.outcome = task[t].outcome,
               Same(new, task[t])
        PROVE  Sound(t, new)
    BY <1>2, <2>1, <2>2 DEF Same, Sound, Admitted, Deferrable, Claiming, Timed
  <2> QED
    BY <1>1, <2>1, <2>2, GoStep
<1> QED
  BY <1>3, <1>4, <1>5, <1>6

LEMMA ThrottledStep ==
  ASSUME HoldInv, NEW t \in Tasks, NEW headers \in Headers, Throttled(t, headers)
  PROVE  HoldInv'
<1> DEFINE after == [task[t] EXCEPT !.pc = "observing", !.headers = headers]
<1>1. task[t] \in Task /\ Sound(t, task[t]) /\ task[t].pc \in {"sent", "read"}
  BY DEF HoldInv, TypeOK, Throttled
<1>2. after \in Task
  BY <1>1 DEF Task
<1>3. after.pc = "observing" /\ after.outcome = task[t].outcome /\ Same(after, task[t])
  BY <1>1 DEF Task, Same
<1>4. task' = [task EXCEPT ![t] = after]
  BY DEF Throttled
<1> HIDE DEF after
<1>5. PICK new \in Task : /\ task' = [task EXCEPT ![t] = new]
                          /\ new.pc = "observing" /\ new.outcome = task[t].outcome
                          /\ Same(new, task[t])
  BY <1>2, <1>3, <1>4
<1>6. UNCHANGED <<clock, hold, lock, rows, rowLock, sent, observed>>
  BY DEF Throttled
<1>7. Sound(t, new)'
  BY <1>1, <1>5, <1>6 DEF Same, Sound, Admitted, Deferrable, Claiming, Timed
<1> QED
  BY <1>5, <1>6, <1>7, TaskStep, SameLocks, SameRows DEF Inserting

\* Where a task goes after it has recorded its response, or could not.
LEMMA Observing ==
  ASSUME HoldInv, NEW t \in Tasks, task[t].pc = "observing", AfterObserving(t)
  PROVE  \E new \in Task :
           /\ task' = [task EXCEPT ![t] = new]
           /\ new.pc \in {"idle", "settling"}
           /\ new.outcome = "deferred" => ~new.landed
           /\ new.kind = "read" => ~new.landed
           /\ new.pc = "settling" => new.outcome = "none" /\ rows[new.op] # "absent"
<1>1. TypeOK /\ Sound(t, task[t])
  BY DEF HoldInv
<1>2. CASE task[t].kind = "read"
  <2>1. End(t, "deferred")
    BY <1>2 DEF AfterObserving
  <2>2. PICK new \in Task : /\ task' = [task EXCEPT ![t] = new]
                            /\ new.pc = "idle" /\ new.outcome = "deferred"
                            /\ Same(new, task[t])
    BY <1>1, <2>1, Ending
  <2> QED
    BY <1>1, <1>2, <2>2 DEF Same, Sound, Deferrable
<1>3. CASE task[t].kind # "read"
  <2>1. Goto(t, "settling") /\ "settling" \in Places
    BY <1>3 DEF AfterObserving, Places
  <2>2. PICK new \in Task : /\ task' = [task EXCEPT ![t] = new]
                            /\ new.pc = "settling" /\ new.outcome = task[t].outcome
                            /\ Same(new, task[t])
    BY <1>1, <2>1, Going
  <2> QED
    BY <1>1, <1>3, <2>2 DEF Same, Sound, Deferrable, Claiming
<1> QED
  BY <1>2, <1>3

LEMMA ObserveFailsStep ==
  ASSUME HoldInv, NEW t \in Tasks, ObserveFails(t)
  PROVE  HoldInv'
<1>1. /\ task[t].pc = "observing" /\ AfterObserving(t)
      /\ UNCHANGED <<clock, hold, lock, rows, rowLock, sent, observed>>
  BY DEF ObserveFails
<1>2. PICK new \in Task :
        /\ task' = [task EXCEPT ![t] = new]
        /\ new.pc \in {"idle", "settling"}
        /\ new.outcome = "deferred" => ~new.landed
        /\ new.kind = "read" => ~new.landed
        /\ new.pc = "settling" => new.outcome = "none" /\ rows[new.op] # "absent"
  BY <1>1, Observing
<1>3. Sound(t, new)'
  BY <1>1, <1>2 DEF Sound, Admitted, Deferrable, Claiming, Timed
<1> QED
  BY <1>1, <1>2, <1>3, TaskStep, SameLocks, SameRows DEF Inserting

\* The largest of three.
LEMMA MaxOfThree ==
  ASSUME NEW a \in Nat, NEW b \in Nat, NEW c \in Nat, NEW S, S \subseteq {a, b, c}, c \in S
  PROVE  Max(S) \in S /\ \A x \in S : x <= Max(S)
<1>1. \E m \in S : \A x \in S : m >= x
  <2>1. CASE a \in S /\ b \in S
    <3>1. \E m \in {a, b, c} : m >= a /\ m >= b /\ m >= c
      OBVIOUS
    <3> QED
      BY <2>1, <3>1
  <2>2. CASE a \in S /\ b \notin S
    <3>1. a >= c \/ c >= a
      OBVIOUS
    <3> QED
      BY <2>2, <3>1
  <2>3. CASE a \notin S /\ b \in S
    <3>1. b >= c \/ c >= b
      OBVIOUS
    <3> QED
      BY <2>3, <3>1
  <2>4. CASE a \notin S /\ b \notin S
    BY <2>4
  <2> QED
    BY <2>1, <2>2, <2>3, <2>4
<1>2. Max(S) \in S /\ \A x \in S : Max(S) >= x
  BY <1>1 DEF Max
<1>3. S \subseteq Nat
  OBVIOUS
<1> QED
  BY <1>2, <1>3

\* The bounds of one response are moments, and the new hold covers them and
\* the old one.
LEMMA RecordedCovers ==
  ASSUME TypeOK, NEW headers \in Headers
  PROVE  /\ Bounds(headers, clock) \subseteq Times
         /\ Recorded(headers, clock) \in [until : Times, bad : BOOLEAN]
         /\ hold.until <= Recorded(headers, clock).until
         /\ \A bound \in Bounds(headers, clock) : bound <= Recorded(headers, clock).until
         /\ hold.bad \/ Malformed(headers) => Recorded(headers, clock).bad
<1> DEFINE a == IF headers["resource"].kind = "at" THEN headers["resource"].value ELSE 0
           b == IF headers["retry"].kind = "at" THEN headers["retry"].value
                ELSE IF headers["retry"].kind = "after" THEN clock + headers["retry"].value ELSE 0
           c == hold.until
           S == Bounds(headers, clock) \cup {c}
<1>1. /\ DOMAIN headers = {"resource", "retry"}
      /\ headers["resource"] \in Silent \cup Dates
      /\ headers["retry"] \in Silent \cup Dates \cup Delays
  BY DEF Headers
<1>2. /\ headers["resource"].kind \in {"absent", "malformed", "at"}
      /\ headers["retry"].kind \in {"absent", "malformed", "at", "after"}
  BY <1>1 DEF Silent, Dates, Delays
<1>3. a \in Times /\ b \in Times /\ c \in Times
  <2>1. headers["resource"].kind = "at" => headers["resource"].value \in 1 .. MaxTime
    BY <1>1 DEF Silent, Dates
  <2>2. headers["retry"].kind = "at" => headers["retry"].value \in 1 .. MaxTime
    BY <1>1 DEF Silent, Dates, Delays
  <2>3. headers["retry"].kind = "after" => headers["retry"].value \in 0 .. MaxDelay
    BY <1>1 DEF Silent, Dates, Delays
  <2>4. clock \in 0 .. MaxTime /\ c \in Times
    BY DEF TypeOK
  <2> QED
    BY <2>1, <2>2, <2>3, <2>4, CabinetHoldAssumption DEF Times
<1>4. Bounds(headers, clock) \subseteq {a, b}
  BY <1>1, <1>2 DEF Bounds
<1> HIDE DEF a, b
<1>5. S \subseteq {a, b, c} /\ c \in S
  BY <1>4
<1>6. a \in Nat /\ b \in Nat /\ c \in Nat
  BY <1>3, CabinetHoldAssumption DEF Times
<1>7. Max(S) \in S /\ \A x \in S : x <= Max(S)
  BY <1>5, <1>6, MaxOfThree
<1>8. Max(S) \in Times
  BY <1>3, <1>5, <1>7
<1>9. hold.bad \in BOOLEAN
  BY DEF TypeOK
<1>10. /\ Recorded(headers, clock).until = Max(S)
       /\ Recorded(headers, clock).bad = (hold.bad \/ Malformed(headers))
  BY DEF Recorded
<1>11. Recorded(headers, clock) \in [until : Times, bad : BOOLEAN]
  BY <1>8, <1>9 DEF Recorded, Malformed
<1> QED
  BY <1>3, <1>4, <1>7, <1>10, <1>11

LEMMA ObserveStep ==
  ASSUME HoldInv, NEW t \in Tasks, Observe(t)
  PROVE  HoldInv'
<1> DEFINE headers == task[t].headers
<1>1. /\ task[t].pc = "observing" /\ lock = NoTask /\ AfterObserving(t)
      /\ hold' = Recorded(headers, clock)
      /\ observed' = [bounds |-> observed.bounds \cup Bounds(headers, clock),
                      bad    |-> observed.bad \/ Malformed(headers)]
      /\ UNCHANGED <<clock, lock, rows, rowLock, sent>>
  BY DEF Observe
<1>2. PICK new \in Task :
        /\ task' = [task EXCEPT ![t] = new]
        /\ new.pc \in {"idle", "settling"}
        /\ new.outcome = "deferred" => ~new.landed
        /\ new.kind = "read" => ~new.landed
        /\ new.pc = "settling" => new.outcome = "none" /\ rows[new.op] # "absent"
  BY <1>1, Observing
<1>3. headers \in Headers
  BY DEF HoldInv, TypeOK, Task
<1> HIDE DEF headers
<1>4. LocksKept(t) /\ RowsKept(t)
  BY <1>1, SameLocks, SameRows
<1>5. \A u \in Tasks \ {t} : task'[u] = task[u] /\ Sound(u, task[u])'
  BY <1>1, <1>2, <1>4, OthersSound
<1>6. task'[t] = new /\ Sound(t, new)'
  BY <1>1, <1>2 DEF HoldInv, TypeOK, Sound, Admitted, Deferrable, Claiming, Timed
<1>7. HoldCoversObservations'
  <2>1. hold'.until \in Times /\ hold.until \in Times /\ observed.bounds \subseteq Times
    BY <1>1, <1>3, RecordedCovers DEF HoldInv, TypeOK
  <2>2. \A bound \in observed.bounds : bound <= hold.until
    BY DEF HoldInv, HoldCoversObservations
  <2>3. \A bound \in Bounds(headers, clock) : bound <= hold'.until
    BY <1>1, <1>3, RecordedCovers DEF HoldInv
  <2>4. hold.until <= hold'.until
    BY <1>1, <1>3, RecordedCovers DEF HoldInv
  <2>5. \A bound \in observed.bounds : bound <= hold'.until
    BY <2>1, <2>2, <2>4, CabinetHoldAssumption DEF Times
  <2>6. observed'.bad => hold'.bad
    BY <1>1, <1>3, RecordedCovers DEF HoldInv, HoldCoversObservations
  <2> QED
    BY <1>1, <2>3, <2>5, <2>6 DEF HoldCoversObservations
<1>8. TypeOK'
  <2>1. hold' \in [until : Times, bad : BOOLEAN]
    BY <1>1, <1>3, RecordedCovers DEF HoldInv
  <2>2. Bounds(headers, clock) \subseteq Times /\ Malformed(headers) \in BOOLEAN
    BY <1>3, RecordedCovers DEF HoldInv, Malformed
  <2>3. observed' \in [bounds : SUBSET Times, bad : BOOLEAN]
    BY <1>1, <2>2 DEF HoldInv, TypeOK
  <2> QED
    BY <1>1, <1>2, <2>1, <2>3 DEF HoldInv, TypeOK
<1>9. Alone'
  BY <1>2, <1>5, <1>6 DEF HoldInv, Alone, Inserting
<1>10. OneSendPerClaim'
  BY <1>1 DEF HoldInv, OneSendPerClaim
<1> QED
  BY <1>5, <1>6, <1>7, <1>8, <1>9, <1>10 DEF HoldInv

(***************************************************************************)
(* Every step.                                                             *)
(***************************************************************************)
LEMMA ClockStep ==
  ASSUME HoldInv, Tick \/ UNCHANGED vars
  PROVE  HoldInv'
<1>1. /\ UNCHANGED <<hold, lock, rows, rowLock, task, sent, observed>>
      /\ clock' \in 0 .. MaxTime
  BY CabinetHoldAssumption DEF Tick, vars, HoldInv, TypeOK
<1>2. TypeOK'
  BY <1>1 DEF HoldInv, TypeOK
<1>3. ASSUME NEW t \in Tasks
      PROVE  Sound(t, task[t])'
  BY <1>1 DEF HoldInv, Sound, Admitted, Deferrable, Claiming
<1>4. (Alone /\ OneSendPerClaim /\ HoldCoversObservations)'
  BY <1>1 DEF HoldInv, Alone, OneSendPerClaim, HoldCoversObservations
<1> QED
  BY <1>2, <1>3, <1>4 DEF HoldInv

LEMMA HoldStep == HoldInv /\ [Next]_vars => HoldInv'
<1> SUFFICES ASSUME HoldInv, [Next]_vars PROVE HoldInv'
  OBVIOUS
<1>1. CASE Tick \/ UNCHANGED vars
  BY <1>1, ClockStep
<1>2. ASSUME NEW t \in Tasks, TaskNext(t)
      PROVE  HoldInv'
  <2>1. CASE \E op \in Ops, managed \in BOOLEAN :
               Begin(t, op, managed) \/ BeginResume(t, op, managed)
    BY <2>1, BeginStep
  <2>2. CASE LockAuthority(t) \/ Allow(t) \/ Write(t)
    BY <2>2, LockStep, AllowStep, WriteStep
  <2>3. CASE Deny(t) \/ FoundExisting(t) \/ Conflict(t) \/ Timeout(t)
    BY <2>3, RefusedStep, TimeoutStep
  <2>4. CASE CommitConfirmed(t) \/ CommitUnconfirmed(t)
    BY <2>4, CommitStep, UnconfirmedStep
  <2>5. CASE Fence(t) \/ Send(t) \/ NoCredential(t) \/ Settle(t)
    BY <2>5, FenceStep, SendStep, SettleStep
  <2>6. CASE FenceLost(t) \/ Answer(t) \/ DenyRead(t) \/ ReadDone(t) \/ RetryRead(t)
    BY <2>6, QuietStep
  <2>7. CASE BeginRead(t) \/ AdmitRead(t)
    BY <2>7, ReadStep
  <2>8. CASE \E headers \in Headers : Throttled(t, headers)
    BY <2>8, ThrottledStep
  <2>9. CASE Observe(t) \/ ObserveFails(t)
    BY <2>9, ObserveStep, ObserveFailsStep
  <2>10. CASE Crash(t)
    BY <2>10, CrashStep
  <2> QED
    BY <1>2, <2>1, <2>2, <2>3, <2>4, <2>5, <2>6, <2>7, <2>8, <2>9, <2>10 DEF TaskNext
<1> QED
  BY <1>1, <1>2 DEF Next

\* The inductive invariant: what its place in the code says of each task.
THEOREM Admissions == Spec => []HoldInv
<1> QED
  BY HoldInit, HoldStep, PTL DEF Spec

\* 420s and 429s are recorded in any order (ym_review_read_hold.py:683), and the
\* hold covers each of them: an older, shorter one does not shorten it.
THEOREM HoldCovers == Spec => []HoldCoversObservations
<1>1. HoldInv => HoldCoversObservations
  BY DEF HoldInv
<1> QED
  BY <1>1, Admissions, PTL

\* A task that was told "deferred" has no claim in the log, whenever its timer fired.
THEOREM DeferredIsUnclaimed == Spec => []DeferredLeavesNoClaim
<1>1. HoldInv => DeferredLeavesNoClaim
  BY DEF HoldInv, Sound, Deferrable, DeferredLeavesNoClaim
<1> QED
  BY <1>1, Admissions, PTL

\* One permit, one claim, one publication per key: executions, resumes and
\* workers that lost their claim together send it once.
THEOREM SentOnce == Spec => []OneSendPerClaim
<1>1. HoldInv => OneSendPerClaim
  BY DEF HoldInv
<1> QED
  BY <1>1, Admissions, PTL

(***************************************************************************)
(* The refinement.                                                         *)
(***************************************************************************)
\* A key is claimed by the COMMIT that lands first; a resume lands on a row
\* that is there.
LEMMA LandIsClaim ==
  ASSUME HoldInv, NEW t \in Tasks, task[t].pc = "committing", Land(t), sent' = sent
  PROVE  [Abstract!AbsNext]_(Abstract!absVars)
<1> DEFINE op == task[t].op
<1>1. /\ op \in Ops /\ task[t].kind \in {"execute", "resume"} /\ rows \in [Ops -> RowStates]
      /\ task[t].kind = "execute" => rows[op] = "absent"
      /\ task[t].kind = "resume" => rows[op] = "pending"
  BY DEF HoldInv, TypeOK, Task, Sound, Deferrable, Claiming, Timed
<1> HIDE DEF op
<1>2. \A o \in Ops : rows'[o] # "absent" <=> rows[o] # "absent" \/ o = op
  BY <1>1 DEF Land, op
<1>3. CASE rows[op] = "absent"
  BY <1>1, <1>2, <1>3 DEF Abstract!AbsClaim, Abstract!AbsNext
<1>4. CASE rows[op] # "absent"
  BY <1>2, <1>4 DEF Abstract!absVars
<1> QED
  BY <1>3, <1>4

LEMMA HoldRefines ==
  ASSUME HoldInv, [Next]_vars
  PROVE  [Abstract!AbsNext]_(Abstract!absVars)
<1> DEFINE Goal == [Abstract!AbsNext]_(Abstract!absVars)
<1>1. ASSUME UNCHANGED <<rows, sent>> PROVE Goal
  BY <1>1 DEF Abstract!absVars
<1>2. ASSUME NEW t \in Tasks, Send(t) PROVE Goal
  <2>1. PICK op \in Ops : op = task[t].op
    BY DEF HoldInv, TypeOK, Task
  <2>2. rows[op] # "absent" /\ sent[op] = 0 /\ sent \in [Ops -> Nat]
    BY <1>2, <2>1 DEF Send, HoldInv, TypeOK, Sound, Claiming
  <2>3. rows' = rows /\ sent' = [sent EXCEPT ![op] = 1]
    BY <1>2, <2>1, <2>2 DEF Send
  <2>4. Abstract!AbsSend(op)
    BY <2>2, <2>3 DEF Abstract!AbsSend
  <2> QED
    BY <2>4 DEF Abstract!AbsNext
<1>3. ASSUME NEW t \in Tasks, Fence(t) \/ NoCredential(t) \/ Settle(t) PROVE Goal
  <2>1. PICK op \in Ops : op = task[t].op
    BY DEF HoldInv, TypeOK, Task
  <2>2. rows[op] # "absent" /\ rows \in [Ops -> RowStates]
    BY <1>3, <2>1 DEF Fence, NoCredential, Settle, HoldInv, TypeOK, Sound, Claiming
  <2>3. sent' = sent /\ \E s \in {"in_flight", "done"} : rows' = [rows EXCEPT ![op] = s]
    BY <1>3, <2>1 DEF Fence, NoCredential, Settle
  <2>4. \A o \in Ops : rows'[o] # "absent" <=> rows[o] # "absent"
    BY <2>2, <2>3
  <2> QED
    BY <2>3, <2>4 DEF Abstract!absVars
<1>4. ASSUME NEW t \in Tasks, CommitConfirmed(t) \/ CommitUnconfirmed(t) \/ Crash(t) PROVE Goal
  <2>1. sent' = sent
    BY <1>4 DEF CommitConfirmed, CommitUnconfirmed, Crash
  <2>2. rows' = rows \/ (task[t].pc = "committing" /\ Land(t))
    BY <1>4 DEF CommitConfirmed, CommitUnconfirmed, Crash
  <2> QED
    BY <1>1, <2>1, <2>2, LandIsClaim
<1>5. ASSUME NEW t \in Tasks, TaskNext(t) PROVE Goal
  <2>1. CASE \E op \in Ops, managed \in BOOLEAN :
               Begin(t, op, managed) \/ BeginResume(t, op, managed)
    BY <1>1, <2>1 DEF Begin, BeginResume
  <2>2. CASE \/ LockAuthority(t) \/ Deny(t) \/ FoundExisting(t) \/ Allow(t) \/ Write(t)
             \/ Conflict(t) \/ Timeout(t) \/ FenceLost(t) \/ Answer(t)
    BY <1>1, <2>2 DEF LockAuthority, Deny, FoundExisting, Allow, Write, Conflict, Timeout,
                      FenceLost, Answer
  <2>3. CASE \/ BeginRead(t) \/ AdmitRead(t) \/ DenyRead(t) \/ ReadDone(t) \/ RetryRead(t)
             \/ Observe(t) \/ ObserveFails(t) \/ \E headers \in Headers : Throttled(t, headers)
    BY <1>1, <2>3 DEF BeginRead, AdmitRead, DenyRead, ReadDone, RetryRead, Observe, ObserveFails,
                      Throttled
  <2> QED
    BY <1>2, <1>3, <1>4, <1>5, <2>1, <2>2, <2>3 DEF TaskNext
<1>6. CASE Tick \/ UNCHANGED vars
  BY <1>1, <1>6 DEF Tick, vars
<1> QED
  BY <1>5, <1>6 DEF Next

\* Admission, claim, fence and send, as this module has them, are those of an
\* operation key: claimed before it is sent, and sent once, by managed and
\* unmanaged requests and resumes (ym_review_read_hold.py, FirstPermit).
THEOREM HoldImplements == Spec => ImplementsAtMostOnce
<1>1. Init => Abstract!AbsInit
  BY DEF Init, Abstract!AbsInit
<1> QED
  BY <1>1, HoldRefines, Admissions, PTL DEF Spec, ImplementsAtMostOnce, Abstract!AbsSpec

\* Only a COMMIT that is out can land.
LEMMA LandingIsCommitting ==
  ASSUME HoldInv, Next, NEW t \in Tasks, ~task[t].landed, task'[t].landed
  PROVE  task[t].pc = "committing"
<1> SUFFICES ASSUME task[t].pc # "committing" PROVE FALSE
  OBVIOUS
<1>1. task \in [Tasks -> Task]
  BY DEF HoldInv, TypeOK
<1>2. PICK u \in Tasks : TaskNext(u)
  BY DEF Next, Tick
<1>3. ASSUME NEW to, Goto(u, to)
      PROVE  FALSE
  BY <1>1, <1>3 DEF Goto, Task
<1>4. ASSUME NEW outcome, End(u, outcome)
      PROVE  FALSE
  BY <1>1, <1>4 DEF End, Task
<1>5. ASSUME NEW op \in Ops, NEW managed \in BOOLEAN,
             Begin(u, op, managed) \/ BeginResume(u, op, managed)
      PROVE  FALSE
  BY <1>1, <1>5 DEF Begin, BeginResume, Fresh
<1>6. ~LockAuthority(u) /\ ~Send(u) /\ ~BeginRead(u) /\ ~AdmitRead(u)
  <2>1. ~LockAuthority(u)
    BY <1>1 DEF LockAuthority, Task
  <2>2. ~Send(u)
    BY <1>1 DEF Send, Task
  <2>3. ~BeginRead(u)
    BY <1>1 DEF BeginRead, Fresh
  <2>4. ~AdmitRead(u)
    BY <1>1 DEF AdmitRead, Task
  <2> QED
    BY <2>1, <2>2, <2>3, <2>4
<1>7. ASSUME NEW headers \in Headers, Throttled(u, headers)
      PROVE  FALSE
  BY <1>1, <1>7 DEF Throttled, Task
<1>8. ~CommitConfirmed(u)
  BY <1>1 DEF CommitConfirmed, Task
<1>9. ~CommitUnconfirmed(u) /\ ~Crash(u)
  BY <1>1, <1>4 DEF CommitUnconfirmed, Crash, Task
<1>10. ~Deny(u) /\ ~FoundExisting(u) /\ ~Conflict(u) /\ ~Timeout(u) /\ ~FenceLost(u)
       /\ ~NoCredential(u) /\ ~Settle(u) /\ ~DenyRead(u) /\ ~ReadDone(u)
  BY <1>4 DEF Deny, FoundExisting, Conflict, Timeout, FenceLost, NoCredential, Settle, DenyRead,
              ReadDone
<1>11. ~Allow(u) /\ ~Write(u) /\ ~Fence(u) /\ ~Answer(u) /\ ~RetryRead(u)
  BY <1>3 DEF Allow, Write, Fence, Answer, RetryRead
<1>12. ~Observe(u) /\ ~ObserveFails(u)
  BY <1>3, <1>4 DEF Observe, ObserveFails, AfterObserving
<1> QED
  BY <1>2, <1>5, <1>6, <1>7, <1>8, <1>9, <1>10, <1>11, <1>12 DEF TaskNext

\* The cabinet's lock is kept through the COMMIT: whatever was recorded before a
\* managed claim landed had been seen, and allowed, by its admission.
THEOREM ClaimsHonourHold == Spec => ClaimHonoursHold
<1>1. ASSUME HoldInv, [Next]_vars
      PROVE  [\A t \in Tasks :
                task[t].managed /\ ~task[t].landed /\ task'[t].landed =>
                  /\ \A bound \in observed.bounds : bound <= task[t].seen
                  /\ ~observed.bad]_vars
  <2> SUFFICES ASSUME Next, NEW t \in Tasks,
                      task[t].managed, ~task[t].landed, task'[t].landed
               PROVE  /\ \A bound \in observed.bounds : bound <= task[t].seen
                      /\ ~observed.bad
    BY <1>1
  <2>1. task[t].pc = "committing"
    BY <1>1, LandingIsCommitting
  <2>2. hold.until <= task[t].seen /\ ~hold.bad
    BY <1>1, <2>1 DEF HoldInv, Sound, Admitted
  <2>3. /\ \A bound \in observed.bounds : bound <= hold.until
        /\ ~observed.bad
    BY <1>1, <2>2 DEF HoldInv, HoldCoversObservations
  <2>4. observed.bounds \subseteq Times /\ hold.until \in Times /\ task[t].seen \in Times
    BY <1>1 DEF HoldInv, TypeOK, Task
  <2> QED
    BY <2>2, <2>3, <2>4, CabinetHoldAssumption DEF Times
<1> QED
  BY <1>1, Admissions, PTL DEF Spec, ClaimHonoursHold

=============================================================================
