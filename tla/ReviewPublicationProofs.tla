----------------------- MODULE ReviewPublicationProofs -----------------------
(***************************************************************************)
(* What ReviewPublication promises, for any number of reviews and requests *)
(* and any ceiling, backoff, breaker and batch.  Two arguments meet: what  *)
(* the calls of execute() leave in the log and at the marketplace, and     *)
(* what the sessions make of the answers.                                  *)
(***************************************************************************)
EXTENDS ReviewPublication, TLAPS

(***************************************************************************)
(* The inductive invariant: the calls.                                     *)
(***************************************************************************)
Accepted(r) == shelf[r].replies = 1

Calling(call) == call.pc \in {"sending", "sent"}

\* What its place in execute() says of a call.
CallSound(call) ==
  /\ Calling(call) => log[call.review].status = "in_flight"
  /\ call.pc = "sending" => shelf[call.review].replies = 0
  /\ call.applied => call.pc = "sent" /\ Accepted(call.review)
  /\ call.pc = "told" /\ call.result = "success" => log[call.review].status = "success"

\* One call per key is past its claim.
Alone ==
  \A p, q \in Publishers :
    p # q /\ Calling(job[p]) /\ Calling(job[q]) => job[p].review # job[q].review

\* The log and the marketplace.
Ledger(r) ==
  /\ shelf[r].replies <= 1
  /\ log[r].status = "none" => shelf[r].replies = 0
  /\ log[r].status = "success" => Accepted(r)
  /\ shelf[r].shown # "none" => Accepted(r)

Calls ==
  /\ log \in [Reviews -> Log]
  /\ shelf \in [Reviews -> Shelf]
  /\ job \in [Publishers -> Job]
  /\ yandex \in Markets
  /\ \A p \in Publishers : CallSound(job[p])
  /\ Alone
  /\ \A r \in Reviews : Ledger(r)

(***************************************************************************)
(* The inductive invariant: the sessions.                                  *)
(***************************************************************************)
\* A change assigns columns; the text and the attempts are what is read later.
Assigns(change) ==
  /\ DOMAIN change \subseteq Columns
  /\ "text" \in DOMAIN change => change["text"] \in Replies \cup {NoText}
  /\ "attempts" \in DOMAIN change => change["attempts"] \in 0 .. MaxAttempts

IsRow(rec) == DOMAIN rec = Columns /\ Assigns(rec)

\* It says that the marketplace took the reply.
Claims(change) ==
  "status" \in DOMAIN change /\ change["status"] \in {"published", "awaiting_moderation"}

RowsSound(rows) ==
  /\ DOMAIN rows = Reviews
  /\ \A r \in Reviews : IsRow(rows[r]) /\ (Claims(rows[r]) => Accepted(r))

DirtySound(changes) ==
  /\ DOMAIN changes \subseteq Reviews
  /\ \A r \in DOMAIN changes : Assigns(changes[r]) /\ (Claims(changes[r]) => Accepted(r))

EditsSound(changes) ==
  /\ DOMAIN changes = Requests
  /\ \A q \in Requests : Assigns(changes[q]) /\ ~Claims(changes[q])

QueueSound(rows) ==
  /\ DOMAIN rows \subseteq Reviews
  /\ \A r \in DOMAIN rows : /\ rows[r].text \in Replies \cup {NoText}
                            /\ rows[r].attempts \in 0 .. MaxAttempts

Books == RowsSound(row) /\ DirtySound(dirty) /\ EditsSound(edit) /\ QueueSound(queue)

\* The worker calls execute() for a row of its queue.
InHand ==
  job[Worker].pc \in {"looking", "claiming", "sending", "sent", "told"} =>
    job[Worker].review \in DOMAIN queue

ReviewInv == Calls /\ Books /\ InHand

(***************************************************************************)
(* The operators.                                                          *)
(***************************************************************************)
LEMMA OverRow ==
  ASSUME NEW rec, IsRow(rec), NEW change, Assigns(change)
  PROVE  /\ IsRow(Over(change, rec))
         /\ Claims(Over(change, rec)) <=>
              IF "status" \in DOMAIN change THEN Claims(change) ELSE Claims(rec)
BY DEF IsRow, Assigns, Over, Claims, Columns

\* What the session of the worker would commit.
LEMMA FlushedSound ==
  ASSUME Books
  PROVE  RowsSound(Flushed)
<1>1. DOMAIN Flushed = Reviews
  BY DEF Flushed
<1>2. ASSUME NEW r \in Reviews
      PROVE  IsRow(Flushed[r]) /\ (Claims(Flushed[r]) => Accepted(r))
  <2>1. CASE r \in DOMAIN dirty
    <3>1. Flushed[r] = Over(dirty[r], row[r])
      BY <2>1 DEF Flushed
    <3>2. /\ IsRow(row[r]) /\ (Claims(row[r]) => Accepted(r))
          /\ Assigns(dirty[r]) /\ (Claims(dirty[r]) => Accepted(r))
      BY <2>1 DEF Books, RowsSound, DirtySound
    <3> QED
      BY <3>1, <3>2, OverRow
  <2>2. CASE r \notin DOMAIN dirty
    BY <2>2 DEF Flushed, Books, RowsSound
  <2> QED
    BY <2>1, <2>2
<1> QED
  BY <1>1, <1>2 DEF RowsSound

LEMMA LeastInRange ==
  ASSUME NEW n \in Nat, NEW m \in Nat
  PROVE  Least(n, m) \in 0 .. m
BY DEF Least

LEMMA IdleIsJob == Idle \in Job /\ ~Calling(Idle) /\ ~Idle.applied /\ Idle.pc = "idle"
<1>1. (CHOOSE r \in Reviews : TRUE) \in Reviews
  BY ReviewAssumption
<1>2. 0 \in 0 .. MaxAttempts
  BY ReviewAssumption
<1> QED
  BY <1>1, <1>2 DEF Idle, Job, Calling, Results

LEMMA ReviewInit == Init => ReviewInv
<1> SUFFICES ASSUME Init PROVE ReviewInv
  OBVIOUS
<1>1. /\ log \in [Reviews -> Log] /\ shelf \in [Reviews -> Shelf] /\ yandex \in Markets
      /\ \A r \in Reviews : Ledger(r)
  BY DEF Init, Log, Shelf, Comments, Ledger
<1>2. job \in [Publishers -> Job] /\ \A p \in Publishers : job[p] = Idle
  BY IdleIsJob DEF Init
<1>3. Calls
  BY <1>1, <1>2, IdleIsJob DEF Calls, CallSound, Calling, Alone
<1>4. ASSUME NEW r \in Reviews
      PROVE  IsRow(row[r]) /\ ~Claims(row[r])
  BY ReviewAssumption DEF Init, IsRow, Assigns, Claims, Columns
<1>5. /\ DOMAIN row = Reviews /\ DOMAIN edit = Requests
      /\ DOMAIN dirty = {} /\ DOMAIN queue = {}
      /\ \A q \in Requests : DOMAIN edit[q] = {}
  BY DEF Init, None
<1>6. Books
  BY <1>4, <1>5 DEF Books, RowsSound, DirtySound, EditsSound, QueueSound, Assigns, Claims
<1>7. InHand
  BY <1>2, IdleIsJob DEF InHand, Publishers
<1> QED
  BY <1>3, <1>6, <1>7 DEF ReviewInv

(***************************************************************************)
(* Steps and the calls.                                                    *)
(***************************************************************************)
\* A call moves without the log or the marketplace.
LEMMA JobStep ==
  ASSUME Calls, NEW p \in Publishers, NEW new \in Job, job' = [job EXCEPT ![p] = new],
         UNCHANGED <<log, shelf, yandex>>,
         ~Calling(new), ~new.applied,
         new.pc = "told" /\ new.result = "success" => log[new.review].status = "success"
  PROVE  Calls'
<1>1. job' \in [Publishers -> Job] /\ job'[p] = new
      /\ \A q \in Publishers \ {p} : job'[q] = job[q]
  BY DEF Calls
<1>2. \A q \in Publishers : CallSound(job[q])'
  BY <1>1 DEF Calls, CallSound, Accepted, Calling
<1>3. Alone'
  BY <1>1 DEF Calls, Alone, Calling
<1>4. \A r \in Reviews : Ledger(r)'
  BY DEF Calls, Ledger, Accepted
<1> QED
  BY <1>1, <1>2, <1>3, <1>4 DEF Calls

LEMMA IdleStep ==
  ASSUME Calls, NEW p \in Publishers, job' = [job EXCEPT ![p] = Idle],
         UNCHANGED <<log, shelf, yandex>>
  PROVE  Calls'
<1>1. PICK new : new = Idle
  OBVIOUS
<1>2. /\ new \in Job /\ ~Calling(new) /\ ~new.applied /\ new.pc # "told"
      /\ job' = [job EXCEPT ![p] = new]
  BY <1>1, IdleIsJob
<1> QED
  BY <1>2, JobStep

\* The places a call may go to without a claim.
LEMMA GoStep ==
  ASSUME Calls, NEW p \in Publishers, UNCHANGED <<log, shelf, yandex>>,
         NEW to \in {"looking", "claiming", "choosing", "drafting", "moderating"}, Goto(p, to),
         job[p].pc # "sent"
  PROVE  Calls'
<1> DEFINE after == [job[p] EXCEPT !.pc = to]
<1>1. job[p] \in Job /\ ~job[p].applied
  BY DEF Calls, CallSound
<1>2. after \in Job /\ after.pc = to /\ ~after.applied
  BY <1>1 DEF Job
<1>3. job' = [job EXCEPT ![p] = after]
  BY DEF Goto
<1> HIDE DEF after
<1>4. PICK new \in Job : new.pc = to /\ ~new.applied /\ job' = [job EXCEPT ![p] = new]
  BY <1>2, <1>3
<1> QED
  BY <1>4, JobStep DEF Calling

\* What execute() hands back.
LEMMA Returning ==
  ASSUME Calls, NEW p \in Publishers, NEW result \in Results, Return(p, result)
  PROVE  \E new \in Job : /\ job' = [job EXCEPT ![p] = new]
                          /\ new.pc = "told" /\ new.result = result /\ ~new.applied
                          /\ new.review = job[p].review
<1> DEFINE after == [job[p] EXCEPT !.pc = "told", !.result = result, !.text = NoText,
                                   !.applied = FALSE]
<1>1. job[p] \in Job
  BY DEF Calls
<1>2. after \in Job
  BY <1>1 DEF Job
<1>3. after.pc = "told" /\ after.result = result /\ ~after.applied /\ after.review = job[p].review
  BY <1>1 DEF Job
<1>4. job' = [job EXCEPT ![p] = after]
  BY DEF Return
<1> HIDE DEF after
<1> QED
  BY <1>2, <1>3, <1>4

LEMMA ReturnStep ==
  ASSUME Calls, NEW p \in Publishers, NEW result \in Results, Return(p, result),
         UNCHANGED <<log, shelf, yandex>>,
         result = "success" => log[job[p].review].status = "success"
  PROVE  Calls'
<1>1. PICK new \in Job : /\ job' = [job EXCEPT ![p] = new]
                         /\ new.pc = "told" /\ new.result = result /\ ~new.applied
                         /\ new.review = job[p].review
  BY Returning
<1> QED
  BY <1>1, JobStep DEF Calling

\* An answer from the log is of a success only if there is one.
LEMMA ExistingIsThere ==
  ASSUME NEW p \in Publishers
  PROVE  /\ Existing(p) \in Results
         /\ Existing(p) = "success" => log[job[p].review].status = "success"
BY DEF Existing, Results

LEMMA ClaimStep ==
  ASSUME Calls, NEW p \in Publishers, Claim(p), UNCHANGED yandex
  PROVE  Calls'
<1> DEFINE k == job[p].review
           after == [job[p] EXCEPT !.pc = "sending"]
           entry == [status |-> "in_flight", mode |-> Mode(p), text |-> job[p].text,
                     comment |-> "none"]
<1>1. job[p] \in Job /\ k \in Reviews /\ job[p].text \in Replies \cup {NoText}
      /\ ~job[p].applied
  BY DEF Calls, Job, CallSound, Claim
<1>2. after \in Job /\ after.pc = "sending" /\ ~after.applied /\ after.review = k
  BY <1>1 DEF Job
<1>3. entry \in Log /\ entry.status = "in_flight"
  BY <1>1 DEF Log, Comments, Mode
<1>4. /\ job' = [job EXCEPT ![p] = after] /\ log' = [log EXCEPT ![k] = entry]
      /\ log[k].status = "none" /\ UNCHANGED <<shelf, yandex>>
  BY DEF Claim, Goto, Taken
<1> HIDE DEF after, entry
<1>5. PICK new \in Job, r \in Reviews, row0 \in Log :
        /\ job' = [job EXCEPT ![p] = new] /\ new.pc = "sending" /\ ~new.applied /\ new.review = r
        /\ log' = [log EXCEPT ![r] = row0] /\ row0.status = "in_flight"
        /\ log[r].status = "none"
  BY <1>1, <1>2, <1>3, <1>4
<1>6. /\ job' \in [Publishers -> Job] /\ job'[p] = new
      /\ \A q \in Publishers \ {p} : job'[q] = job[q]
      /\ log' \in [Reviews -> Log] /\ log'[r] = row0
      /\ \A s \in Reviews \ {r} : log'[s] = log[s]
  BY <1>5 DEF Calls
<1>7. shelf[r].replies = 0
  BY <1>5 DEF Calls, Ledger
<1>8. \A q \in Publishers \ {p} : CallSound(job[q])' /\ (Calling(job[q]) => job[q].review # r)
  BY <1>4, <1>5, <1>6 DEF Calls, CallSound, Calling, Accepted
<1>9. CallSound(job[p])'
  BY <1>4, <1>5, <1>6, <1>7 DEF CallSound, Calling
<1>10. Alone'
  BY <1>5, <1>6, <1>8 DEF Calls, Alone, Calling
<1>11. \A s \in Reviews : Ledger(s)'
  BY <1>4, <1>5, <1>6 DEF Calls, Ledger, Accepted
<1> QED
  BY <1>4, <1>6, <1>8, <1>9, <1>10, <1>11 DEF Calls

LEMMA SendStep ==
  ASSUME Calls, NEW p \in Publishers, Send(p), UNCHANGED yandex
  PROVE  Calls' /\ \A r \in Reviews : Accepted(r) => Accepted(r)'
<1>1. /\ job[p] \in Job /\ job[p].review \in Reviews /\ job[p].pc = "sending"
      /\ shelf[job[p].review].replies = 0 /\ log[job[p].review].status = "in_flight"
      /\ ~job[p].applied
      /\ UNCHANGED <<log, yandex>>
  BY DEF Calls, Job, Send, CallSound, Calling
<1>2. PICK new \in Job, there \in Shelf :
        /\ job' = [job EXCEPT ![p] = new] /\ new.pc = "sent" /\ new.review = job[p].review
        /\ shelf' = [shelf EXCEPT ![job[p].review] = there]
        /\ \/ there = shelf[job[p].review] /\ new.applied = job[p].applied
           \/ there.replies = 1
  <2>1. ASSUME NEW shown \in {"unmoderated", "published"},
               shelf' = [shelf EXCEPT ![job[p].review] = [replies |-> @.replies + 1,
                                                          shown |-> shown]],
               job' = [job EXCEPT ![p].pc = "sent", ![p].applied = TRUE]
        PROVE  \E new \in Job, there \in Shelf :
                 /\ job' = [job EXCEPT ![p] = new] /\ new.pc = "sent"
                 /\ new.review = job[p].review
                 /\ shelf' = [shelf EXCEPT ![job[p].review] = there]
                 /\ there.replies = 1
    <3> DEFINE after == [job[p] EXCEPT !.pc = "sent", !.applied = TRUE]
               there == [replies |-> 1, shown |-> shown]
    <3>1. after \in Job /\ after.pc = "sent" /\ after.review = job[p].review
      BY <1>1 DEF Job
    <3>2. job' = [job EXCEPT ![p] = after]
      BY <2>1
    <3>3. there \in Shelf /\ there.replies = 1
      BY DEF Shelf, Comments
    <3>4. shelf' = [shelf EXCEPT ![job[p].review] = there]
      BY <1>1, <2>1
    <3> HIDE DEF after, there
    <3> QED
      BY <3>1, <3>2, <3>3, <3>4
  <2>2. ASSUME UNCHANGED shelf, Goto(p, "sent")
        PROVE  \E new \in Job, there \in Shelf :
                 /\ job' = [job EXCEPT ![p] = new] /\ new.pc = "sent"
                 /\ new.review = job[p].review
                 /\ shelf' = [shelf EXCEPT ![job[p].review] = there]
                 /\ there = shelf[job[p].review] /\ new.applied = job[p].applied
    <3> DEFINE after == [job[p] EXCEPT !.pc = "sent"]
    <3>1. /\ after \in Job /\ after.pc = "sent" /\ after.review = job[p].review
          /\ after.applied = job[p].applied
      BY <1>1 DEF Job
    <3>2. job' = [job EXCEPT ![p] = after]
      BY <2>2 DEF Goto
    <3>3. shelf' = [shelf EXCEPT ![job[p].review] = shelf[job[p].review]]
          /\ shelf[job[p].review] \in Shelf
      BY <1>1, <2>2 DEF Calls
    <3> HIDE DEF after
    <3> QED
      BY <3>1, <3>2, <3>3
  <2> QED
    BY <2>1, <2>2 DEF Send
<1>3. /\ job' \in [Publishers -> Job] /\ job'[p] = new
      /\ \A q \in Publishers \ {p} : job'[q] = job[q]
      /\ shelf' \in [Reviews -> Shelf] /\ shelf'[job[p].review] = there
      /\ \A s \in Reviews \ {job[p].review} : shelf'[s] = shelf[s]
  BY <1>1, <1>2 DEF Calls
<1>4. \A q \in Publishers \ {p} : Calling(job[q]) => job[q].review # job[p].review
  BY <1>1 DEF Calls, Alone, Calling
<1>5. \A r \in Reviews : Accepted(r) => Accepted(r)'
  BY <1>1, <1>3 DEF Accepted
<1>6. ASSUME NEW q \in Publishers \ {p}
      PROVE  CallSound(job[q])'
  <2>1. job[q] \in Job /\ CallSound(job[q]) /\ job'[q] = job[q] /\ job[q].review \in Reviews
    BY <1>3 DEF Calls, Job
  <2>2. job[q].pc = "sending" => shelf'[job[q].review] = shelf[job[q].review]
    BY <1>3, <1>4, <2>1 DEF Calling
  <2> QED
    BY <1>1, <1>5, <2>1, <2>2 DEF CallSound, Calling
<1>7. CallSound(job[p])'
  BY <1>1, <1>2, <1>3 DEF CallSound, Calling, Accepted
<1>8. Alone'
  BY <1>2, <1>3, <1>4 DEF Calls, Alone, Calling
<1>9. \A s \in Reviews : Ledger(s)'
  BY <1>1, <1>2, <1>3 DEF Calls, Ledger, Accepted
<1> QED
  BY <1>1, <1>3, <1>5, <1>6, <1>7, <1>8, <1>9 DEF Calls

LEMMA SettleStep ==
  ASSUME Calls, NEW p \in Publishers, NEW result \in {"success", "failed", "ambiguous"},
         Settle(p, result), UNCHANGED yandex
  PROVE  Calls'
<1> DEFINE k == job[p].review
           after == [log[k] EXCEPT !.status = result,
                                   !.comment = IF yandex /\ result = "success"
                                               THEN shelf[k].shown ELSE "none"]
<1>1. /\ job[p] \in Job /\ k \in Reviews /\ job[p].pc = "sent" /\ CallSound(job[p])
      /\ log[k].status = "in_flight" /\ log[k] \in Log /\ shelf[k].shown \in Comments
      /\ UNCHANGED <<shelf, yandex>>
  BY DEF Calls, Job, Settle, CallSound, Calling, Shelf
<1>2. result = "success" => Accepted(k)
  BY <1>1 DEF Settle, CallSound
<1>3. after \in Log /\ after.status = result
  BY <1>1 DEF Log, Comments
<1>4. log' = [log EXCEPT ![k] = after]
  BY <1>1 DEF Settle
<1> HIDE DEF after
<1>5. result \in Results /\ Return(p, result)
  BY DEF Results, Settle
<1>6. PICK new \in Job : /\ job' = [job EXCEPT ![p] = new]
                         /\ new.pc = "told" /\ new.result = result /\ ~new.applied
                         /\ new.review = k
  BY <1>5, Returning
<1>7. PICK r \in Reviews, entry \in Log :
        /\ r = k /\ log' = [log EXCEPT ![r] = entry] /\ entry.status = result
  BY <1>1, <1>3, <1>4
<1>8. /\ job' \in [Publishers -> Job] /\ job'[p] = new
      /\ \A q \in Publishers \ {p} : job'[q] = job[q]
      /\ log' \in [Reviews -> Log] /\ log'[r] = entry
      /\ \A s \in Reviews \ {r} : log'[s] = log[s]
  BY <1>6, <1>7 DEF Calls
<1>9. ASSUME NEW q \in Publishers \ {p}
      PROVE  CallSound(job[q])'
  <2>1. /\ job[q] \in Job /\ CallSound(job[q]) /\ job'[q] = job[q] /\ job[q].review \in Reviews
        /\ Calling(job[q]) => job[q].review # r
    BY <1>1, <1>7, <1>8 DEF Calls, Job, Alone, Calling
  <2>2. CASE job[q].review = r
    BY <1>1, <1>7, <2>1, <2>2 DEF CallSound, Calling, Accepted
  <2>3. CASE job[q].review # r
    BY <1>1, <1>8, <2>1, <2>3 DEF CallSound, Calling, Accepted
  <2> QED
    BY <2>2, <2>3
<1>10. CallSound(job[p])'
  BY <1>6, <1>7, <1>8 DEF CallSound, Calling
<1>11. Alone'
  BY <1>6, <1>8 DEF Calls, Alone, Calling
<1>12. \A s \in Reviews : Ledger(s)'
  BY <1>1, <1>2, <1>7, <1>8 DEF Calls, Ledger, Accepted
<1> QED
  BY <1>1, <1>8, <1>9, <1>10, <1>11, <1>12 DEF Calls

\* The moderators decide about a reply they have.
LEMMA ModerateStep ==
  ASSUME Calls, NEW r \in Reviews, NEW shown \in {"published", "banned"}, Moderate(r, shown),
         UNCHANGED yandex
  PROVE  Calls' /\ \A s \in Reviews : Accepted(s)' = Accepted(s)
<1> DEFINE after == [shelf[r] EXCEPT !.shown = shown]
<1>1. shelf[r] \in Shelf /\ shelf[r].replies = 1 /\ UNCHANGED <<log, job, yandex>>
  BY DEF Calls, Moderate, Ledger, Accepted
<1>2. after \in Shelf /\ after.replies = 1
  BY <1>1 DEF Shelf, Comments
<1>3. shelf' = [shelf EXCEPT ![r] = after]
  BY DEF Moderate
<1> HIDE DEF after
<1>4. shelf' \in [Reviews -> Shelf] /\ shelf'[r].replies = 1
      /\ \A s \in Reviews \ {r} : shelf'[s] = shelf[s]
  BY <1>2, <1>3 DEF Calls
<1>5. \A s \in Reviews : shelf'[s].replies = shelf[s].replies
  BY <1>1, <1>4
<1>6. \A s \in Reviews : Accepted(s)' = Accepted(s)
  BY <1>5 DEF Accepted
<1>7. ASSUME NEW q \in Publishers
      PROVE  CallSound(job[q])'
  <2>1. job[q].review \in Reviews /\ CallSound(job[q])
    BY DEF Calls, Job
  <2> QED
    BY <1>1, <1>5, <1>6, <2>1 DEF CallSound, Calling
<1>8. \A s \in Reviews : Ledger(s)'
  BY <1>1, <1>4, <1>5 DEF Calls, Ledger, Accepted
<1> QED
  BY <1>1, <1>4, <1>6, <1>7, <1>8 DEF Calls, Alone

\* Every step of a call.
LEMMA CallStep ==
  ASSUME Calls, NEW p \in Publishers, Call(p), UNCHANGED yandex
  PROVE  Calls' /\ \A r \in Reviews : Accepted(r) => Accepted(r)'
<1>1. CASE Reject(p) \/ Defer(p)
  BY <1>1, ReturnStep DEF Reject, Defer, Results, Accepted
<1>2. CASE Look(p)
  <2>1. CASE yandex /\ Taken(p)
    BY <1>2, <2>1, ReturnStep, ExistingIsThere DEF Look, Accepted
  <2>2. CASE ~(yandex /\ Taken(p))
    BY <1>2, <2>2, GoStep DEF Look, Accepted
  <2> QED
    BY <2>1, <2>2
<1>3. CASE Claim(p)
  BY <1>3, ClaimStep DEF Claim, Accepted
<1>4. CASE FoundExisting(p)
  BY <1>4, ReturnStep, ExistingIsThere DEF FoundExisting, Accepted
<1>5. CASE Conflict(p)
  <2>1. UNCHANGED <<log, shelf, yandex>>
    BY <1>5 DEF Conflict
  <2>2. CASE Existing(p) = "success" /\ Return(p, "success")
    BY <2>1, <2>2, ReturnStep, ExistingIsThere DEF Accepted
  <2>3. CASE job' = [job EXCEPT ![p] = Idle]
    BY <2>1, <2>3, IdleStep DEF Accepted
  <2> QED
    BY <1>5, <2>2, <2>3 DEF Conflict, TaskOver
<1>6. CASE Send(p)
  BY <1>6, SendStep
<1>7. ASSUME NEW result \in {"success", "failed", "ambiguous"}, Settle(p, result)
      PROVE  Calls' /\ \A r \in Reviews : Accepted(r) => Accepted(r)'
  BY <1>7, SettleStep DEF Settle, Accepted
<1> QED
  BY <1>1, <1>2, <1>3, <1>4, <1>5, <1>6, <1>7 DEF Call

\* A job that begins, with what it read of its row.
Begun(new, pc) == new \in Job /\ new.pc = pc /\ ~new.applied

LEMMA Beginning ==
  ASSUME NEW pc \in {"looking", "writing", "choosing"}, NEW r \in Reviews,
         NEW text \in Replies \cup {NoText}, NEW attempts \in 0 .. MaxAttempts
  PROVE  /\ Begun([Idle EXCEPT !.pc = pc], pc)
         /\ Begun([Idle EXCEPT !.pc = pc, !.review = r], pc)
         /\ Begun([Idle EXCEPT !.pc = pc, !.review = r, !.text = text], pc)
         /\ Begun([Idle EXCEPT !.pc = pc, !.review = r, !.text = text, !.attempts = attempts], pc)
<1>1. Idle \in Job /\ ~Idle.applied
  BY IdleIsJob
<1>2. Begun([Idle EXCEPT !.pc = pc], pc)
  BY <1>1 DEF Job, Begun
<1>3. Begun([Idle EXCEPT !.pc = pc, !.review = r], pc)
  BY <1>1 DEF Job, Begun
<1>4. Begun([Idle EXCEPT !.pc = pc, !.review = r, !.text = text], pc)
  BY <1>1 DEF Job, Begun
<1>5. Begun([Idle EXCEPT !.pc = pc, !.review = r, !.text = text, !.attempts = attempts], pc)
  BY <1>1 DEF Job, Begun
<1> QED
  BY <1>2, <1>3, <1>4, <1>5

LEMMA BeginStep ==
  ASSUME Calls, NEW p \in Publishers, NEW pc \in {"looking", "writing", "choosing"},
         NEW new, Begun(new, pc), job' = [job EXCEPT ![p] = new],
         UNCHANGED <<log, shelf, yandex>>
  PROVE  Calls'
BY JobStep DEF Begun, Calling

LEMMA CallsStep ==
  ASSUME ReviewInv, Next, UNCHANGED yandex
  PROVE  Calls' /\ \A r \in Reviews : Accepted(r) => Accepted(r)'
<1> USE DEF ReviewInv
<1>1. Worker \in Publishers /\ Requests \subseteq Publishers
  BY DEF Publishers
<1>2. CASE \E p \in Publishers : Call(p)
  BY <1>2, CallStep
<1>3. CASE \E r \in Reviews, shown \in {"published", "banned"} : Moderate(r, shown)
  BY <1>3, ModerateStep
<1>4. CASE UNCHANGED <<log, shelf, yandex>>
  <2>1. \A r \in Reviews : Accepted(r) => Accepted(r)'
    BY <1>4 DEF Accepted
  <2>2. CASE UNCHANGED job
    BY <1>4, <2>2 DEF Calls, CallSound, Accepted, Calling, Alone, Ledger
  <2>3. CASE \E p \in Publishers : job' = [job EXCEPT ![p] = Idle]
    BY <1>4, <2>1, <2>3, IdleStep
  <2>4. CASE \E p \in Publishers, to \in {"choosing", "drafting", "moderating"} :
               Goto(p, to) /\ job[p].pc = "idle"
    BY <1>4, <2>1, <2>4, GoStep
  <2>5. CASE \E p \in Publishers, pc \in {"looking", "writing", "choosing"} :
               \E new : Begun(new, pc) /\ job' = [job EXCEPT ![p] = new]
    BY <1>4, <2>1, <2>5, BeginStep
  <2>6. CASE \E r \in Reviews : Pick(r)
    <3>1. PICK r \in Reviews : Pick(r)
      BY <2>6
    <3>2. queue[r].text \in Replies \cup {NoText}
      BY <3>1 DEF Books, QueueSound, Pick
    <3>3. 0 \in 0 .. MaxAttempts
      BY ReviewAssumption
    <3>4. Begun([Idle EXCEPT !.pc = "looking", !.review = r, !.text = queue[r].text], "looking")
      BY <3>2, <3>3, Beginning
    <3> QED
      BY <1>1, <2>5, <3>1, <3>4 DEF Pick
  <2>7. CASE Book
    <3>1. Begun([Idle EXCEPT !.pc = "choosing"], "choosing")
      <4>1. \E r \in Reviews : TRUE
        BY ReviewAssumption
      <4>2. 0 \in 0 .. MaxAttempts
        BY ReviewAssumption
      <4> QED
        BY <4>1, <4>2, Beginning
    <3> QED
      BY <1>1, <2>5, <2>7, <3>1 DEF Book
  <2>8. CASE \E q \in Requests, r \in Reviews : StartManual(q, r)
    <3>1. PICK q \in Requests, r \in Reviews : StartManual(q, r)
      BY <2>8
    <3>2. row[r].text \in Replies \cup {NoText} /\ row[r].attempts \in 0 .. MaxAttempts
      BY DEF Books, RowsSound, IsRow, Assigns, Columns
    <3>3. Begun([Idle EXCEPT !.pc = "looking", !.review = r, !.text = row[r].text,
                             !.attempts = row[r].attempts], "looking")
      BY <3>2, Beginning
    <3> QED
      BY <1>1, <2>5, <3>1, <3>3 DEF StartManual
  <2>9. CASE \E q \in Requests, r \in Reviews : \E change \in Edits(row[r]) :
               StartEdit(q, r, change)
    <3>1. PICK q \in Requests, r \in Reviews : \E change \in Edits(row[r]) :
                 StartEdit(q, r, change)
      BY <2>9
    <3>2. 0 \in 0 .. MaxAttempts
      BY ReviewAssumption
    <3>3. Begun([Idle EXCEPT !.pc = "writing", !.review = r], "writing")
      BY <3>2, Beginning
    <3> QED
      BY <1>1, <2>5, <3>1, <3>3 DEF StartEdit
  <2>10. CASE SkipTurn \/ FinishPublish \/ FinishDrafting \/ FinishSweep
    BY <1>1, <2>3, <2>10 DEF SkipTurn, FinishPublish, FinishDrafting, FinishSweep, TaskOver
  <2>11. CASE \E q \in Requests : FinishManual(q) \/ FinishEdit(q)
    BY <1>1, <2>3, <2>11 DEF FinishManual, FinishEdit
  <2>12. CASE \E p \in Publishers : Crash(p)
    BY <1>1, <2>3, <2>12 DEF Crash, TaskOver
  <2>13. CASE StartPublish \/ StartDrafting \/ StartSweep
    BY <1>1, <2>4, <2>13 DEF StartPublish, StartDrafting, StartSweep
  <2>14. CASE Toggle \/ Elapse \/ \E r \in Reviews : PassOver(r) \/ Check(r)
    BY <2>2, <2>14 DEF Toggle, Elapse, PassOver, Check
  <2>15. CASE Scheduler /\ ~Call(Worker)
    BY <2>6, <2>7, <2>10, <2>13, <2>14, <2>15 DEF Scheduler
  <2>16. CASE \E q \in Requests : Seller(q) /\ ~Call(q)
    BY <2>8, <2>9, <2>11, <2>16 DEF Seller
  <2> QED
    BY <1>1, <1>2, <1>3, <2>12, <2>14, <2>15, <2>16 DEF Next
<1>5. ASSUME ~ \E p \in Publishers : Call(p),
             ~ \E r \in Reviews, shown \in {"published", "banned"} : Moderate(r, shown)
      PROVE  UNCHANGED <<log, shelf>>
  <2>1. CASE Scheduler
    BY <1>1, <1>5, <2>1
       DEF Scheduler, SkipTurn, StartPublish, PassOver, Pick, Check, Book, FinishPublish,
           StartDrafting, FinishDrafting, StartSweep, FinishSweep
  <2>2. CASE \E q \in Requests : Seller(q)
    BY <1>1, <1>5, <2>2 DEF Seller, StartManual, StartEdit, FinishManual, FinishEdit
  <2> QED
    BY <1>5, <2>1, <2>2 DEF Next, Toggle, Elapse, Crash
<1> QED
  BY <1>2, <1>3, <1>4, <1>5

(***************************************************************************)
(* Steps and the sessions.                                                 *)
(***************************************************************************)
LEMMA InHandStep ==
  ASSUME ReviewInv, Next
  PROVE  InHand'
<1>1. /\ job \in [Publishers -> Job] /\ Worker \in Publishers
      /\ Requests \subseteq Publishers \ {Worker} /\ InHand
  BY ReviewAssumption DEF ReviewInv, Calls, Publishers
<1>2. CASE job'[Worker] = job[Worker] /\ UNCHANGED queue
  BY <1>1, <1>2 DEF InHand
<1>3. CASE job'[Worker].pc \in {"idle", "choosing", "drafting", "moderating"}
  BY <1>3 DEF InHand
<1>4. CASE /\ job[Worker].pc \in {"looking", "claiming", "sending", "sent"}
           /\ job'[Worker].review = job[Worker].review /\ UNCHANGED queue
  BY <1>1, <1>4 DEF InHand
<1>5. CASE TaskOver
  <2>1. job'[Worker] = Idle
    BY <1>1, <1>5 DEF TaskOver
  <2> QED
    BY <2>1, <1>3, IdleIsJob
<1>6. CASE Call(Worker)
  <2>1. ASSUME NEW result, Return(Worker, result)
        PROVE  job'[Worker].review = job[Worker].review
    BY <1>1, <2>1 DEF Return, Job
  <2>2. ASSUME NEW to, Goto(Worker, to)
        PROVE  job'[Worker].review = job[Worker].review
    BY <1>1, <2>2 DEF Goto, Job
  <2>3. CASE Reject(Worker) \/ Defer(Worker) \/ FoundExisting(Worker)
             \/ \E result \in {"success", "failed", "ambiguous"} : Settle(Worker, result)
    BY <1>4, <2>1, <2>3 DEF Reject, Defer, FoundExisting, Settle
  <2>4. CASE Look(Worker)
    BY <1>4, <2>1, <2>2, <2>4 DEF Look
  <2>5. CASE Claim(Worker)
    BY <1>4, <2>2, <2>5 DEF Claim
  <2>6. CASE Conflict(Worker)
    BY <1>4, <1>5, <2>1, <2>6 DEF Conflict
  <2>7. CASE Send(Worker)
    <3>1. job'[Worker].review = job[Worker].review
      BY <1>1, <2>2, <2>7 DEF Send, Job
    <3> QED
      BY <1>4, <2>7, <3>1 DEF Send
  <2> QED
    BY <1>6, <2>3, <2>4, <2>5, <2>6, <2>7 DEF Call
<1>7. CASE \E r \in Reviews : Pick(r)
  <2>1. PICK r \in Reviews : Pick(r)
    BY <1>7
  <2>2. job'[Worker].review = r
    BY <1>1, <2>1, IdleIsJob DEF Pick, Job
  <2> QED
    BY <2>1, <2>2 DEF Pick, InHand
<1>8. CASE Book
  <2>1. job'[Worker].pc = "choosing"
    BY <1>1, <1>8, IdleIsJob DEF Book, Job
  <2> QED
    BY <1>3, <2>1
<1>9. CASE SkipTurn \/ FinishPublish \/ FinishDrafting \/ FinishSweep
  BY <1>5, <1>9 DEF SkipTurn, FinishPublish, FinishDrafting, FinishSweep
<1>10. CASE StartPublish \/ StartDrafting \/ StartSweep
  <2>1. job'[Worker].pc \in {"choosing", "drafting", "moderating"}
    BY <1>1, <1>10 DEF StartPublish, StartDrafting, StartSweep, Goto, Job
  <2> QED
    BY <1>3, <2>1
<1>11. CASE \E r \in Reviews : PassOver(r) \/ Check(r)
  BY <1>3, <1>11 DEF PassOver, Check
<1>12. CASE \E q \in Requests : Seller(q)
  <2>1. PICK q \in Requests : Seller(q)
    BY <1>12
  <2>2. q # Worker
    BY <1>1
  <2>3. job'[Worker] = job[Worker]
    BY <1>1, <2>1, <2>2
       DEF Seller, StartManual, StartEdit, FinishManual, FinishEdit, Call, Reject, Defer, Look,
           Claim, FoundExisting, Conflict, Send, Settle, Return, Goto
  <2>4. UNCHANGED queue
    BY <2>1, <2>2
       DEF Seller, StartManual, StartEdit, FinishManual, FinishEdit, Call, Reject, Defer, Look,
           Claim, FoundExisting, Conflict, Send, Settle
  <2> QED
    BY <1>2, <2>3, <2>4
<1>13. CASE Toggle \/ Elapse
            \/ \E r \in Reviews, shown \in {"published", "banned"} : Moderate(r, shown)
  BY <1>2, <1>13 DEF Toggle, Elapse, Moderate
<1>14. CASE \E p \in Publishers : Crash(p)
  BY <1>1, <1>2, <1>5, <1>14 DEF Crash, Publishers
<1> QED
  BY <1>6, <1>7, <1>8, <1>9, <1>10, <1>11, <1>12, <1>13, <1>14 DEF Next, Scheduler

\* What was accepted stays so.
LEMMA BooksLater ==
  ASSUME \A r \in Reviews : Accepted(r) => Accepted(r)',
         RowsSound(row'), DirtySound(dirty'), EditsSound(edit'), QueueSound(queue')
  PROVE  Books'
BY DEF Books, RowsSound, DirtySound, EditsSound, QueueSound

LEMMA NoneSound == DirtySound(None) /\ QueueSound(None) /\ Assigns(None) /\ ~Claims(None)
BY DEF DirtySound, QueueSound, Assigns, Claims, None

LEMMA CommitSound ==
  ASSUME Books, NEW p, Commit(p)
  PROVE  RowsSound(row') /\ DirtySound(dirty')
BY FlushedSound, NoneSound DEF Commit, Books

\* A task's selection, and the selection without one of its rows.
LEMMA SelectSound ==
  ASSUME Books, NEW S \in SUBSET Reviews
  PROVE  QueueSound([r \in S |-> Loaded(row[r])])
BY DEF Books, RowsSound, IsRow, Assigns, Columns, QueueSound, Loaded

LEMMA WithoutSound ==
  ASSUME Books, NEW r
  PROVE  QueueSound(Without(queue, r))
BY DEF Books, QueueSound, Without

\* One more row of the session is changed, or one row of the table.
LEMMA DirtyOver ==
  ASSUME Books, NEW r \in Reviews, NEW change,
         Assigns(change), Claims(change) => Accepted(r)
  PROVE  DirtySound(Over([s \in {r} |-> change], dirty))
BY DEF Books, DirtySound, Over

LEMMA RowOver ==
  ASSUME Books, NEW r \in Reviews, NEW change,
         Assigns(change), Claims(change) => Accepted(r)
  PROVE  RowsSound([row EXCEPT ![r] = Over(change, row[r])])
<1>1. IsRow(row[r]) /\ (Claims(row[r]) => Accepted(r))
  BY DEF Books, RowsSound
<1>2. PICK new : new = Over(change, row[r])
  OBVIOUS
<1>3. IsRow(new) /\ (Claims(new) => Accepted(r))
  BY <1>1, <1>2, OverRow DEF Claims
<1>4. RowsSound([row EXCEPT ![r] = new])
  BY <1>3 DEF Books, RowsSound
<1> QED
  BY <1>2, <1>4

\* Every change the code makes of a row assigns what the column may hold, and
\* claims a publication for a success or a verdict only.
LEMMA ChangesSound ==
  ASSUME NEW attempts \in 0 .. MaxAttempts
  PROVE  /\ \A hold : Assigns([wait |-> hold]) /\ ~Claims([wait |-> hold])
         /\ Assigns(Failure(attempts)) /\ ~Claims(Failure(attempts))
         /\ \A result : /\ Assigns(ManualBooks(result, attempts))
                        /\ result # "success" => ~Claims(ManualBooks(result, attempts))
         /\ \A comment : Assigns(Published(comment))
         /\ \A shown : /\ Assigns(Verdict(shown))
                       /\ shown = "none" => ~Claims(Verdict(shown))
         /\ \A drafted \in [text : {Draft}, status : {"approved", "drafted"}] :
              Assigns(drafted) /\ ~Claims(drafted)
         /\ \A rec : \A change \in Edits(rec) : Assigns(change) /\ ~Claims(change)
<1>1. \A hold : Assigns([wait |-> hold]) /\ ~Claims([wait |-> hold])
  BY DEF Assigns, Claims, Columns
<1>2. Assigns(Failure(attempts)) /\ ~Claims(Failure(attempts))
  BY DEF Failure, Assigns, Claims, Columns
<1>3. ASSUME NEW result
      PROVE  /\ Assigns(ManualBooks(result, attempts))
             /\ result # "success" => ~Claims(ManualBooks(result, attempts))
  BY NoneSound DEF ManualBooks, Assigns, Claims, Columns
<1>4. ASSUME NEW comment
      PROVE  Assigns(Published(comment))
  BY DEF Published, Assigns, Columns
<1>5. ASSUME NEW shown
      PROVE  Assigns(Verdict(shown)) /\ (shown = "none" => ~Claims(Verdict(shown)))
  BY NoneSound DEF Verdict, Assigns, Claims, Columns
<1>6. ASSUME NEW drafted \in [text : {Draft}, status : {"approved", "drafted"}]
      PROVE  Assigns(drafted) /\ ~Claims(drafted)
  BY DEF Assigns, Claims, Columns, Replies
<1>7. ASSUME NEW rec, NEW change \in Edits(rec)
      PROVE  Assigns(change) /\ ~Claims(change)
  BY DEF Edits, Assigns, Claims, Columns, Replies
<1> QED
  BY <1>1, <1>2, <1>3, <1>4, <1>5, <1>6, <1>7

LEMMA BookStep ==
  ASSUME ReviewInv, Book
  PROVE  DirtySound(dirty')
<1> DEFINE r == job[Worker].review
           result == job[Worker].result
           attempts == Least(queue[r].attempts + 1, MaxAttempts)
<1>1. r \in DOMAIN queue /\ r \in Reviews /\ job[Worker].pc = "told"
  BY DEF ReviewInv, InHand, Book, Books, QueueSound
<1>2. attempts \in 0 .. MaxAttempts
  <2>1. queue[r].attempts + 1 \in Nat /\ MaxAttempts \in Nat
    BY <1>1, ReviewAssumption DEF ReviewInv, Books, QueueSound
  <2> QED
    BY <2>1, LeastInRange
<1>3. result = "success" => Accepted(r)
  BY <1>1 DEF ReviewInv, Calls, CallSound, Ledger, Publishers
<1>4. PICK hold : dirty' = Over([s \in {r} |-> WorkerBooks(result, r, hold)], dirty)
  BY DEF Book
<1> DEFINE change == WorkerBooks(result, r, hold)
<1>5. Assigns(change) /\ (Claims(change) => result = "success")
  <2>1. CASE result = "success"
    BY <2>1, <1>2, ChangesSound DEF WorkerBooks
  <2>2. CASE result = "deferred"
    BY <2>2, <1>2, ChangesSound DEF WorkerBooks
  <2>3. CASE result \in {"ambiguous", "needs_reconcile"}
    <3>1. change = [attempts |-> attempts, reason |-> "unconfirmed", wait |-> 0,
                    status |-> "failed"]
      BY <2>3 DEF WorkerBooks
    <3> HIDE DEF attempts, change
    <3> QED
      BY <3>1, <1>2 DEF Assigns, Claims, Columns
  <2>4. CASE result \notin {"success", "deferred", "ambiguous", "needs_reconcile"}
    <3>1. change = Failure(attempts)
      BY <2>4 DEF WorkerBooks
    <3> QED
      BY <3>1, <1>2, ChangesSound
  <2> QED
    BY <2>1, <2>2, <2>3, <2>4
<1> HIDE DEF change
<1>6. DirtySound(Over([s \in {r} |-> change], dirty))
  BY <1>1, <1>3, <1>5, DirtyOver DEF ReviewInv
<1> QED
  BY <1>4, <1>6 DEF change

LEMMA FinishManualStep ==
  ASSUME ReviewInv, NEW q \in Requests, FinishManual(q)
  PROVE  RowsSound(row')
<1> DEFINE r == job[q].review
           change == ManualBooks(job[q].result, Least(job[q].attempts + 1, MaxAttempts))
<1>1. /\ q \in Publishers /\ job[q] \in Job /\ r \in Reviews /\ job[q].pc = "told"
      /\ job[q].attempts \in 0 .. MaxAttempts /\ MaxAttempts \in Nat
  BY ReviewAssumption DEF ReviewInv, Calls, Job, Publishers, FinishManual
<1>2. Least(job[q].attempts + 1, MaxAttempts) \in 0 .. MaxAttempts
  <2>1. job[q].attempts + 1 \in Nat
    BY <1>1
  <2> QED
    BY <1>1, <2>1, LeastInRange
<1>3. Assigns(change) /\ (Claims(change) => job[q].result = "success")
  BY <1>2, ChangesSound
<1>4. job[q].result = "success" => Accepted(r)
  BY <1>1 DEF ReviewInv, Calls, CallSound, Ledger
<1>5. row' = [row EXCEPT ![r] = Over(change, row[r])]
  BY DEF FinishManual
<1> HIDE DEF change
<1> QED
  BY <1>1, <1>3, <1>4, <1>5, RowOver DEF ReviewInv

LEMMA FinishDraftingStep ==
  ASSUME ReviewInv, FinishDrafting
  PROVE  RowsSound(row')
<1>1. PICK drafted \in [text : {Draft}, status : {"approved", "drafted"}] :
        row' = [r \in Reviews |-> IF r \in DOMAIN queue THEN Over(drafted, row[r]) ELSE row[r]]
  BY DEF FinishDrafting
<1>2. Assigns(drafted) /\ ~Claims(drafted)
  <2>1. 0 \in 0 .. MaxAttempts
    BY ReviewAssumption
  <2> QED
    BY <2>1, ChangesSound
<1>3. ASSUME NEW r \in Reviews
      PROVE  IsRow(row'[r]) /\ (Claims(row'[r]) => Accepted(r))
  <2>1. IsRow(row[r]) /\ (Claims(row[r]) => Accepted(r))
    BY DEF ReviewInv, Books, RowsSound
  <2>2. CASE r \in DOMAIN queue
    <3>1. row'[r] = Over(drafted, row[r])
      BY <1>1, <2>2
    <3> QED
      BY <1>2, <2>1, <3>1, OverRow DEF Claims
  <2>3. CASE r \notin DOMAIN queue
    BY <1>1, <2>1, <2>3
  <2> QED
    BY <2>2, <2>3
<1> QED
  BY <1>1, <1>3 DEF RowsSound

LEMMA ElapseStep ==
  ASSUME ReviewInv, Elapse
  PROVE  RowsSound(row')
<1>1. ASSUME NEW rec, IsRow(rec)
      PROVE  \A wait : /\ IsRow([rec EXCEPT !.wait = wait])
                       /\ Claims([rec EXCEPT !.wait = wait]) <=> Claims(rec)
  BY <1>1 DEF IsRow, Assigns, Claims, Columns
<1>2. ASSUME NEW r \in Reviews
      PROVE  IsRow(row'[r]) /\ (Claims(row'[r]) => Accepted(r))
  <2>1. PICK wait : row'[r] = [row[r] EXCEPT !.wait = wait]
    BY DEF Elapse
  <2>2. IsRow(row[r]) /\ (Claims(row[r]) => Accepted(r))
    BY DEF ReviewInv, Books, RowsSound
  <2> QED
    BY <1>1, <2>1, <2>2
<1> QED
  BY <1>2 DEF RowsSound, Elapse

LEMMA CheckStep ==
  ASSUME ReviewInv, NEW r \in Reviews, Check(r)
  PROVE  DirtySound(dirty')
<1>1. 0 \in 0 .. MaxAttempts
  BY ReviewAssumption
<1>2. Assigns(Verdict(shelf[r].shown)) /\ (Claims(Verdict(shelf[r].shown)) => Accepted(r))
  BY <1>1, ChangesSound DEF ReviewInv, Calls, Ledger
<1>3. dirty' = Over([s \in {r} |-> Verdict(shelf[r].shown)], dirty)
  BY DEF Check
<1> QED
  BY <1>2, <1>3, DirtyOver DEF ReviewInv

LEMMA CallBooks ==
  ASSUME Books, NEW p \in Publishers, Call(p), UNCHANGED yandex
  PROVE  RowsSound(row') /\ DirtySound(dirty') /\ EditsSound(edit') /\ QueueSound(queue')
<1>1. EditsSound(edit')
  BY DEF Books, Call, Reject, Defer, Look, Claim, FoundExisting, Conflict, Send, Settle
<1>2. QueueSound(queue')
  BY NoneSound
     DEF Books, Call, Reject, Defer, Look, Claim, FoundExisting, Conflict, Send, Settle, TaskOver
<1>3. CASE Commit(p)
  BY <1>1, <1>2, <1>3, CommitSound
<1>4. CASE UNCHANGED row /\ (UNCHANGED dirty \/ dirty' = None)
  BY <1>1, <1>2, <1>4, NoneSound DEF Books
<1>5. Commit(p) \/ (UNCHANGED row /\ (UNCHANGED dirty \/ dirty' = None))
  BY DEF Call, Reject, Defer, Look, Claim, FoundExisting, Conflict, Send, Settle, TaskOver
<1> QED
  BY <1>3, <1>4, <1>5

LEMMA BooksStep ==
  ASSUME ReviewInv, Next, UNCHANGED yandex
  PROVE  RowsSound(row') /\ DirtySound(dirty') /\ EditsSound(edit') /\ QueueSound(queue')
<1> DEFINE Goal == RowsSound(row') /\ DirtySound(dirty') /\ EditsSound(edit') /\ QueueSound(queue')
<1>1. /\ Books /\ RowsSound(row) /\ DirtySound(dirty) /\ EditsSound(edit) /\ QueueSound(queue)
      /\ RowsSound(Flushed) /\ DirtySound(None) /\ QueueSound(None)
  BY FlushedSound, NoneSound DEF ReviewInv, Books
<1>2. CASE \E p \in Publishers : Call(p)
  BY <1>1, <1>2, CallBooks
<1>3. CASE SkipTurn \/ FinishPublish \/ FinishSweep
  BY <1>1, <1>3 DEF SkipTurn, FinishPublish, FinishSweep, TaskOver
<1>4. CASE StartPublish \/ StartDrafting
  <2>1. PICK S \in SUBSET Reviews : queue' = [r \in S |-> Loaded(row[r])]
    BY <1>4 DEF StartPublish, StartDrafting, Select
  <2> QED
    BY <1>1, <1>4, <2>1, SelectSound DEF StartPublish, StartDrafting
<1>5. CASE StartSweep
  <2>1. PICK S \in SUBSET DOMAIN Select(Awaiting) : queue' = [r \in S |-> Loaded(row[r])]
    BY <1>5 DEF StartSweep
  <2>2. S \in SUBSET Reviews
    BY <2>1 DEF Select
  <2> QED
    BY <1>1, <1>5, <2>1, <2>2, SelectSound DEF StartSweep
<1>6. CASE \E r \in Reviews : PassOver(r)
  BY <1>1, <1>6, WithoutSound DEF PassOver
<1>7. CASE \E r \in Reviews : Pick(r)
  BY <1>1, <1>7 DEF Pick
<1>8. CASE \E r \in Reviews : Check(r)
  BY <1>1, <1>8, CheckStep, WithoutSound DEF Check
<1>9. CASE Book
  BY <1>1, <1>9, BookStep, WithoutSound DEF Book
<1>10. CASE FinishDrafting
  BY <1>1, <1>10, FinishDraftingStep DEF FinishDrafting, TaskOver
<1>11. CASE Toggle \/ \E r \in Reviews, shown \in {"published", "banned"} : Moderate(r, shown)
  BY <1>1, <1>11 DEF Toggle, Moderate
<1>12. CASE Elapse
  BY <1>1, <1>12, ElapseStep DEF Elapse
<1>13. CASE \E p \in Publishers : Crash(p)
  <2>1. PICK p \in Publishers : Crash(p)
    BY <1>13
  <2>2. EditsSound(edit')
    BY <1>1, <2>1, NoneSound DEF Crash, EditsSound
  <2> QED
    BY <1>1, <2>1, <2>2 DEF Crash, TaskOver
<1>14. CASE \E q \in Requests, r \in Reviews : StartManual(q, r)
  BY <1>1, <1>14 DEF StartManual
<1>15. ASSUME NEW q \in Requests, NEW r \in Reviews, NEW change \in Edits(row[r]),
              StartEdit(q, r, change)
       PROVE  Goal
  <2>1. Assigns(change) /\ ~Claims(change)
    <3>1. 0 \in 0 .. MaxAttempts
      BY ReviewAssumption
    <3> QED
      BY <3>1, ChangesSound
  <2>2. edit' = [edit EXCEPT ![q] = change]
    BY <1>15 DEF StartEdit
  <2>3. EditsSound(edit')
    BY <1>1, <2>1, <2>2 DEF EditsSound
  <2> QED
    BY <1>1, <1>15, <2>3 DEF StartEdit
<1>16. ASSUME NEW q \in Requests, FinishManual(q)
       PROVE  Goal
  BY <1>1, <1>16, FinishManualStep DEF FinishManual
<1>17. ASSUME NEW q \in Requests, FinishEdit(q)
       PROVE  Goal
  <2>1. EditsSound(edit')
    BY <1>1, <1>17, NoneSound DEF FinishEdit, EditsSound
  <2>2. job[q].review \in Reviews /\ Assigns(edit[q]) /\ ~Claims(edit[q])
    BY <1>1 DEF ReviewInv, Calls, Job, Publishers, EditsSound
  <2>3. RowsSound(row')
    BY <1>1, <1>17, <2>2, RowOver DEF FinishEdit
  <2> QED
    BY <1>1, <1>17, <2>1, <2>3 DEF FinishEdit
<1> HIDE DEF Goal
<1>18. CASE \E q \in Requests : Seller(q)
  BY <1>2, <1>14, <1>15, <1>16, <1>17, <1>18 DEF Seller, Goal, Publishers
<1>19. CASE Scheduler
  BY <1>2, <1>3, <1>4, <1>5, <1>6, <1>7, <1>8, <1>9, <1>10, <1>19
     DEF Scheduler, Goal, Publishers
<1> QED
  BY <1>11, <1>12, <1>13, <1>18, <1>19 DEF Next, Goal

(***************************************************************************)
(* The theorems.                                                           *)
(***************************************************************************)
LEMMA ReviewStep == ReviewInv /\ [Next /\ UNCHANGED yandex]_<<vars, yandex>> => ReviewInv'
<1> SUFFICES ASSUME ReviewInv, [Next /\ UNCHANGED yandex]_<<vars, yandex>> PROVE ReviewInv'
  OBVIOUS
<1>1. CASE Next /\ UNCHANGED yandex
  BY <1>1, CallsStep, BooksStep, BooksLater, InHandStep DEF ReviewInv
<1>2. CASE UNCHANGED <<vars, yandex>>
  BY <1>2 DEF vars, ReviewInv, Calls, CallSound, Alone, Ledger, Accepted, Calling, InHand,
              Books, RowsSound, DirtySound, EditsSound, QueueSound
<1> QED
  BY <1>1, <1>2

\* The inductive invariant: what the calls leave in the log and at the
\* marketplace, and what the sessions say of it.
THEOREM Publication == Spec => []ReviewInv
<1> QED
  BY ReviewInit, ReviewStep, PTL DEF Spec

\* The worker's retries, the seller's clicks and every crash share one key
\* (operation_key.review_key), and the marketplace gets one reply.
THEOREM RepliedOnce == Spec => []OneReplyPerReview
<1>1. ReviewInv => OneReplyPerReview
  BY DEF ReviewInv, Calls, Ledger, OneReplyPerReview
<1> QED
  BY <1>1, Publication, PTL

\* No session, however stale its rows and whatever a rollback discarded, calls a
\* review published that the marketplace did not take (routers/reviews.py:256).
THEOREM PublishedIsAccepted == Spec => []PublishedWasAccepted
<1>1. ReviewInv => PublishedWasAccepted
  BY DEF ReviewInv, Books, RowsSound, IsRow, Claims, Columns, Accepted, PublishedWasAccepted
<1> QED
  BY <1>1, Publication, PTL

(***************************************************************************)
(* What buyers see.  Publishing by hand does not look at what became of    *)
(* the reply, so on Yandex, where replies are moderated, the promise is    *)
(* that of the worker, the sweep and the seller who edits and approves.    *)
(***************************************************************************)
ByRule == yandex => \A q \in Requests, r \in Reviews : ~StartManual(q, r)

SpecByRule == Init /\ [][Next /\ UNCHANGED yandex /\ ByRule]_<<vars, yandex>>

Visible(r) == shelf[r].shown = "published"

Says(change) == "status" \in DOMAIN change /\ change["status"] = "published"

\* The log keeps what the marketplace said of a reply when it took it.
CommentSound(r) ==
  /\ Accepted(r) => shelf[r].shown # "none"
  /\ ~yandex => shelf[r].shown \in {"none", "published"}
  /\ yandex /\ log[r].status = "success" =>
       /\ log[r].comment # "none"
       /\ log[r].comment = "published" => Visible(r)

VisibleInv ==
  /\ ReviewInv
  /\ \A r \in Reviews : CommentSound(r)
  /\ yandex => /\ \A q \in Requests : job[q].pc \in {"idle", "writing"}
               /\ \A r \in Reviews : Says(row[r]) => Visible(r)
               /\ \A r \in DOMAIN dirty : Says(dirty[r]) => Visible(r)

LEMMA OverSays ==
  ASSUME NEW rec, IsRow(rec), NEW change, Assigns(change)
  PROVE  Says(Over(change, rec)) <=>
           IF "status" \in DOMAIN change THEN Says(change) ELSE Says(rec)
BY DEF IsRow, Assigns, Over, Says, Columns

LEMMA FlushedVisible ==
  ASSUME VisibleInv, yandex, NEW r \in Reviews, Says(Flushed[r])
  PROVE  Visible(r)
<1>1. IsRow(row[r]) /\ (Says(row[r]) => Visible(r))
  BY DEF VisibleInv, ReviewInv, Books, RowsSound
<1>2. CASE r \in DOMAIN dirty
  <2>1. Flushed[r] = Over(dirty[r], row[r])
    BY <1>2 DEF Flushed
  <2>2. Assigns(dirty[r]) /\ (Says(dirty[r]) => Visible(r))
    BY <1>2 DEF VisibleInv, ReviewInv, Books, DirtySound
  <2> QED
    BY <1>1, <2>1, <2>2, OverSays DEF Says
<1>3. CASE r \notin DOMAIN dirty
  BY <1>1, <1>3 DEF Flushed
<1> QED
  BY <1>2, <1>3

\* What the moderators published stays, and the log says no more than they did.
LEMMA CommentStep ==
  ASSUME VisibleInv, Next, UNCHANGED yandex
  PROVE  /\ \A r \in Reviews : Visible(r) => Visible(r)'
         /\ \A r \in Reviews : CommentSound(r)'
<1>1. Calls /\ \A r \in Reviews : CommentSound(r) /\ Ledger(r)
  BY DEF VisibleInv, ReviewInv, Calls
<1>2. CASE UNCHANGED <<log, shelf>>
  BY <1>1, <1>2 DEF Visible, CommentSound, Accepted
<1>3. ASSUME NEW p \in Publishers, Claim(p)
      PROVE  /\ \A r \in Reviews : Visible(r) => Visible(r)'
             /\ \A r \in Reviews : CommentSound(r)'
  <2>1. UNCHANGED shelf /\ job[p].review \in Reviews
    BY <1>1, <1>3 DEF Claim, Calls, Job
  <2>2. \A r \in Reviews : log'[r].status = "success" => log'[r] = log[r]
    BY <1>1, <1>3, <2>1 DEF Claim, Calls
  <2> QED
    BY <1>1, <2>1, <2>2 DEF Visible, CommentSound, Accepted
<1>4. ASSUME NEW p \in Publishers, Send(p)
      PROVE  /\ \A r \in Reviews : Visible(r) => Visible(r)'
             /\ \A r \in Reviews : CommentSound(r)'
  <2>1. /\ job[p].review \in Reviews /\ shelf[job[p].review].replies = 0
        /\ shelf[job[p].review].shown = "none" /\ UNCHANGED log
        /\ log[job[p].review].status = "in_flight"
    BY <1>1, <1>4 DEF Send, Calls, CallSound, Calling, Job, Ledger, Accepted
  <2>2. CASE UNCHANGED shelf
    BY <1>1, <2>1, <2>2 DEF Visible, CommentSound, Accepted
  <2>3. CASE \E shown \in IF yandex THEN {"unmoderated", "published"} ELSE {"published"} :
               shelf' = [shelf EXCEPT ![job[p].review] = [replies |-> @.replies + 1,
                                                          shown |-> shown]]
    <3>1. /\ \A r \in Reviews \ {job[p].review} : shelf'[r] = shelf[r]
          /\ shelf'[job[p].review].shown # "none"
          /\ ~yandex => shelf'[job[p].review].shown = "published"
      BY <1>1, <2>1, <2>3 DEF Calls
    <3> QED
      BY <1>1, <2>1, <3>1 DEF Visible, CommentSound, Accepted
  <2> QED
    BY <1>4, <2>2, <2>3 DEF Send
<1>5. ASSUME NEW p \in Publishers, NEW result \in {"success", "failed", "ambiguous"},
             Settle(p, result)
      PROVE  /\ \A r \in Reviews : Visible(r) => Visible(r)'
             /\ \A r \in Reviews : CommentSound(r)'
  <2>1. /\ job[p].review \in Reviews /\ UNCHANGED shelf
        /\ log[job[p].review] \in Log
        /\ result = "success" => Accepted(job[p].review)
    BY <1>1, <1>5 DEF Settle, Calls, CallSound, Job
  <2>2. /\ \A r \in Reviews \ {job[p].review} : log'[r] = log[r]
        /\ log'[job[p].review].status = result
        /\ yandex /\ result = "success" =>
             log'[job[p].review].comment = shelf[job[p].review].shown
    BY <1>1, <1>5, <2>1 DEF Settle, Calls, Log
  <2> QED
    BY <1>1, <2>1, <2>2 DEF Visible, CommentSound, Accepted
<1>6. ASSUME NEW r \in Reviews, NEW shown \in {"published", "banned"}, Moderate(r, shown)
      PROVE  /\ \A s \in Reviews : Visible(s) => Visible(s)'
             /\ \A s \in Reviews : CommentSound(s)'
  <2>1. /\ UNCHANGED log /\ \A s \in Reviews \ {r} : shelf'[s] = shelf[s]
        /\ shelf[r].shown = "unmoderated" /\ shelf'[r].shown = shown
    BY <1>1, <1>6 DEF Moderate, Calls, Shelf
  <2> QED
    BY <1>1, <2>1 DEF Visible, CommentSound, Accepted
<1>7. CASE \E p \in Publishers : Reject(p) \/ Defer(p) \/ Look(p) \/ FoundExisting(p) \/ Conflict(p)
  BY <1>2, <1>7 DEF Reject, Defer, Look, FoundExisting, Conflict
<1>8. CASE \E p \in Publishers : Call(p)
  BY <1>3, <1>4, <1>5, <1>7, <1>8 DEF Call
<1>9. CASE Scheduler
  BY <1>2, <1>8, <1>9
     DEF Scheduler, SkipTurn, StartPublish, PassOver, Pick, Check, Book, FinishPublish,
         StartDrafting, FinishDrafting, StartSweep, FinishSweep, Publishers
<1>10. CASE \E q \in Requests : Seller(q)
  BY <1>2, <1>8, <1>10 DEF Seller, StartManual, StartEdit, FinishManual, FinishEdit, Publishers
<1> QED
  BY <1>2, <1>6, <1>9, <1>10 DEF Next, Toggle, Elapse, Crash

\* A success is booked as the log describes it.
LEMMA BookVisible ==
  ASSUME VisibleInv, yandex, Book, NEW r \in DOMAIN dirty', Says(dirty'[r])
  PROVE  Visible(r)
<1> DEFINE k == job[Worker].review
           result == job[Worker].result
           attempts == Least(queue[k].attempts + 1, MaxAttempts)
<1>1. /\ k \in Reviews /\ CommentSound(k) /\ log[k] \in Log
      /\ result = "success" => log[k].status = "success"
  BY DEF VisibleInv, ReviewInv, Calls, CallSound, Job, Publishers, Book
<1>2. PICK hold : dirty' = Over([s \in {k} |-> WorkerBooks(result, k, hold)], dirty)
  BY DEF Book
<1>3. CASE r # k
  BY <1>2, <1>3 DEF Over, VisibleInv
<1>4. CASE r = k
  <2>1. dirty'[r] = WorkerBooks(result, k, hold)
    BY <1>2, <1>4 DEF Over
  <2>2. CASE result = "success"
    <3>1. dirty'[r] = Published(log[k].comment)
      BY <2>1, <2>2 DEF WorkerBooks
    <3>2. log[k].comment \notin {"unmoderated", "banned"}
      BY <3>1 DEF Published, Says
    <3> QED
      BY <1>1, <1>4, <2>2, <3>2 DEF CommentSound, Log, Comments
  <2>3. CASE result = "deferred"
    BY <2>1, <2>3 DEF WorkerBooks, Says
  <2>4. CASE result \in {"ambiguous", "needs_reconcile"}
    BY <2>1, <2>4 DEF WorkerBooks, Says
  <2>5. CASE result \notin {"success", "deferred", "ambiguous", "needs_reconcile"}
    <3>1. dirty'[r] = Failure(attempts)
      BY <2>1, <2>5 DEF WorkerBooks
    <3> QED
      BY <3>1 DEF Failure, Says
  <2> QED
    BY <2>2, <2>3, <2>4, <2>5
<1> QED
  BY <1>3, <1>4

LEMMA SaysStep ==
  ASSUME VisibleInv, yandex, Next, NEW r \in Reviews
  PROVE  /\ Says(row'[r]) => Visible(r)
         /\ r \in DOMAIN dirty' /\ Says(dirty'[r]) => Visible(r)
<1>1. /\ Says(row[r]) => Visible(r)
      /\ r \in DOMAIN dirty /\ Says(dirty[r]) => Visible(r)
      /\ Says(Flushed[r]) => Visible(r)
      /\ DOMAIN None = {}
      /\ IsRow(row[r])
  BY FlushedVisible DEF VisibleInv, None, ReviewInv, Books, RowsSound
<1>2. CASE row' \in {row, Flushed} /\ dirty' \in {dirty, None}
  BY <1>1, <1>2
<1>3. CASE Call(Worker)
  BY <1>2, <1>3
     DEF Call, Reject, Defer, Look, Claim, FoundExisting, Conflict, Send, Settle, Commit, TaskOver
<1>4. CASE Book
  BY <1>1, <1>4, BookVisible DEF Book
<1>5. CASE \E s \in Reviews : Check(s)
  <2>1. PICK s \in Reviews : Check(s)
    BY <1>5
  <2>2. UNCHANGED row /\ dirty' = Over([x \in {s} |-> Verdict(shelf[s].shown)], dirty)
    BY <2>1 DEF Check
  <2>3. Says(Verdict(shelf[s].shown)) => Visible(s)
    BY DEF Verdict, Says, Visible, None
  <2> QED
    BY <1>1, <2>2, <2>3 DEF Over
<1>6. CASE FinishDrafting
  <2>1. PICK drafted \in [text : {Draft}, status : {"approved", "drafted"}] :
          row' = [s \in Reviews |-> IF s \in DOMAIN queue THEN Over(drafted, row[s]) ELSE row[s]]
    BY <1>6 DEF FinishDrafting
  <2>2. Assigns(drafted) /\ ~Says(drafted) /\ "status" \in DOMAIN drafted
    BY <2>1 DEF Assigns, Says, Columns, Replies
  <2>3. CASE r \in DOMAIN queue
    <3>1. row'[r] = Over(drafted, row[r])
      BY <2>1, <2>3
    <3> QED
      BY <1>1, <1>6, <2>2, <3>1, OverSays DEF FinishDrafting, TaskOver
  <2>4. CASE r \notin DOMAIN queue
    BY <1>1, <1>6, <2>1, <2>4 DEF FinishDrafting, TaskOver
  <2> QED
    BY <2>3, <2>4
<1>7. CASE Elapse
  <2>1. PICK wait : row'[r] = [row[r] EXCEPT !.wait = wait]
    BY <1>7 DEF Elapse
  <2>2. Says(row'[r]) => Says(row[r])
    BY <1>1, <2>1 DEF IsRow, Says, Columns
  <2> QED
    BY <1>1, <1>7, <2>2 DEF Elapse
<1>8. CASE SkipTurn \/ StartPublish \/ FinishPublish \/ StartDrafting \/ StartSweep \/ FinishSweep
           \/ \E s \in Reviews : PassOver(s) \/ Pick(s)
  BY <1>2, <1>8
     DEF SkipTurn, StartPublish, FinishPublish, StartDrafting, StartSweep, FinishSweep, PassOver,
         Pick, TaskOver
<1>9. CASE Toggle \/ (\E p \in Publishers : Crash(p))
           \/ \E s \in Reviews, shown \in {"published", "banned"} : Moderate(s, shown)
  BY <1>2, <1>9 DEF Toggle, Crash, Moderate, TaskOver
<1>10. ASSUME NEW q \in Requests, Seller(q)
       PROVE  /\ Says(row'[r]) => Visible(r)
              /\ r \in DOMAIN dirty' /\ Says(dirty'[r]) => Visible(r)
  <2>1. job[q].pc \in {"idle", "writing"}
    BY DEF VisibleInv
  <2>2. ~Call(q) /\ ~FinishManual(q)
    BY <2>1 DEF Call, Reject, Defer, Look, Claim, FoundExisting, Conflict, Send, Settle,
                FinishManual
  <2>3. CASE FinishEdit(q)
    <3>1. job[q].review \in Reviews /\ Assigns(edit[q]) /\ ~Claims(edit[q]) /\ DOMAIN row = Reviews
      BY DEF VisibleInv, ReviewInv, Calls, Job, Publishers, Books, EditsSound, RowsSound
    <3>2. ~Says(edit[q])
      BY <3>1 DEF Claims, Says
    <3>3. CASE r = job[q].review
      <4>1. row'[r] = Over(edit[q], row[r])
        BY <2>3, <3>1, <3>3 DEF FinishEdit
      <4> QED
        BY <1>1, <2>3, <3>1, <3>2, <4>1, OverSays DEF FinishEdit
    <3>4. CASE r # job[q].review
      BY <1>1, <2>3, <3>4 DEF FinishEdit
    <3> QED
      BY <3>3, <3>4
  <2> QED
    BY <1>2, <1>10, <2>2, <2>3 DEF Seller, StartManual, StartEdit
<1> QED
  BY <1>3, <1>4, <1>5, <1>6, <1>7, <1>8, <1>9, <1>10 DEF Next, Scheduler

\* No request calls execute() by hand.
LEMMA ByRuleStep ==
  ASSUME VisibleInv, yandex, Next, ByRule, NEW q \in Requests
  PROVE  job'[q].pc \in {"idle", "writing"}
<1>1. /\ job \in [Publishers -> Job] /\ q \in Publishers /\ q # Worker /\ Idle.pc = "idle"
      /\ \A u \in Requests : job[u].pc \in {"idle", "writing"}
      /\ Requests \subseteq Publishers /\ Idle \in Job
  BY ReviewAssumption, IdleIsJob DEF VisibleInv, ReviewInv, Calls, Publishers
<1>2. CASE job'[q] = job[q]
  BY <1>1, <1>2
<1>3. ASSUME NEW u \in Requests, Seller(u)
      PROVE  job'[q].pc \in {"idle", "writing"}
  <2>1. ~Call(u) /\ ~FinishManual(u) /\ \A r \in Reviews : ~StartManual(u, r)
    BY <1>1 DEF Call, Reject, Defer, Look, Claim, FoundExisting, Conflict, Send, Settle,
                FinishManual, ByRule
  <2>2. CASE FinishEdit(u)
    BY <1>1, <2>2 DEF FinishEdit
  <2>3. CASE \E r \in Reviews : \E change \in Edits(row[r]) : StartEdit(u, r, change)
    BY <1>1, <2>3 DEF StartEdit, Job
  <2> QED
    BY <1>3, <2>1, <2>2, <2>3 DEF Seller
<1>4. ASSUME Call(Worker)
      PROVE  job'[q] = job[q]
  BY <1>1, <1>4 DEF Call, Reject, Defer, Look, Claim, FoundExisting, Conflict, Send, Settle,
                    Return, Goto, TaskOver
<1>5. CASE Scheduler
  BY <1>1, <1>2, <1>4, <1>5
     DEF Scheduler, SkipTurn, StartPublish, PassOver, Pick, Check, Book, FinishPublish,
         StartDrafting, FinishDrafting, StartSweep, FinishSweep, TaskOver, Goto
<1>6. CASE \E p \in Publishers : Crash(p)
  BY <1>1, <1>6 DEF Crash, TaskOver
<1> QED
  BY <1>2, <1>3, <1>5, <1>6 DEF Next, Toggle, Moderate, Elapse

LEMMA VisibleInit == Init => VisibleInv
<1> SUFFICES ASSUME Init PROVE VisibleInv
  OBVIOUS
<1>1. ReviewInv
  BY ReviewInit
<1>2. \A r \in Reviews : CommentSound(r) /\ ~Says(row[r])
  BY DEF Init, CommentSound, Accepted, Says
<1>3. DOMAIN dirty = {} /\ \A q \in Requests : job[q].pc = "idle"
  BY DEF Init, None, Idle, Publishers
<1> QED
  BY <1>1, <1>2, <1>3 DEF VisibleInv

LEMMA VisibleStep ==
  VisibleInv /\ [Next /\ UNCHANGED yandex /\ ByRule]_<<vars, yandex>> => VisibleInv'
<1> SUFFICES ASSUME VisibleInv, [Next /\ UNCHANGED yandex /\ ByRule]_<<vars, yandex>>
             PROVE  VisibleInv'
  OBVIOUS
<1>1. ReviewInv'
  BY ReviewStep DEF VisibleInv
<1>2. CASE Next /\ UNCHANGED yandex /\ ByRule
  <2>1. /\ \A r \in Reviews : Visible(r) => Visible(r)'
        /\ \A r \in Reviews : CommentSound(r)'
    BY <1>2, CommentStep
  <2>2. CASE yandex
    <3>1. /\ \A r \in Reviews : Says(row'[r]) => Visible(r)
          /\ \A r \in Reviews : r \in DOMAIN dirty' /\ Says(dirty'[r]) => Visible(r)
      BY <1>2, <2>2, SaysStep
    <3>2. DOMAIN dirty' \subseteq Reviews
      BY <1>1 DEF ReviewInv, Books, DirtySound
    <3>3. /\ \A r \in Reviews : Says(row[r])' => Visible(r)'
          /\ \A r \in DOMAIN dirty' : Says(dirty[r])' => Visible(r)'
      BY <2>1, <3>1, <3>2 DEF Says
    <3>4. \A q \in Requests : job'[q].pc \in {"idle", "writing"}
      BY <1>2, <2>2, ByRuleStep
    <3> QED
      BY <1>1, <2>1, <3>3, <3>4 DEF VisibleInv
  <2>3. CASE ~yandex
    BY <1>1, <1>2, <2>1, <2>3 DEF VisibleInv
  <2> QED
    BY <2>2, <2>3
<1>3. CASE UNCHANGED <<vars, yandex>>
  BY <1>1, <1>3 DEF vars, VisibleInv, CommentSound, Visible, Accepted, Says
<1> QED
  BY <1>2, <1>3

LEMMA VisibleImplies == VisibleInv => PublishedIsVisible
<1> SUFFICES ASSUME VisibleInv, NEW r \in Reviews, row[r].status = "published"
             PROVE  Visible(r)
  BY DEF PublishedIsVisible, Visible
<1>1. Says(row[r]) /\ Claims(row[r]) /\ CommentSound(r)
  BY DEF VisibleInv, ReviewInv, Books, RowsSound, IsRow, Columns, Says, Claims
<1>2. Accepted(r)
  BY <1>1 DEF VisibleInv, ReviewInv, Books, RowsSound
<1> QED
  BY <1>1, <1>2 DEF VisibleInv, CommentSound, Visible

\* The worker, the moderation sweep and sellers who edit and approve call a
\* review published only when buyers see the reply, on every marketplace; and
\* so do sellers who publish by hand where nothing is moderated.
THEOREM PublishedIsSeen == SpecByRule => []PublishedIsVisible
<1> QED
  BY VisibleInit, VisibleStep, VisibleImplies, PTL DEF SpecByRule

=============================================================================
