------------------------- MODULE ReviewPublication -------------------------
(***************************************************************************)
(* The replies to reviews and everybody who moves them: the scheduler      *)
(* (tasks/auto_review_pipeline.py, tasks/auto_publish_reviews.py) drafts,  *)
(* asks what the moderators decided and publishes; sellers                 *)
(* (routers/reviews.py) draft, edit, approve and publish by hand.  Both    *)
(* publish through services/marketplace/executor.py under one key per      *)
(* review.  Here the executor is the few steps AtMostOnceOperation allows: *)
(* one claim, one send, one verdict; what it answers is what it answers.   *)
(***************************************************************************)
EXTENDS Naturals, Sequences, FiniteSets

CONSTANTS
  Reviews,      \* synced SAFE reviews on one connection
  Requests,     \* concurrent requests of the seller
  Worker,       \* the scheduler's loop, one per process
  Texts,        \* texts a seller writes
  Markets,      \* the values of yandex that this instance covers
  MaxAttempts,  \* _MAX_ATTEMPTS
  MaxWait,      \* _BACKOFF_CAP_MIN, in units of _BACKOFF_BASE_MIN
  BreakerFails, \* _BREAKER_FAILS
  Window,       \* _BREAKER_WINDOW_MIN, in the same units
  Batch,        \* MODERATION_BATCH
  MaxTroubles   \* bound: crashes, deferrals and failed sweeps altogether

ASSUME ReviewAssumption ==
  /\ Reviews # {}
  /\ Worker \notin Requests
  /\ {MaxAttempts, MaxWait, BreakerFails} \subseteq Nat \ {0}
  /\ {Window, Batch, MaxTroubles} \subseteq Nat
  /\ Markets \subseteq BOOLEAN

VARIABLES
  row,       \* Reviews -> the columns of review_responses
  log,       \* Reviews -> the execution log under the review's key
  shelf,     \* Reviews -> what the marketplace has
  enabled,   \* AutomationRule.enabled with consent
  job,       \* Worker and Requests -> the call of execute() in hand
  edit,      \* Requests -> the columns about to be written
  queue,     \* the worker's session: the rows it selected, as selected
  dirty,     \* the worker's session: changed columns, not committed
  recent,    \* the youngest automated log rows, oldest first
  turn,      \* what the scheduler's loop does next
  troubles,
  yandex     \* replies are moderated, claims look before they insert; never changes

vars == <<row, log, shelf, enabled, job, edit, queue, dirty, recent, turn, troubles>>

Publishers == {Worker} \cup Requests

NoText == "no text"
Draft  == "draft"       \* build_draft is a function of the review
Replies == Texts \cup {Draft}

\* "approved" stands for all of _PUBLISHABLE but "pending".
Row == [status   : {"pending", "approved", "drafted", "awaiting_moderation", "published", "failed"},
        text     : Replies \cup {NoText},
        attempts : 0 .. MaxAttempts,                  \* saturates
        wait     : 0 .. MaxWait,                      \* until retry_next_at
        reason   : {"none", "error", "unconfirmed"}]  \* failure_reason

\* What is read later of a row that a task has selected.
Loaded(rec) == [text |-> rec.text, attempts |-> rec.attempts, wait |-> rec.wait]

Columns == {"status", "text", "attempts", "wait", "reason"}

Comments == {"none", "unmoderated", "published", "banned"}

Log == [status : {"none", "in_flight", "success", "failed", "ambiguous"},
        mode   : {"none", "manual_l3", "automated_l4"},
        text   : Replies \cup {NoText},
        comment : Comments]             \* comment_status of the result

Shelf == [replies : Nat, shown : Comments]

Results == {"none", "success", "failed", "ambiguous", "needs_reconcile", "rejected", "deferred"}

\* pc: idle; looking, claiming, sending, sent, told: a call of execute();
\* writing: an edit about to commit; choosing, drafting, moderating: the
\* worker inside a task.
Job == [pc      : {"idle", "looking", "claiming", "sending", "sent", "told", "writing",
                   "choosing", "drafting", "moderating"},
        review  : Reviews,
        text     : Replies \cup {NoText},
        attempts : 0 .. MaxAttempts,    \* as the request read them
        result  : Results,
        applied : BOOLEAN]              \* history: the marketplace took the reply

\* A row with some of its columns only.
IsChange(change) ==
  DOMAIN change \subseteq Columns /\ \E full \in Row : \A c \in DOMAIN change : change[c] = full[c]

TypeOK ==
  /\ row \in [Reviews -> Row]
  /\ log \in [Reviews -> Log]
  /\ shelf \in [Reviews -> Shelf]
  /\ enabled \in BOOLEAN
  /\ job \in [Publishers -> Job]
  /\ DOMAIN edit = Requests /\ \A q \in Requests : IsChange(edit[q])
  /\ DOMAIN queue \subseteq Reviews /\ \A r \in DOMAIN queue : queue[r] \in {Loaded(rec) : rec \in Row}
  /\ DOMAIN dirty \subseteq Reviews /\ \A r \in DOMAIN dirty : IsChange(dirty[r])
  /\ recent \in Seq([age : 0 .. Window, good : BOOLEAN]) /\ Len(recent) <= BreakerFails
  /\ turn \in {"draft", "moderate", "publish"}
  /\ troubles \in 0 .. MaxTroubles
  /\ yandex \in Markets

None == [r \in {} |-> 0]   \* nothing selected, nothing changed

Idle == [pc |-> "idle", review |-> CHOOSE r \in Reviews : TRUE, text |-> NoText,
         attempts |-> 0, result |-> "none", applied |-> FALSE]

\* review ingestion: a new row is pending and has no text.
Init ==
  /\ row = [r \in Reviews |-> [status |-> "pending", text |-> NoText, attempts |-> 0,
                               wait |-> 0, reason |-> "none"]]
  /\ log = [r \in Reviews |-> [status |-> "none", mode |-> "none", text |-> NoText,
                               comment |-> "none"]]
  /\ shelf = [r \in Reviews |-> [replies |-> 0, shown |-> "none"]]
  /\ enabled = TRUE
  /\ job = [p \in Publishers |-> Idle]
  /\ edit = [q \in Requests |-> None]
  /\ queue = None
  /\ dirty = None
  /\ recent = <<>>
  /\ turn = "draft"
  /\ troubles = 0
  /\ yandex \in Markets

Trouble == troubles < MaxTroubles /\ troubles' = troubles + 1

Least(a, b) == IF a < b THEN a ELSE b

\* What change says, and the rest of f.
Over(change, f) ==
  [c \in DOMAIN change \cup DOMAIN f |-> IF c \in DOMAIN change THEN change[c] ELSE f[c]]

Mode(p) == IF p = Worker THEN "automated_l4" ELSE "manual_l3"

Goto(p, to) == job' = [job EXCEPT ![p].pc = to]

\* execute() returns.
Return(p, result) ==
  job' = [job EXCEPT ![p] = [@ EXCEPT !.pc = "told", !.result = result, !.text = NoText,
                                      !.applied = FALSE]]

\* Every commit of the session writes the changed columns of its rows, and
\* those only.
Flushed == [r \in Reviews |-> IF r \in DOMAIN dirty THEN Over(dirty[r], row[r]) ELSE row[r]]

Commit(p) ==
  IF p = Worker THEN row' = Flushed /\ dirty' = None ELSE UNCHANGED <<row, dirty>>

Without(f, r) == [s \in DOMAIN f \ {r} |-> f[s]]

After == [draft |-> "moderate", moderate |-> "publish", publish |-> "draft"]

\* A task of the scheduler is over, and its loop goes on.
TaskOver ==
  /\ job' = [job EXCEPT ![Worker] = Idle]
  /\ queue' = None
  /\ dirty' = None
  /\ turn' = After[turn]

Select(P(_)) == [r \in {s \in Reviews : P(row[s])} |-> Loaded(row[r])]

(***************************************************************************)
(* The publish task.                                                       *)
(***************************************************************************)

\* _breaker_tripped.
BreakerTripped ==
  Len(recent) = BreakerFails /\ \A i \in 1 .. Len(recent) : ~recent[i].good

Publishable(rec) == rec.status \in {"pending", "approved"}

\* The rule and the candidates are read once; later reads of the session give
\* the same objects back as they were loaded.
StartPublish ==
  /\ job[Worker].pc = "idle" /\ turn = "publish"
  /\ enabled /\ ~BreakerTripped
  /\ queue' = Select(Publishable)
  /\ Goto(Worker, "choosing")
  /\ UNCHANGED <<row, log, shelf, enabled, edit, dirty, recent, turn, troubles>>

SkipTurn ==
  /\ job[Worker].pc = "idle"
  /\ ~enabled \/ (turn = "publish" /\ BreakerTripped)
  /\ TaskOver
  /\ UNCHANGED <<row, log, shelf, enabled, edit, recent, troubles>>

\* Still in backoff, or nothing to say.
PassOver(r) ==
  /\ job[Worker].pc = "choosing"
  /\ r \in DOMAIN queue
  /\ queue[r].wait > 0 \/ queue[r].text = NoText
  /\ queue' = Without(queue, r)
  /\ UNCHANGED <<row, log, shelf, enabled, job, edit, dirty, recent, turn, troubles>>

\* assert_auto_publish_allowed again, on the rule as it was loaded; then
\* execute() with the text as it was loaded.
Pick(r) ==
  /\ job[Worker].pc = "choosing"
  /\ r \in DOMAIN queue
  /\ queue[r].wait = 0 /\ queue[r].text # NoText
  /\ job' = [job EXCEPT ![Worker] = [Idle EXCEPT !.pc = "looking", !.review = r,
                                                !.text = queue[r].text]]
  /\ UNCHANGED <<row, log, shelf, enabled, edit, queue, dirty, recent, turn, troubles>>

\* _backoff_minutes.
Backoff(attempts) == Least(IF attempts = 0 THEN 1 ELSE 2 ^ (attempts - 1), MaxWait)

\* Mutant: the ceiling is not looked at.
FailureOpen(attempts) ==
  [attempts |-> attempts, reason |-> "error", wait |-> Backoff(attempts)]

\* A failure that may be retried: backoff, or the end at the ceiling.
Failure(attempts) ==
  IF attempts >= MaxAttempts
  THEN [attempts |-> attempts, reason |-> "error", wait |-> 0, status |-> "failed"]
  ELSE [attempts |-> attempts, reason |-> "error", wait |-> Backoff(attempts)]

\* derive_state, as far as a publication was attempted.
DeriveState(rec) ==
  CASE rec.status = "published" -> "PUBLISHED"
    [] rec.status # "published" /\ rec.reason # "none" -> "FAILED"
    [] OTHER -> rec.status

\* _apply_publish_result.
Published(comment) ==
  CASE comment = "unmoderated" -> [status |-> "awaiting_moderation", wait |-> 0]
    [] comment = "banned"      -> [status |-> "failed", reason |-> "error", wait |-> 0]
    [] OTHER                   -> [status |-> "published"]

\* What the worker writes of an answer; a hold says itself until when.
WorkerBooks(result, r, hold) ==
  LET attempts == Least(queue[r].attempts + 1, MaxAttempts) IN
  CASE result = "success"  -> Published(log[r].comment)
    [] result = "deferred" -> [wait |-> hold]
    [] result \in {"ambiguous", "needs_reconcile"} ->
         [attempts |-> attempts, reason |-> "unconfirmed", wait |-> 0, status |-> "failed"]
    [] OTHER -> Failure(attempts)

Book ==
  LET r == job[Worker].review IN
  /\ job[Worker].pc = "told"
  /\ \E hold \in IF job[Worker].result = "deferred" THEN 1 .. MaxWait ELSE {0} :
       dirty' = Over([s \in {r} |-> WorkerBooks(job[Worker].result, r, hold)], dirty)
  /\ queue' = Without(queue, r)
  /\ job' = [job EXCEPT ![Worker] = [Idle EXCEPT !.pc = "choosing"]]
  /\ UNCHANGED <<row, log, shelf, enabled, edit, recent, turn, troubles>>

FinishPublish ==
  /\ job[Worker].pc = "choosing" /\ DOMAIN queue = {}
  /\ row' = Flushed
  /\ TaskOver
  /\ UNCHANGED <<log, shelf, enabled, edit, recent, troubles>>

(***************************************************************************)
(* execute() of a publication, for whoever calls it.                       *)
(***************************************************************************)

\* _resolve_existing; the fingerprint covers the mode and the text.
Existing(p) ==
  LET prior == log[job[p].review] IN
  IF prior.mode = Mode(p) /\ prior.text = job[p].text /\ prior.status = "success"
  THEN "success" ELSE "needs_reconcile"

Taken(p) == log[job[p].review].status # "none"

\* The breaker counts the youngest automated rows.
Counted ==
  LET longer == Append(recent, [age |-> 0, good |-> FALSE]) IN
  recent' = IF Len(longer) > BreakerFails THEN Tail(longer) ELSE longer

CountIf(p) == IF p = Worker THEN Counted ELSE UNCHANGED recent

\* No connection, a cap or another guard: a row without key is committed.
Reject(p) ==
  /\ job[p].pc = "looking"
  /\ Return(p, "rejected")
  /\ CountIf(p)
  /\ Commit(p)
  /\ UNCHANGED <<log, shelf, enabled, edit, queue, turn, troubles>>

\* The cabinet is held.
Defer(p) ==
  /\ job[p].pc = "looking" /\ yandex
  /\ Trouble
  /\ Return(p, "deferred")
  /\ UNCHANGED <<row, log, shelf, enabled, edit, queue, dirty, recent, turn>>

\* Yandex looks for the key before the admission and again under its lock,
\* the others insert.
Look(p) ==
  /\ job[p].pc = "looking"
  /\ IF yandex /\ Taken(p) THEN Return(p, Existing(p)) ELSE Goto(p, "claiming")
  /\ UNCHANGED <<row, log, shelf, enabled, edit, queue, dirty, recent, turn, troubles>>

\* Mutant: the key is not unique.
ClaimAnyway(p) ==
  /\ job[p].pc = "claiming"
  /\ log' = [log EXCEPT ![job[p].review] = [status |-> "in_flight", mode |-> Mode(p),
                                            text |-> job[p].text, comment |-> "none"]]
  /\ Goto(p, "sending")
  /\ CountIf(p)
  /\ Commit(p)
  /\ UNCHANGED <<shelf, enabled, edit, queue, turn, troubles>>

Claim(p) ==
  /\ job[p].pc = "claiming" /\ ~Taken(p)
  /\ log' = [log EXCEPT ![job[p].review] = [status |-> "in_flight", mode |-> Mode(p),
                                            text |-> job[p].text, comment |-> "none"]]
  /\ Goto(p, "sending")
  /\ CountIf(p)
  /\ Commit(p)
  /\ UNCHANGED <<shelf, enabled, edit, queue, turn, troubles>>

FoundExisting(p) ==
  /\ job[p].pc = "claiming" /\ Taken(p) /\ yandex
  /\ Return(p, Existing(p))
  /\ UNCHANGED <<row, log, shelf, enabled, edit, queue, dirty, recent, turn, troubles>>

\* The INSERT fails and the session is rolled back: its changes are gone and
\* every object in it is expired.  Only a success that is the last thing of
\* its task is still written, because nothing is read for it; the first read
\* of an expired attribute raises and ends the task, or the request.
Conflict(p) ==
  /\ job[p].pc = "claiming" /\ Taken(p) /\ ~yandex
  /\ IF Existing(p) = "success" /\ (p = Worker => DOMAIN queue = {job[p].review})
     THEN Return(p, "success") /\ (IF p = Worker THEN dirty' = None ELSE UNCHANGED dirty)
                               /\ UNCHANGED <<queue, turn>>
     ELSE IF p = Worker THEN TaskOver
     ELSE job' = [job EXCEPT ![p] = Idle] /\ UNCHANGED <<queue, dirty, turn>>
  /\ UNCHANGED <<row, log, shelf, enabled, edit, recent, troubles>>

\* The marketplace takes the reply, as it is moderated, or does not get it.
Send(p) ==
  LET r == job[p].review IN
  /\ job[p].pc = "sending"
  /\ \/ /\ \E shown \in IF yandex THEN {"unmoderated", "published"} ELSE {"published"} :
            shelf' = [shelf EXCEPT ![r] = [replies |-> @.replies + 1, shown |-> shown]]
        /\ job' = [job EXCEPT ![p].pc = "sent", ![p].applied = TRUE]
     \/ UNCHANGED shelf /\ Goto(p, "sent")
  /\ UNCHANGED <<row, log, enabled, edit, queue, dirty, recent, turn, troubles>>

Good(p, result) ==
  IF p = Worker /\ result = "success" /\ recent # <<>>
  THEN recent' = [recent EXCEPT ![Len(recent)].good = TRUE]
  ELSE UNCHANGED recent

\* The answer, or none; the terminal commit.
Settle(p, result) ==
  LET r == job[p].review IN
  /\ job[p].pc = "sent"
  /\ result \in IF job[p].applied THEN {"success", "ambiguous"} ELSE {"failed", "ambiguous"}
  /\ log' = [log EXCEPT ![r].status = result,
                        ![r].comment = IF yandex /\ result = "success" THEN shelf[r].shown
                                                                       ELSE "none"]
  /\ Return(p, result)
  /\ Good(p, result)
  /\ Commit(p)
  /\ UNCHANGED <<shelf, enabled, edit, queue, turn, troubles>>

(***************************************************************************)
(* Drafting and the moderation sweep.                                      *)
(***************************************************************************)
Undrafted(rec) == rec.status = "pending" /\ rec.text = NoText

StartDrafting ==
  /\ job[Worker].pc = "idle" /\ turn = "draft" /\ enabled
  /\ queue' = Select(Undrafted)
  /\ Goto(Worker, "drafting")
  /\ UNCHANGED <<row, log, shelf, enabled, edit, dirty, recent, turn, troubles>>

\* One commit for all; the rule in mode auto hands its rows to the worker,
\* one that asks for confirmation leaves them to the seller.
FinishDrafting ==
  /\ job[Worker].pc = "drafting"
  /\ \E drafted \in [text : {Draft}, status : {"approved", "drafted"}] :
       row' = [r \in Reviews |-> IF r \in DOMAIN queue THEN Over(drafted, row[r]) ELSE row[r]]
  /\ TaskOver
  /\ UNCHANGED <<log, shelf, enabled, edit, recent, troubles>>

Awaiting(rec) == rec.status = "awaiting_moderation"

\* SELECT ... LIMIT without ORDER BY: any Batch of them.
StartSweep ==
  /\ job[Worker].pc = "idle" /\ turn = "moderate" /\ enabled
  /\ \E rows \in SUBSET DOMAIN Select(Awaiting) :
       /\ Cardinality(rows) = Least(Batch, Cardinality(DOMAIN Select(Awaiting)))
       /\ queue' = [r \in rows |-> Loaded(row[r])]
  /\ Goto(Worker, "moderating")
  /\ UNCHANGED <<row, log, shelf, enabled, edit, dirty, recent, turn, troubles>>

\* Mutant: a reply that is not decided yet counts as shown.
VerdictHasty(comment) ==
  IF comment = "banned" THEN [status |-> "failed", reason |-> "error"] ELSE [status |-> "published"]

\* Mutant: the sweep looks for refusals only.
VerdictRefusals(comment) ==
  IF comment = "banned" THEN [status |-> "failed", reason |-> "error"] ELSE None

\* What the moderators say of a reply; not found and UNMODERATED say nothing.
Verdict(comment) ==
  CASE comment = "published" -> [status |-> "published"]
    [] comment = "banned"    -> [status |-> "failed", reason |-> "error"]
    [] OTHER                 -> None

Check(r) ==
  /\ job[Worker].pc = "moderating"
  /\ r \in DOMAIN queue
  /\ dirty' = Over([s \in {r} |-> Verdict(shelf[r].shown)], dirty)
  /\ queue' = Without(queue, r)
  /\ UNCHANGED <<row, log, shelf, enabled, job, edit, recent, turn, troubles>>

\* The end of the batch, or an error that ends it early.
FinishSweep ==
  /\ job[Worker].pc = "moderating"
  /\ IF DOMAIN queue = {} THEN UNCHANGED troubles ELSE Trouble
  /\ row' = Flushed
  /\ TaskOver
  /\ UNCHANGED <<log, shelf, enabled, edit, recent>>

(***************************************************************************)
(* The seller.                                                             *)
(***************************************************************************)

\* publish_review_response up to its call of execute().
StartManual(q, r) ==
  /\ job[q].pc = "idle"
  /\ row[r].text # NoText /\ row[r].status # "published"
  /\ job' = [job EXCEPT ![q] = [Idle EXCEPT !.pc = "looking", !.review = r,
                                           !.text = row[r].text, !.attempts = row[r].attempts]]
  /\ UNCHANGED <<row, log, shelf, enabled, edit, queue, dirty, recent, turn, troubles>>

\* Mutant: the request marks the review before it knows the result.
ManualBooksEarly(result, attempts) ==
  CASE result = "deferred" -> None
    [] OTHER               -> [status |-> "published"]

ManualBooks(result, attempts) ==
  CASE result = "success"  -> [status |-> "published"]
    [] result = "deferred" -> None
    [] result \in {"ambiguous", "needs_reconcile"} ->
         [attempts |-> attempts, reason |-> "unconfirmed"]
    [] OTHER               -> [attempts |-> attempts, reason |-> "error"]

\* The rest of publish_review_response, one commit of the
\* columns it assigns.
FinishManual(q) ==
  LET r == job[q].review IN
  /\ job[q].pc = "told"
  /\ row' = [row EXCEPT ![r] =
               Over(ManualBooks(job[q].result, Least(job[q].attempts + 1, MaxAttempts)), row[r])]
  /\ job' = [job EXCEPT ![q] = Idle]
  /\ UNCHANGED <<log, shelf, enabled, edit, queue, dirty, recent, turn, troubles>>

\* What an edit changes of the row it has read: update, draft and approve.
Edits(rec) ==
  [text : Texts] \cup [status : {"pending", "approved"}]
    \cup [text : Texts, status : {"pending", "approved"}]
    \cup (IF rec.status = "published" THEN {} ELSE {[text |-> Draft, status |-> "drafted"]})

StartEdit(q, r, change) ==
  /\ job[q].pc = "idle"
  /\ change \in Edits(row[r])
  /\ job' = [job EXCEPT ![q] = [Idle EXCEPT !.pc = "writing", !.review = r]]
  /\ edit' = [edit EXCEPT ![q] = change]
  /\ UNCHANGED <<row, log, shelf, enabled, queue, dirty, recent, turn, troubles>>

FinishEdit(q) ==
  LET r == job[q].review IN
  /\ job[q].pc = "writing"
  /\ row' = [row EXCEPT ![r] = Over(edit[q], row[r])]
  /\ job' = [job EXCEPT ![q] = Idle]
  /\ edit' = [edit EXCEPT ![q] = None]
  /\ UNCHANGED <<log, shelf, enabled, queue, dirty, recent, turn, troubles>>

\* The rule is switched, or its consent withdrawn.
Toggle ==
  /\ enabled' = ~enabled
  /\ UNCHANGED <<row, log, shelf, job, edit, queue, dirty, recent, turn, troubles>>

(***************************************************************************)
(* The rest of the world.                                                  *)
(***************************************************************************)
Moderate(r, shown) ==
  /\ shelf[r].shown = "unmoderated"
  /\ shelf' = [shelf EXCEPT ![r].shown = shown]
  /\ UNCHANGED <<row, log, enabled, job, edit, queue, dirty, recent, turn, troubles>>

\* A unit of time passes.
Elapse ==
  /\ row' = [r \in Reviews |-> [row[r] EXCEPT !.wait = IF @ = 0 THEN 0 ELSE @ - 1]]
  /\ recent' = [i \in 1 .. Cardinality({j \in DOMAIN recent : recent[j].age < Window}) |->
                 LET j == i + Cardinality({k \in DOMAIN recent : recent[k].age = Window})
                 IN [recent[j] EXCEPT !.age = @ + 1]]
  /\ UNCHANGED <<log, shelf, enabled, job, edit, queue, dirty, turn, troubles>>

\* The process dies, or one of its tasks.
Crash(p) ==
  /\ job[p].pc # "idle"
  /\ Trouble
  /\ IF p = Worker THEN TaskOver /\ UNCHANGED edit
     ELSE /\ job' = [job EXCEPT ![p] = Idle]
          /\ edit' = [edit EXCEPT ![p] = None]
          /\ UNCHANGED <<queue, dirty, turn>>
  /\ UNCHANGED <<row, log, shelf, enabled, recent>>

Call(p) ==
  \/ Reject(p)
  \/ Defer(p)
  \/ Look(p)
  \/ Claim(p)
  \/ FoundExisting(p)
  \/ Conflict(p)
  \/ Send(p)
  \/ \E result \in {"success", "failed", "ambiguous"} : Settle(p, result)

Scheduler ==
  \/ SkipTurn
  \/ StartPublish
  \/ \E r \in Reviews : PassOver(r) \/ Pick(r) \/ Check(r)
  \/ Book
  \/ FinishPublish
  \/ StartDrafting
  \/ FinishDrafting
  \/ StartSweep
  \/ FinishSweep
  \/ Call(Worker)

Seller(q) ==
  \/ \E r \in Reviews : StartManual(q, r) \/ \E change \in Edits(row[r]) : StartEdit(q, r, change)
  \/ FinishManual(q)
  \/ FinishEdit(q)
  \/ Call(q)

Next ==
  \/ Scheduler
  \/ \E q \in Requests : Seller(q)
  \/ Toggle
  \/ \E r \in Reviews, shown \in {"published", "banned"} : Moderate(r, shown)
  \/ Elapse
  \/ \E p \in Publishers : Crash(p)

Spec == Init /\ [][Next /\ UNCHANGED yandex]_<<vars, yandex>>

\* The scheduler's loop goes on, time passes.  Nobody is made to press a
\* button and the moderators may take for ever.
FairSpec == Spec /\ WF_vars(Scheduler) /\ WF_vars(Elapse)

(***************************************************************************)
(* Properties.                                                             *)
(***************************************************************************)

\* Whatever the worker, the seller and crashes do, a review gets one reply:
\* operation_key.review_key is the same for all of them and for every retry.
OneReplyPerReview == \A r \in Reviews : shelf[r].replies <= 1

\* A review is called published, or sent and waiting for the moderators, only
\* when the marketplace took a reply (routers/reviews.py:256-258, "no local
\* imitation").
PublishedWasAccepted ==
  \A r \in Reviews : row[r].status \in {"published", "awaiting_moderation"} => shelf[r].replies = 1

\* A review is called published only when buyers see the reply
\* (auto_publish_reviews.py:48-50).
PublishedIsVisible ==
  \A r \in Reviews : row[r].status = "published" => shelf[r].shown = "published"

\* A reply handed to the worker does not stay in its queue for ever: it is
\* published or, after backoffs and at the ceiling, failed
\* (auto_publish_reviews.py:6-7).
ApprovedLeavesQueue ==
  \A r \in Reviews :
    (Publishable(row[r]) /\ row[r].text # NoText /\ enabled) ~> (~Publishable(row[r]) \/ ~enabled)

\* What the moderators decided reaches the review
\* (auto_review_pipeline.py:248, "must not be a resting place").
DecidedIsRecorded ==
  \A r \in Reviews :
    (Awaiting(row[r]) /\ shelf[r].shown # "unmoderated" /\ enabled) ~> (~Awaiting(row[r]) \/ ~enabled)

\* The worker starts no publication while the rule is off
\* (auto_publish_reviews.py:178-179, "stops further publishes at once").
DisableStopsPublishing ==
  [][(job[Worker].pc = "choosing" /\ job'[Worker].pc = "looking") => enabled]_vars

\* "Publication not confirmed" is said of a reply only while it may have been
\* published (auto_publish_reviews.py:234), not of one that was refused.
UnconfirmedMeansUnknown ==
  \A r \in Reviews : row[r].reason = "unconfirmed" => log[r].status # "failed"

\* A reply the marketplace took is not shown to the seller as a failure
\* (services/review/state.py:33-34, "unless it later succeeded").
AcceptedIsNotFailed ==
  \A r \in Reviews : Awaiting(row[r]) => DeriveState(row[r]) # "FAILED"

=============================================================================
