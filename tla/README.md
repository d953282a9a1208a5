# A TLA+ model of PULT's marketplace actions

PULT (`src/backend`, Python: FastAPI, async SQLAlchemy, PostgreSQL or SQLite; `src/frontend`,
Next.js) watches competitors on Wildberries, Ozon and Yandex Market and acts on a seller's own
cabinets: it answers reviews, changes prices and cards, switches campaigns. An action is paid for by a
real change in a real shop, so the core of the system is not what it computes but *how often, under
whose authority and with what record* it calls a marketplace. That is the first half of this project.
The second half follows what stands around an action: who may log in and order it, what the data it
rests on is worth, how its effect is measured, and what is paid.

All paths below are relative to `src/backend`.

## 1. Inventory

### The runtime

One uvicorn process serves the requests; every handler is a coroutine with a session of its own. The
scheduler (`tasks/scheduler.py:446-478`) is one more coroutine in it: an endless sequential loop, once
a minute, over reports, review ingestion (sync, draft, moderation sweep), automation (publish),
measurement, advisory, upload clean-up, and three ticks that spawn background tasks (observation
retention, reconciliation, re-own). Sessions are opened with `expire_on_commit=False`
(`database.py:6`). The database runs at READ COMMITTED, so what holds two coroutines apart is a
UNIQUE index, a conditional UPDATE, a row lock, or nothing. Several processes may run at once (a
deployment overlaps the old and the new one), so no module relies on the event loop for atomicity
between two awaits of different coroutines.

### Components

| component | state | operations | what makes it hard | what makes it correct |
|---|---|---|---|---|
| **Executor** `services/marketplace/executor.py`, `models/execution_log.py` | one `execution_logs` row per operation key: status, claim generation, attempts, dispatch moment, fingerprint, links | `execute`, `revert`, dry run | races to one INSERT, a crash at any await, a lost answer of the marketplace, a lost COMMIT acknowledgement | at most one call per key; a success is this request's success; a failure was not applied; a revert is atomic |
| **Recovery** `services/marketplace/recovery/*` | the same rows; `execution_recovery_audit` | re-own sweep, read-only reconciliation sweep, operator resolve, operator authorise-and-resume | stale verdicts between two transactions, repeated operator requests, old workers that come back | dispatch stays single; every conclusion is audited; open rows reach an operator |
| **Yandex cabinet hold** `services/marketplace/ym_review_read_hold.py` | `not_before`, `indeterminate` on the account row | admission of reads and of claims, recording of 420/429, first-write permit | a row lock under a two second timer that may fire around the COMMIT; responses out of order | a claim never lands under a hold it did not see; the hold only grows; nobody waits for ever |
| **Publication of replies** `tasks/auto_publish_reviews.py`, `tasks/auto_review_pipeline.py`, `routers/reviews.py` | `review_responses` row: status, text, attempts, backoff, failure reason; the automation rule | draft, edit, approve, publish by hand, publish by rule, moderation sweep | the scheduler and the seller hold the same row stale; one commit for many replies; rollback expires the session | one reply per review; "published" means taken, and visible; retries end |
| **Confirmed decisions, effect observation** `services/decision_apply_ux/confirm.py`, `services/decision_outcome/*` | links, decisions, `engine_effect_observation` | promote, confirm and apply, open, close | opening is for the user, not for the decision; closes overlap | what is observed was applied; one observation per decision, closed once |
| **Decision outcomes** `services/decision_measurement.py`, `services/measurement_close_bridge.py`, `services/refuted_loop.py` | outcome, realized facts, memory, follow-up decisions | open after a success, close when due, remember, follow up | four transactions per outcome; two passes over the same rows; row locks kept while skipping | a label is final; what is remembered agrees with it; a pass ends |
| **API data sync, observations** `tasks/api_sync.py`, `services/marketplace/ingest/*`, `services/marketplace/retention/observation_sweep.py` | one `api_sync_states` row per feed with cursor and coverage; versions of prices and promotions | pass, page, park, pause; change-only insert; retention | a walk spread over passes, crashes and a changing listing; retention beside comparison with the latest version | coverage is claimed of complete walks only; no change-point is lost early; a walk ends or its dead end is known |
| **Authentication throttle** `services/auth_throttle.py` | buckets per dimension | reserve, release, clean-up | three counters in a row, release after a reset, writes out of order | failures stay counted; a lock needs several sources; a block lasts |
| **Sessions, passwords, second factor** `routers/auth.py`, `routers/mfa.py`, `dependencies.py` | password version, deletion, secret, last used step; cookies | log in, enter a code, set up, switch, log out, reset, delete, restore | every handler reads the account, commits elsewhere, and answers later | a session that a password opened ends with the reset or deletion of that password and implies, if switched on, a code; a code is used once |
| **Promo codes** `routers/promo.py` | one counter, activations | apply, switch | the last slot, double submission | the cap, one activation per user |
| **Payments** `routers/payments.py` | payment row, plan | create, webhook, status page | two writers over one status; the provider knows before we do | a paid payment is not lost; a settled one stays settled |
| **CSV import** `routers/csv_import.py`, `tasks/uploads_cleanup.py` | `import_records`: pending, processing, confirmed, failed; rows; placements; the file | upload, confirm as new or as overwrite, sweep | two confirmations; duplicates found under a lock; a crash in processing | a file counts once; only a confirmed import has rows |
| **HTTP client** `services/marketplace/base_client.py` | none | one request with retries, throttling | which errors leave the outcome open | a write is never repeated after it may have arrived |
| **Policy guard** `services/marketplace/guard.py` | none, counts log rows | daily and burst caps | counts committed successes only | the cap, and by how much it may be overrun |
| **Review ingestion** `tasks/auto_review_pipeline.py:147-235`, `services/marketplace/review_ingest.py` | cursor, failure count, next sync moment | sync a batch | backoff, wrap of the cursor, duplicates | every product is reached |
| routers, schemas, analytics, frontend, operations scripts, CI | — | — | — | sequential or presentation; not modelled |

Components interact through calls and shared rows: scheduler and routers call the executor; the
executor asks the guard, then (Yandex replies) the cabinet hold, then the client; recovery works on the
executor's rows and, for a resume, enters the executor's dispatch; the publication loop writes its own
rows from the executor's answers; confirmations call the executor and then open observations; the
measurement opens an outcome from the executor's success. `PROJECT.json` lists the hazards line by line.

## 2. Modules

```
AtMostOnceOperation      what a key promises          (abstract)
   ^ implemented by
ExecutionLog  <- Executor <- Recovery <- ExecutionSystem <- MCExecutionSystem
                                             ^ ExecutionSystemProofs
CabinetHold        ReviewPublication     around the executor:   admission, replies
EffectObservation  Measurement           after it:              effects, outcomes
ApiSync            CsvImport             before it:             the data
AuthThrottle  Access  Billing            who may, and for what money
```

Their theorems are in modules that extend them: `AccountProofs` for `Access` and `Billing`, `OutcomeProofs`
for `EffectObservation` and `Measurement`, and one `Proofs` module each for the others
(`CabinetHoldProofs`, ...); section 4 says what they state.
Each of the last nine has an `MC` module of its own that fixes its instance. They are not composed
with the executor: what they take from it is the promise of `AtMostOnceOperation`, one send and one
verdict per key, which `ExecutionSystem` is shown to implement. `CabinetHold`, which models the path of
a reply from admission to send itself, is shown to implement it too. Where a definition is introduced with
"Mutant:", it is a plausible bug of the definition it precedes and is not part of the specification.

### ExecutionLog, Executor, Recovery, ExecutionSystem

`ExecutionLog` is the row and every statement that reads or writes it as an operator: the claim
(`_new_log`), the fencing CAS, the re-own CAS, the eligibility of a resume, the candidates and the
update of the sweep, and `_resolve_existing`, the answer to a taken key. `Executor` is one `execute()`
per caller: a caller's `pc` names the await it stands at.

| action | code |
|---|---|
| `Request`, `Decline` | the arguments of `execute`/`revert`, and every rejection before the claim |
| `Claim` | INSERT of the pending row, or IntegrityError and the answer from the winner's row |
| `ResolveCredentials`, `PreDispatchFailure` | between the claim and the fence |
| `Fence`, `FenceLost`, `FenceError` | the CAS pending → in_flight by id, status and generation; zero rows; an exception around it, whose COMMIT may have landed |
| `Dispatch`, `ProviderActs`, `Answer` | the call, what the marketplace does with it, the answer or none |
| `Finalize` | the terminal commit, for a revert together with the original |
| `Crash` | the process dies or the task is cancelled, anywhere |

`Recovery` adds `Reown`, `SweepRead`/`SweepWrite`/`SweepFails`/`BackoffElapses` (the verdicts live in
memory between two transactions), `Resolve` and `Resume`; `ExecutionSystem` composes them and states
the properties. The marketplace (`provider`) counts calls per key and keeps the content it was sent.
Contents stand for payload, connection, marketplace and mode together: the fingerprint covers all of
them. `Finalize` tests the status of a revert's original as the row then stands; the code (`executor.py:623-627`)
may test the copy that `revert` loaded into the same session (`executor.py:638-642`). With redispatch off
only this inverse takes the original out of success, so the two agree; with it on, the late credential
failure of the first divergence below may lie in between, and the code would write "reverted" over it.
Time appears only as "the backoff has elapsed" and "the claim is stale".

`AtMostOnceOperation` is the promise: a key is claimed, then sent once, then perhaps applied.
`Abstract` in `ExecutionSystem` is the refinement mapping.

### CabinetHold

The account row (`hold`), its row lock, the row locks of the log, the database clock, and tasks that
claim, resume or read. Every managed claim is `Begin` → `LockAuthority` → `Allow`/`Deny`/`FoundExisting`
→ `Write` → `CommitConfirmed`/`CommitUnconfirmed`, with `Timeout` at any point of the section; then
`Fence` → `Send` → `Answer`/`Throttled` → `Observe` → `Settle`. A managed read is `BeginRead` →
`AdmitRead`/`DenyRead` → `ReadDone`/`RetryRead`/`Throttled`. A COMMIT whose timer fires may have landed
or not (`Land`). `observed` is a history variable: every bound that was recorded.
Left out: the witnesses of binding and token (a mismatch is a `Deny`), the deployments that do not
manage the cabinet except as claims that bypass the lock (`managed = FALSE`), and the second by which
SQLite rounds a delay up.

### ReviewPublication

The reviews of one connection, the scheduler's loop and the seller's requests. Here the executor is
what `AtMostOnceOperation` leaves of it: one claim, one send, one verdict.

* `row` is the database row; `queue` the rows a task of the scheduler selected, with the columns it
  reads later *as they were then*; `dirty` the columns it has changed and not committed. `Commit` is
  any commit of that session, the executor's own ones included: it writes changed columns and no others.
* The publish task is `StartPublish` (breaker, rule, candidates), `PassOver`, `Pick`, the steps of
  `execute()`, `Book`, `FinishPublish`. The rule is not read again: a second SELECT in one session
  returns the object that is there.
* `Conflict` is the rollback of a lost INSERT. It discards `dirty` and expires the session; the
  task then raises at its next read, unless it is done.
* `yandex`, drawn from `Markets`, tells the marketplaces apart: Yandex looks the key up first and again
  under the cabinet's lock, moderates replies and may defer; the others insert at once and show replies
  at once. Yandex here is a cabinet whose hold is managed; a credential without that authority would
  insert like the others (`executor.py:477-495`) and moderate like Yandex, and is left out.
* The status "approved" stands for all of `_PUBLISHABLE` but "pending".

Left out: ingestion, several rules and connections, reviews that are not SAFE, the kill switch (it is
on), a user deleted in the middle of a task, and an exception other than those named.

### EffectObservation

Links of one seller, with their decisions, the executor reduced to the status of its row for the
decision's key, and the observations. A confirmation is `ConfirmIntent` → `Apply` → (if the answer is a
success) `ReadLinks` → `OpenMissing` for *every* promoted link without an observation; a close, from the page
or from the tick, is `ReadOpen` → `WriteClosed`, row by row and by id. `PromoteLinks` is atomic: it runs
under the decision's UNIQUE key. An exception may leave a subset of the observations.
Besides the property of the run, `EffectTypeOK` and `MeasuredHasEffect` hold (639,395 states in this
instance, and by proof).
Left out: the engines that raise signals, the capability check (a link that fails it stays proposed),
payloads, the bands an effect is put in.

### Measurement

The decisions of one problem are the positions of its action space; a refuted one is followed by the
next. `CheckExisting` → `Open` is `open_measurement` after a success of the executor; a pass of the
close is one session: `SelectDue`, then per outcome `Take` → `Lock` → `Close` (label, realized fact) →
`Remember` → `FindNext` → `FollowUp`, each a transaction. `SkipWithoutToken` goes on *without ending the
transaction*, so the row lock is kept until the next commit; PostgreSQL breaks a cycle of waiting
passes (`Deadlocked`, `DeadlockVictim`), and the pass goes on after the victim's rollback. What is
remembered may be lost by a crash between two of the commits and is not retried; the code calls it
best-effort, and `LedgersMatchOutcome` accordingly says what a memory or a follow-up implies and never
that there is one. Left out: the readers of metrics, the choice of the metric, the context of a
memory, deleted decisions.

### ApiSync

The feeds of one connection and the pass over them: `PassStarts`, then per feed `Park` (a store without
its external id), `NotDue`, or `StartFeed` and pages: an answer (`AnswerListing`, `AnswerWindow`,
`ReportAnswers`) and its commit (`StoreListing`, `StoreWindow`, `StoreReport`), until `EndFeed`.
`Refused` is an `ExecutionError` (the feed is paused, the loop goes on), `Collision` any other exception
(the work on the connection ends). `feeds`, drawn from `Plans`, are named for how they are walked: a
"listing" by pages, a "window" of days, a "report" that is ordered and asked for. `next_run_at` is
abstract: `NotDue` may be taken at any feed, and fairness brings the moment. A version of a price is
its evidence and the day it was observed; 180 and 30 days are two and one. `Paging = "token"` is
Yandex, whose tokens are stable; "offset" is Wildberries, which counts.
`walk` and `story` are history variables: what the walk has yet to meet, and every change that was
stored.

Three ways into a standstill are part of the model, and `WalkEnds` names them (`NoWayOn`): an offer that is
met again in one run with other evidence (`MetAgain`); a Yandex walk whose cursor, which carries every
token walked, outgrows `String(500)` (`Overflows`; `MaxTokens` tokens fit, as PostgreSQL enforces it); a
report that the marketplace has purged or cancelled (`LoseReport`), which is asked for like one that is
not ready. The first two are a `Collision`, and the next pass asks for the same page. A campaign id that
goes away between the gate and the page (`AnswerUnmapped`) ends the walk as done, with the coverage of
the walk before it.

Left out: the resolution of products and their placement, the two-level walk of promotions
(whose cursor carries the list of all promotions, `ozon.py:618`, `wb.py:679`, `yandex.py:739`, in the same
column), the length of backoffs and cadences, the daily renewal of `last_verified_at`, the page cycle guards (a
`Refused`), overlapping passes, and connections that are not verified or have no token (skipped whole).
`run_api_sync_once` is behind `settings.api_data_sync_enabled`, off as shipped, and is called by no tick
("No scheduler tick invokes it", `change_only.py:24`); the sweep has a flag of its own, also off. The
fairness of this module is therefore a requirement on whoever will call it.

### CsvImport

Uploads and the confirmations of them. `SaveFile` and `InsertRecord` are the upload; a confirmation is
`CheckImport` → `Claim` (the conditional UPDATE pending → processing) → `ReadFile` → `LockOwner` (row lock
of the store or the cabinet, then the duplicate guard) → `Persist` or `PersistFails` → `Fail`, and
`Unlink`. Kinds differ in scope: dated rows count per day, snapshots per store, cards per cabinet.
`SweepFile` is the clean-up of files. `LostAck = TRUE` lets a COMMIT land and raise; it is FALSE in the
run and TRUE in one of the divergences below. Left out: parsing, preview, the linking of rows to
products, conflict resolution (`csv_import.py:828-887`).

### AuthThrottle

The buckets of the login with its three dimensions (pair, e-mail, address). `Enter` takes the moment,
`Reserve` walks the dimensions and writes each bucket with one upsert, `Release` gives back what the
success did not use, `Cleanup` deletes stale buckets, `Tick` is time. Requests write in another order
than they took their moment, up to `MaxWait` later. `ledger` is history: the failures that each window
really saw. The other actions of the module have fewer dimensions and other limits.

### Access

One account: the row of `users` with its session version, the secret with its last used step, the
cookies and the half-way tokens that were handed out, and requests that stand between a read and a
commit. Handlers: login (`LoginReadsUser` → `LoginAnswers`), the second step (`CodeReadsUser` →
`CodeReadsSecret` → `CodeClaims`), `Setup`, `Verify`, `Disable`, `Logout`, `DeleteAccount`, the registration
that restores a deleted account (`RestoreReadsUser` → `RestoreWrites`: the account is read without a lock,
written by id, and no session version is added), and, as single steps, `ForgotPassword`, `ResetPassword`,
`VerifyEmail`. A cookie is checked against the account at every request (`Usable`). `retired` is a history
variable: the password there was at the last reset or deletion, the two that revoke sessions. What a
password opened ends with its retirement (`RetiredPasswordIsOut`); a password that is merely replaced, by
a second restoration under way at the same time, revokes nothing (divergence `PasswordInForce`).
Left out: the first registration, e-mails and their repetition, the expiry of tokens; the properties speak
of sessions that a password opened.

### Billing

Payments: `CreateAtProvider` → `InsertRow` → `ReturnUrl`, with a death anywhere; `ReadPayment` →
`AskProvider` → `WritePayment` is both the status page and the webhook. Promo codes: `CheckPromo` →
`InsertActivation` (UNIQUE per user) → `ReserveSlot` (the conditional UPDATE; on zero rows everything is
rolled back), and `TogglePromo`. The surface is behind `settings.billing_enabled`, off as shipped.
Not claimed: that a plan is given at all, since the page asks at most nine times and the webhook
answers ok when it cannot verify; a payment activated twice writes the same end date twice; an older
payment that is activated late overwrites a newer plan; the referral milestone
(`routers/referrals.py:70-100`), which writes the plan too, is not modelled.

## 3. Runs

Bounds are those of the cfg files. In the `Exec_` runs one or two keys are enough because keys share no
state but an operation and its inverse; each additional caller adds only another loser of the same race.

| run | question | bounds |
|---|---|---|
| `Exec_revert` | shipped flags, with the reconciliation sweep: records agree with what was applied, reverts are atomic, verdicts never land on a settled row, open rows reach the operator | an operation and its inverse, 2 contents, 3 callers, 2 rechecks |
| `Exec_redispatch` | every recovery service on: single dispatch, ownership, authorisation; implements `AtMostOnceOperation` | 1 key, 3 callers, 2 operator requests, 1 re-own, 2 rechecks: an old worker, the re-owned claim and a resume meet |
| `Hold_admission` | the hold covers what was recorded and binds every claim that lands; the locked section ends | 2 tasks, 1 key, clock and delays up to 1: a hold starts and ends within a claim |
| `Review_races` | one reply, honest status, under scheduler, seller, crash and hold, on Yandex and elsewhere | 1 review, 1 request (repeated any number of times), 1 text besides the draft |
| `Review_automation` | visible means published; decided means recorded; backoff, breaker and ceiling let every reply go | 2 reviews on Yandex, batch of 2, 2 attempts, no seller |
| `Outcome_close` | a label is final and everything remembered agrees with it; no pass hangs | 2 decisions, 2 requests, 2 passes |
| `Sync_walk` | coverage is honest, no change-point is lost, walks end or stand at a named dead end | 2 offers, one a page and one page a run, so that every walk spans passes; a cursor of 1 token, enough for both offers and too short when one moves to the end meanwhile; 2 changes of the listing or the mapping, 3 days, 1 crash; either a listing, or a window and a report |
| `Import_races` | a file counts once in its scope; only a confirmed import has rows | 2 imports, 2 handlers, 2 stores, a file of one day and one of two, the three kinds |
| `Throttle_spread` | failures stay counted, locks need several sources, blocks last | 2 e-mails, 2 addresses, 4 requests, limits 2, 3, 3, windows of 1, blocks of 2, time to 5: each window ends and starts again, and the numbers meet `Settings` (section 4) |
| `Access_races` | no cookie rests on a retired password or misses its code; one code is accepted once | 2 requests, 3 session versions, 2 secrets, steps to 2 |
| `Billing_races` | paid is not lost, settled stays settled, the cap holds | 2 payments, 2 calls; 3 submissions of 2 users for 1 slot |

`CHECK_DEADLOCK FALSE` stands where the bounds end the behaviour: every key settled and every audit used,
the clock or a counter at its bound. The review runs never stop: the rule can always be switched.

One run is expected to fail.

| run | the code says | and does |
|---|---|---|
| `Effect_unapplied` | `confirm.py:11`, never opens measurement before a successful apply; `confirm.py:44`, for this decision's link | opens an observation for every promoted link of the user, so a decision nobody applied is observed, closed and shown as a proven effect; when it is applied later, nothing is opened any more |

Smaller divergences met on the way. Each has its definition and can be reproduced with the
configuration named, the definition put in its INVARIANTS or PROPERTIES.

| definition | configuration | the code says | and does |
|---|---|---|---|
| `SuccessIsKept` | `Exec_redispatch` | `models/execution_log.py:70-71`, a revived stale worker is fenced out; `executor.py:557`, it never writes a terminal field | a credential failure is written by row id (`executor.py:519-526`), over the success of the resume that took the row over |
| `CasErrorLeavesClaim` | `Exec_redispatch` | `executor.py:540-542`: an error in the CAS phase leaves a pending claim | the COMMIT may have landed: in_flight, and nothing was sent |
| `IntentObservedEndsRechecks` | `Exec_redispatch` | `recovery_sweep.py:223`: intent observed, stop rechecking | it stores NULL, and `recovery_sweep.py:97` reads NULL as due |
| `PendingInverseIsResumable` | `Exec_revert` | `tests/test_operator_resume_pg.py:430`: a supported inverse can be resumed | the claim of an inverse stores no `reverted_from` (`executor.py:746-763`), so its fingerprint never matches |
| `DisableStopsPublishing` | `Review_races` | `auto_publish_reviews.py:178-181`: a disable stops further publishes at once | the gate answers from the session's identity map |
| `AcceptedIsNotFailed` | `Review_races` | `services/review/state.py:33-34`: a failure is shown unless it later succeeded | `failure_reason` outlives an acceptance that awaits moderation (`auto_publish_reviews.py:59`) |
| `UnconfirmedMeansUnknown` | `Review_races` | `auto_publish_reviews.py:234`: the write may have committed | a refused reply ends there too, by way of `PRIOR_FAILED` |
| `PublishedIsVisible` | `Review_races`, `Markets = {TRUE}` | `auto_publish_reviews.py:48-50`: 2xx is not "the buyer can see it" | publishing by hand ignores `comment_status` (`routers/reviews.py:322`) |
| `ApprovedLeavesQueue` | `Review_automation`, `Markets = {FALSE}` | `auto_publish_reviews.py:6-7`: every failure is recorded, with a ceiling | outside Yandex the retry meets its own failed row and raises before it is recorded, each tick |
| `DecidedIsRecorded` | `Review_automation`, `Batch = 1` | `auto_review_pipeline.py:248`: no resting place | LIMIT without ORDER BY |
| `OneObservationPerLink` | `Effect_unapplied` | `models/engine_effect_observation.py:15`: one row per link, metric and window | two confirmations at a time insert two; no UNIQUE constraint |
| `ObservationClosedOnce` | `Effect_unapplied` | `effect_measurement.py:173`: idempotent, only rows not yet measured | the rows are read first and written by id; a second close rewrites them |
| `EnabledSecretWasConfirmed` | `Access_races` | `mfa.py:151`: the user must enter a valid code to activate | a set-up between the check and the write replaces the secret (`mfa.py:164`) |
| `PasswordInForce` | `Access_races` | `models/user.py:35-38`: a reset and a deletion revoke every session, a copied cookie dies at once | two registrations restore one account side by side; the second replaces the password the first one set and a login has used, without a new session version (`auth.py:152-179`), and the cookie lives on |
| `CardIsNotPlaced` | `Import_races` | `csv_import.py:500`: cards are of the cabinet, without placement | a card import that names a store places its products there (`csv_import.py:594`) |
| `FailedHasNoRows` | `Import_races`, `LostAck = TRUE` | `csv_import.py:604`: any error rolls back, then "failed" | a COMMIT that landed unacknowledged leaves rows under "failed" (`csv_import.py:744`) |
| `PausedIsRetried` | `Sync_walk` | `api_sync.py:13`: `next_run_at` gates the next attempt; `models/api_sync_state.py:53`: earliest a scheduler may retry | `_due` answers no for "paused" whatever the moment, and nothing resets the status (`api_sync.py:123`); one refusal stops a feed for good |
| `NewDaysAreCovered` | `Sync_walk`, `MaxChanges = 0` | a finance feed is synced every six hours (`api_sync.py:56`) | the cursor keeps the end of the window of the first sync (`wb.py:411`, `ozon.py:427`) |
| `NothingIsSkipped` | `Sync_walk`, `Paging = "offset"` | `models/api_sync_state.py:34-35`: never a page number or an index | prices and price observations of Wildberries are walked by offset (`wb.py:532`, `wb.py:594`); an offer that leaves shifts the next one out of the walk |
| `EveryWalkEnds` | `Sync_walk` | `ozon.py:321-322`, `tests/test_ozon_cursor_ingest.py:43-46`: a cursor that does not fit its column is a refused page, not a failed commit | the walk of Yandex keeps every token in the cursor and knows no bound but 10,000 pages (`yandex.py:661-672`); a longer walk fails at the same commit on every pass (`api_sync.py:270-273`) and stays "running". So does a report that is purged or cancelled: any status but "done" is "not ready", and it is never ordered again (`wb.py:469-471`) |
| `TroubleIsContained` | `Sync_walk`, `Plans <- MCPlansInLine` | `api_sync.py:242-243`: one store's trouble never blocks another | an offer met again in one run violates the run's UNIQUE key; the exception leaves the loop at the same page on every pass, and the feeds after it never start |

Also seen: `auth_rate_limit_bucket.py:14` says a bucket expires at window start + window + block, the
code writes now + window + block (longer, harmless). `MODERATION_RECHECK_SEC`
(`auto_review_pipeline.py:241`) is used nowhere, the sweep runs every tick. Replies rejected by a daily
cap use up `publication_attempts` and end "failed". An import whose handler dies stays in "processing";
the hash of an overwritten import still refuses the file. `decision_apply.py:117-124` catches a UNIQUE
violation without a rollback (no caller takes that path). Retention may leave two neighbouring versions
with the same evidence. `coverage_complete` is never set by a finance driver, so no period metric can
be taken from the API yet (`source_policy/resolver.py:86`).

### Fairness

* `SweepFairness` (`Exec_revert`): the scheduler calls the sweep at every interval (weak fairness of
  `SweepRead`, `BackoffElapses`); one batch may fail, not all (strong fairness of `SweepWrite`). Nothing is
  assumed of callers, operators or the marketplace: a worker may hang for ever.
* `TimerFairness` (`Hold_admission`): `asyncio.timeout` fires. No lock holder is assumed to go on.
* `ReviewPublication!FairSpec`: the scheduler's loop catches every exception and goes on
  (`scheduler.py:456-475`), time passes. No seller, moderator or switch is fair; crashes,
  deferrals and failed sweeps are bounded by `MaxTroubles`. The two liveness properties let go of a
  row when the rule is switched off.
* `Measurement!PassFairness`: HTTP calls have timeouts, so a pass goes on (weak fairness of its work);
  PostgreSQL queues for a row lock in order (strong fairness of `Lock`) and breaks deadlocks (weak
  fairness of `DeadlockVictim`). That a pass is started is not assumed.
* `ApiSync!PassFairness`: the pass is called again and again (see above), calls time out, `next_run_at`
  comes, and a report that is asked for often enough is ready *unless the marketplace has lost it*; that it
  loses none is not assumed. Nothing is assumed of sellers, offers,
  retention or refusals.

## 4. Proofs

`ExecutionSystemProofs` proves, for any number of keys, contents, callers
and operator requests, what the `Exec_` runs check for a few. It assumes the ASSUMEs of the modules
and nothing else (what kind of values the constants are; that no inverse is its own original and no
two inverses share one, which is how revert keys are derived; that flags are Booleans).

1. `DispatchInv` is the inductive invariant behind all of it. Besides the types:
   * `RowInv`: a row has `attempt_count = 1` exactly when it has a dispatch moment;
   * `ProviderInv`: the marketplace was called at most once per key, and only for a started row;
   * `CallerInv`: what a caller remembers agrees with the row and the marketplace. A caller past
     the fence has the row's generation, one that is about to send finds a marketplace that was not
     called, and an answer in hand says what happened there;
   * `UniqueInv`: one caller past the fence per key;
   * `SuccessInv`: a success was applied with the row's content, and nobody is active with its key.

   `AtMostOneDispatch` alone is not inductive: nothing in it says that a caller about to send is the
   only one. `UniqueInv` needs the generations of `CallerInv`, they need `RowInv` (a started row passes
   no CAS). From `DispatchInv` follow `TypeCorrect`, `DispatchedOnce`, `DispatchAccounted`,
   `OwnerDispatches` and `SuccessIsHonest`.
2. `AuditInv` adds that an authorisation has started its row, which no second authorisation accepts.
   It gives `AuthorizedAtMostOnce` and `ResolutionAudited` (which no run needs to repeat).
3. `Refinement`: under `DispatchInv` every step claims, sends, applies or stutters.
4. `CleanInv` (an absent row carries nothing) with `DispatchInv` gives `SettledStays`.
5. `ExclusiveInv` is about operations no operator resumes: inverses, whose stored fingerprint never
   matches, and every operation while redispatch is off. Such a claim stays with the caller that made
   it (`HolderInv`), undispatched until its own fence (`ClaimInv`), so its failure is the truth
   (`FailedInv`). `RevertInv` adds the pair: a begun inverse has an original that was applied and is
   over (`BegunInv`), and their statuses move together (`PairInv`). They give `RevertsAtomically` and
   `InverseComesSecond` in every configuration, and `FailedIsFinal` and `SuccessIsFinal` for
   `RedispatchEnabled = FALSE`. With redispatch on, the last one is false (the first divergence above).

`AccountProofs` proves what `Access_races` and `Billing_races` check, for any number of
handlers, versions, steps, secrets, payments, calls, sellers and requests (of constants they assume
that the bounds and the cap are numbers, that every request has a seller, and that sellers are finitely
many).

6. `AccessInv`. What a password opened (a cookie, an `mfa_pending` token, a handler under way) is stamped
   with the version of the moment the account was read: `StampInv` says that it is of the past, or that
   its password is younger than the last one retired and the account is not deleted. (It may be
   replaced: two restorations can overlap.) `BumpKeeps` is the one lemma
   behind every revocation. `FactorInv` adds that no bare login has the present version while the
   factor is on, `StepInv` that no step beyond the last one spent was ever accepted. That a record of the
   second factor is never deleted is part of it: a new record would start at step 0 again.
7. `PayInv`. `SettledIsKept` says nothing of what the handlers remember, so it is not inductive. `CallInv`
   does: whatever is remembered as settled is what YooKassa says, hence a handler writes a settled
   status only, and the provider's own (`WritesTheTruth`). `CreateInv` orders the creation: the row is
   committed before anyone can pay.
8. `PromoInv`: an open INSERT is its seller's only row, and the counter is the number of sellers who hold
   the code; the step that takes a slot adds one to both (`ReservedSlot`).

The remaining modules prove what the runs named in section 3 check of `CabinetHold`, `ReviewPublication`,
`CsvImport`, `Measurement` and `AuthThrottle`, again for any number of actors and any bounds. Where a
theorem has a hypothesis, it is named below with the reason.

9. `HoldInv` (`CabinetHoldProofs`). `HoldCoversObservations` and `OneSendPerClaim` say nothing of tasks
   under way. `Admitted` does: whoever was admitted has the cabinet's lock until its COMMIT, so the hold
   it read is still the hold. `Deferrable` says that nothing has landed while an admission may still end
   as "deferred", `Claiming` what the row looks like from each place, `Alone` that a key has one open
   INSERT and one sender; without it two senders could each find that nothing was sent. `ClaimsHonourHold`
   follows from `Admitted`: the moment of landing is after the bound, since the clock does not go back.
   Assumed: there is a key (`Ops # {}`). Under `HoldInv` every step claims, sends or stutters in the sense of
   `AtMostOnceOperation` (`HoldImplements`): the first COMMIT that lands is the claim, whoever waits for its
   answer, and the COMMIT of a resume is none.
10. `ReviewInv` (`ReviewPublicationProofs`) is two arguments that meet. `Calls` is about `execute()`: who
   sends under a key is alone and nothing was sent, and a success told or logged is of a reply that
   exists. `Books` and `InHand` are about the sessions: each column set that can still be written, of a
   row, of `dirty` or of a handler, claims acceptance only of a reply that was accepted; it is needed
   because a commit writes columns that were set many steps before. From them follow `RepliedOnce` and
   `PublishedIsAccepted`. `PublishedIsSeen` is proved for `SpecByRule`, which is `Spec` without publishing by
   hand on Yandex: with it the property is false (divergence `PublishedIsVisible`). Assumed: there is a
   review. The range of a row's `wait`, a power of two, is not part of the invariant.
11. `ImportInv` (`CsvImportProofs`): an import in processing has one handler (`Claimed`); an owner row has
   one holder, and "not a duplicate", once found under the lock, stays true until the commit (`LockSound`),
   which is the step from the locks to `FileCountedOnce`. The theorems assume `~LostAck`; `FailedHasNoRows` is
   false without it (divergence `FailedHasNoRows`).
12. `MeasurementInv` (`OutcomeProofs`): who is about to close has the row lock and the outcome is open
   (so the stale copy of a second pass never counts); what follows the close goes by the label given.
   `ClosedOnce` is the action property `LabelIsFinal`.
   `EffectInv` (same module) is about confirmations: who sends has the decision's row, still open, alone
   (`SendsAlone`), so what a request calls applied has succeeded and no later verdict takes it back
   (`ConfirmSound`). Hence `EffectFollowsApply`: nothing is observed before *some* apply succeeded, and a
   link is measured only with a closed observation. That the apply was of the observed link is what
   `Effect_unapplied` refutes; the theorem is what remains true.
13. `ThrottleInv` (`AuthThrottleProofs`): a moment is at most `MaxWait` old when it is used, and a row that
   is not there has no history. It gives `FailuresCount` and `BlocksAreKept`. `LocksNeedSpread` needs
   `SpreadInv`, which compares a wider row with the pair row every attempt of a single source passes
   first: inside one window of the wider row there are at most two windows of the pair
   (`FirstWindow`, `SecondWindow`), each letting one attempt less than its limit through, and after
   that a gate in front is shut for longer than the window lasts (`Shut`) or the clock has gone on. The
   hypothesis `Settings` is what this takes of the numbers: each wider limit is above twice what the pair
   lets through, and a block is at least twice `MaxWait`. The shipped ones meet the first (`config.py:262-281`:
   5, 20, 50 for the login and its code, 5, 10, 30 for managing the second factor, where 10 is above
   2 * 4 and 8 would not be); the second is an assumption on the database, that no request waits
   450 s for a row lock. It is a sufficient condition, not shown to be a necessary one.

14. `SyncInv` (`ApiSyncProofs`), for listings of any length, any plan of feeds and any page budget. Neither
   property of `Sync_walk` is inductive. For `CoverageIsHonest` the walk is described half-way
   (`TokenWalk`): every offer it has yet to meet is listed after the stored cursor or is the page in hand,
   and the coverage remembers what was dropped since the walk began. It is kept because a token names a
   place that no other offer takes (`KeysDiffer`), and an offer that moves goes to the end of the list. So
   the page without a next token leaves nothing, and it is this page that writes the claim. By offset no listing ever claims coverage,
   which is why `NothingIsSkipped` fails there and `CoverageIsHonest` does not.
   `HistoryIsKept` says that the versions can be placed into the story of the changes, in order, so that
   every young change and the last one have a version (`Keeps`). A step is a change of the placement: a new
   version goes to the new end (`KeepsAppend`), the sweep leaves one out that is neither young nor last
   (`KeepsRemoved`), and a day only makes fewer changes young. That the latest version is the latest change,
   which `News` compares with, is `KeepsLast`. The lemmas that would use induction (the largest place of a
   listing, the first offer after a cursor) take a least counterexample instead (`LeastOf`).
   That a commit may fail because the cursor is too long costs these two theorems nothing: no page is stored
   then.
   Assumed: `Items` is 1 to some n, the bounds are numbers, there is a first day and a page per run.

Only model-checked:

* liveness (`OpenRowsReachTheOperator`, `AdmissionEnds`, `ApprovedLeavesQueue`, `DecidedIsRecorded`,
  `PassEnds`, `WalkEnds`), which is out of the prover's reach: it needs fairness and ENABLED;
* `TypeOK` of `ReviewPublication` as a whole: the range of `wait` is not part of its invariant (a power of
  two, and nothing else depends on it).

Every other property of a passing run is a theorem.

## 5. Plan

1. *ClientRetry*: the request loop of `base_client.py`; what `AnswerPossible` takes from it.
2. *GuardCap*: caps over committed rows; the overrun bounded by the callers in flight.
3. *ReviewIngest*: cursor, backoff and wrap of the review sync.

### Not modelled

The analytics engines (sequential arithmetic over loaded rows), advisory producers and the intelligence
loop beyond what promotes a decision, schemas and routers without state of their own, automation
switches other than the review rule, marketplace account management, the frontend, operations scripts,
migrations, deployment. They hold no protocol between actors, or one sequential writer.
