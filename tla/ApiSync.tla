------------------------------- MODULE ApiSync -------------------------------
(***************************************************************************)
(* Pulling the data of one connection (tasks/api_sync.py with the page     *)
(* drivers of services/marketplace/ingest): the scheduled pass over the    *)
(* feeds that are due, page by page with a persisted cursor; the versions  *)
(* that the price observations leave behind (ingest/change_only.py) and    *)
(* their retention (retention/observation_sweep.py).                       *)
(***************************************************************************)
EXTENDS Naturals, Sequences, FiniteSets

CONSTANTS
  Plans,        \* sequences of feeds, "listing", "window" or "report", that a
                \* connection may have, in the loop's order
  Paging,       \* of the listing: "token" (Yandex) or "offset" (Wildberries)
  Items,        \* 1 .. n, the offers of the listing
  Evidence,     \* what an offer's row says
  Resolved,     \* ... of which: of an offer bound to a product
  Absent,       \* the offer is not listed
  Broken,       \* its row has no identity
  Moves,        \* a changed offer may move to the end of the listing
  MaxPages,     \* _MAX_PAGES_PER_RUN
  MaxTokens,    \* page tokens that fit into the column cursor, String(500)
  MaxDay, MaxChanges, MaxCrashes   \* bounds

DataTypes == {"listing", "window", "report"}

ASSUME ApiSyncAssumption ==
  /\ Plans \subseteq Seq(DataTypes) \ {<<>>}
  /\ Paging \in {"token", "offset"}
  /\ Resolved \subseteq Evidence /\ {Absent, Broken} \cap Evidence = {} /\ Absent # Broken
  /\ IsFiniteSet(Items) /\ Items = 1 .. Cardinality(Items)
  /\ Moves \in BOOLEAN /\ MaxPages \in Nat \ {0} /\ MaxTokens \in Nat \ {0}
  /\ MaxDay \in Nat \ {0} /\ MaxChanges \in Nat /\ MaxCrashes \in Nat

VARIABLES
  feeds,     \* the data types of the connection's stores; fixed
  shop,      \* item -> what the marketplace lists of it and where
  today,     \* the calendar
  state,     \* feed -> the row of api_sync_states
  coverage,  \* of the listing: coverage_complete and skipped_rows_count
  versions,  \* item -> its rows of marketplace_price_observations, oldest first
  written,   \* items with a row of the run that the cursor names
  mapped,    \* the store has its external id (sync_gate)
  lost,      \* the report on order was purged or cancelled: it is never "done"
  pass,      \* run_api_sync_once
  changes, crashes,
  walk,      \* history of the walk in hand, or the last: what it has yet to meet,
             \* whether it dropped a row, whether its pages so far are a whole walk
  story      \* item -> history: every change that was stored, oldest first

vars == <<feeds, shop, today, state, coverage, versions, written, mapped, lost, pass,
          changes, crashes, walk, story>>

dbVars == <<state, coverage, versions, written>>
shopVars == <<feeds, shop, today, mapped, lost, changes>>
history == <<walk, story>>

FeedSet == {feeds[k] : k \in DOMAIN feeds}

State == [status : {"pending", "running", "synced", "paused", "unmapped"},
          cursor : Nat,         \* 0: none; a key, an offset, or the window's end
          tokens : Nat]         \* page tokens that it carries, each one walked and the next

Version == [evidence : Evidence, day : 1 .. MaxDay]

NoPage == [item |-> 0, evidence |-> Absent, next |-> 0]

Idle == [pc |-> "idle", k |-> 0, pages |-> 0, page |-> NoPage, result |-> "none"]

Rows == Evidence \cup {Absent, Broken}

Pass == [pc     : {"idle", "loop", "asking", "answered", "stored"},
         k      : DOMAIN feeds \cup {0},          \* the feed in hand
         pages  : 0 .. MaxPages - 1,              \* ... of this run
         page   : [item : Items \cup {0}, evidence : Rows, next : Nat],
         result : {"none", "more", "done", "defer"}]

TypeOK ==
  /\ feeds \in Plans
  /\ shop \in [Items -> [row : Rows, key : Nat \ {0}]]
  /\ today \in 1 .. MaxDay
  /\ state \in [FeedSet -> State]
  /\ coverage \in [complete : BOOLEAN, skipped : BOOLEAN]
  /\ versions \in [Items -> Seq(Version)] /\ story \in [Items -> Seq(Version)]
  /\ written \subseteq Items
  /\ mapped \in BOOLEAN /\ lost \in BOOLEAN
  /\ pass \in Pass
  /\ changes \in 0 .. MaxChanges /\ crashes \in 0 .. MaxCrashes
  /\ walk \in [due : SUBSET Items, dropped : BOOLEAN, whole : BOOLEAN]

Init ==
  /\ feeds \in Plans
  /\ shop \in [Items -> [row : Resolved, key : Items]]
  /\ \A i \in Items : shop[i].key = i
  /\ today = 1 /\ mapped = TRUE /\ lost = FALSE
  /\ state = [f \in FeedSet |-> [status |-> "pending", cursor |-> 0, tokens |-> 0]]
  /\ coverage = [complete |-> FALSE, skipped |-> FALSE]
  /\ versions = [i \in Items |-> <<>>] /\ story = [i \in Items |-> <<>>]
  /\ written = {}
  /\ pass = Idle
  /\ changes = 0 /\ crashes = 0
  /\ walk = [due |-> {}, dropped |-> FALSE, whole |-> FALSE]

(***************************************************************************)
(* The marketplace and the seller.                                         *)
(***************************************************************************)
Listed == {i \in Items : shop[i].row # Absent}

Greatest(S) == CHOOSE m \in S : \A n \in S : n <= m

\* The places an offer may be listed at after a change: where it was, or last.
Places(i, row) ==
  LET last == Greatest({shop[j].key : j \in Items}) IN
  {shop[i].key} \cup
    (IF Moves /\ row # Absent /\ shop[i].key # last THEN {last + 1} ELSE {})

\* An offer appears, changes or goes.
Change(i) ==
  /\ "listing" \in FeedSet /\ changes < MaxChanges /\ changes' = changes + 1
  /\ \E row \in Rows \ {shop[i].row} :
     \E key \in Places(i, row) :
       /\ shop' = [shop EXCEPT ![i] = [row |-> row, key |-> key]]
       /\ walk' = IF row \in Evidence THEN walk ELSE [walk EXCEPT !.due = @ \ {i}]
  /\ UNCHANGED <<dbVars, feeds, today, mapped, lost, pass, crashes, story>>

NewDay ==
  /\ today < MaxDay /\ today' = today + 1
  /\ UNCHANGED <<dbVars, feeds, shop, mapped, lost, pass, changes, crashes, history>>

\* The store loses its external id, or gets one.
MapStore ==
  /\ changes < MaxChanges /\ changes' = changes + 1
  /\ mapped' = ~mapped
  /\ UNCHANGED <<dbVars, feeds, shop, today, lost, pass, crashes, history>>

\* The marketplace purges or cancels the report that was ordered.
LoseReport ==
  /\ "report" \in FeedSet /\ state["report"].cursor # 0 /\ ~lost /\ lost' = TRUE
  /\ UNCHANGED <<dbVars, feeds, shop, today, mapped, pass, changes, crashes, history>>

(***************************************************************************)
(* The pass.                                                               *)
(***************************************************************************)
\* Mutant: a feed that is being walked is taken to be in somebody's hands.
DueUnlessRunning(f) == state[f].status \notin {"paused", "running"}

\* _due, once next_run_at has come: a paused feed is never due.
Due(f) == state[f].status # "paused"

Feed == feeds[pass.k]

\* The loop goes on with the next feed, or the pass is over.
Onward == IF pass.k < Len(feeds) THEN [Idle EXCEPT !.pc = "loop", !.k = pass.k + 1] ELSE Idle

PassStarts ==
  /\ pass.pc = "idle"
  /\ pass' = [Idle EXCEPT !.pc = "loop", !.k = 1]
  /\ UNCHANGED <<dbVars, shopVars, crashes, history>>

\* _park, whatever the state was.
Park ==
  /\ pass.pc = "loop" /\ ~mapped
  /\ state' = [state EXCEPT ![Feed].status = "unmapped"]
  /\ pass' = Onward
  /\ UNCHANGED <<coverage, versions, written, shopVars, crashes, history>>

\* Paused, or next_run_at has not come.
NotDue ==
  /\ pass.pc = "loop" /\ mapped
  /\ pass' = Onward
  /\ UNCHANGED <<dbVars, shopVars, crashes, history>>

\* The head of _sync_state: "running" is committed before the first call.
StartFeed ==
  /\ pass.pc = "loop" /\ mapped /\ Due(Feed)
  /\ state' = [state EXCEPT ![Feed].status = "running"]
  /\ pass' = [pass EXCEPT !.pc = "asking"]
  /\ UNCHANGED <<coverage, versions, written, shopVars, crashes, history>>

\* The listing, as it is walked after a cursor.
After(cursor) ==
  IF Paging = "token"
  THEN {i \in Listed : shop[i].key > cursor}
  ELSE {i \in Listed : Cardinality({j \in Listed : shop[j].key < shop[i].key}) >= cursor}

First(S) == CHOOSE i \in S : \A j \in S : shop[i].key <= shop[j].key

\* One offer a page.  A token names the last offer of the page and there is one
\* only if more follow; an offset counts, and the end is a page that is not full.
ListingPage(cursor) ==
  LET rest == After(cursor) IN
  IF rest = {} THEN NoPage
  ELSE LET i == First(rest) IN
       [item |-> i, evidence |-> shop[i].row,
        next |-> IF Paging = "offset" THEN cursor + 1
                 ELSE IF rest = {i} THEN 0 ELSE shop[i].key]

AnswerListing ==
  LET cursor == state[Feed].cursor IN
  /\ pass.pc = "asking" /\ Feed = "listing" /\ (Paging = "token" => mapped)
  /\ pass' = [pass EXCEPT !.pc = "answered", !.page = ListingPage(cursor)]
  /\ walk' = IF cursor = 0
             THEN [walk EXCEPT !.due = {i \in Items : shop[i].row \in Evidence},
                               !.dropped = FALSE]
             ELSE walk
  /\ UNCHANGED <<dbVars, shopVars, crashes, story>>

\* The campaign id went away after the gate: the walk is over as if it were done,
\* and the coverage is left as it was.
AnswerUnmapped ==
  /\ pass.pc = "asking" /\ Feed = "listing" /\ Paging = "token" /\ ~mapped
  /\ state' = [state EXCEPT ![Feed].cursor = 0, ![Feed].tokens = 0]
  /\ pass' = [pass EXCEPT !.pc = "stored", !.result = "done"]
  /\ UNCHANGED <<coverage, versions, written, shopVars, crashes, history>>

\* The finance report from the beginning to the end of the window: the one the
\* cursor kept, today for a first walk.
AnswerWindow ==
  LET to == state[Feed].cursor IN
  /\ pass.pc = "asking" /\ Feed = "window"
  /\ pass' = [pass EXCEPT !.pc = "answered",
                          !.page = [NoPage EXCEPT !.next = IF to = 0 THEN today ELSE to]]
  /\ UNCHANGED <<dbVars, shopVars, crashes, history>>

\* A report is ordered, asked for until it is ready, and downloaded: one step a
\* call.  One that is lost is asked for like one that is not ready.
ReportAnswers(ready) ==
  /\ pass.pc = "asking" /\ Feed = "report"
  /\ ready => state[Feed].cursor # 0 /\ ~lost
  /\ pass' = [pass EXCEPT !.pc = "answered",
                          !.page = [NoPage EXCEPT !.next = IF ready THEN 0 ELSE 1],
                          !.result = IF ready THEN "done" ELSE "defer"]
  /\ UNCHANGED <<dbVars, shopVars, crashes, history>>

LastOf(s) == s[Len(s)]

\* Mutant: compared with every version there is.
NewsAmongAll(i, e) == \A n \in DOMAIN versions[i] : versions[i][n].evidence # e

\* observe_price: the evidence differs from the latest version.
News(i, e) == versions[i] = <<>> \/ LastOf(versions[i]).evidence # e

\* Mutant: what an earlier page dropped is forgotten.
SkippedHere(fresh, dropped) == dropped

\* skipped_rows_count > 0 after a page; a new walk starts honest.
Skipped(fresh, dropped) == dropped \/ (~fresh /\ coverage.skipped)

\* One row per series and run, and the offer on the page, which a row of this run
\* already tells of, has changed.
MetAgain ==
  /\ pass.pc = "answered" /\ Feed = "listing" /\ state[Feed].cursor # 0
  /\ pass.page.item \in written /\ pass.page.evidence \in Evidence
  /\ News(pass.page.item, pass.page.evidence)

\* The next cursor carries every token that the walk has come by.
Tokens(next) == IF Paging = "token" /\ next # 0 THEN state[Feed].tokens + 1 ELSE 0

\* ... and is longer than its column.
Overflows == pass.pc = "answered" /\ Feed = "listing" /\ Tokens(pass.page.next) > MaxTokens

\* The page's rows, the cursor and the coverage in one commit.
StoreListing ==
  LET page == pass.page
      fresh == state[Feed].cursor = 0
      dropped == page.evidence = Broken
      done == page.next = 0
      add == IF page.item # 0 /\ page.evidence \in Evidence /\ News(page.item, page.evidence)
             THEN {page.item} ELSE {}
      version == [evidence |-> page.evidence, day |-> today]
  IN
  /\ pass.pc = "answered" /\ Feed = "listing" /\ ~MetAgain /\ ~Overflows
  /\ versions' = [i \in Items |-> IF i \in add THEN Append(versions[i], version) ELSE versions[i]]
  /\ story' = [i \in Items |->
                 IF page.item = i /\ page.evidence \in Evidence
                    /\ (story[i] = <<>> \/ LastOf(story[i]).evidence # page.evidence)
                 THEN Append(story[i], version) ELSE story[i]]
  /\ written' = (IF fresh THEN {} ELSE written) \cup add
  /\ state' = [state EXCEPT ![Feed].cursor = page.next, ![Feed].tokens = Tokens(page.next)]
  /\ coverage' = IF Paging = "offset" THEN coverage
                 ELSE [skipped |-> Skipped(fresh, dropped),
                       complete |-> done /\ ~Skipped(fresh, dropped)]
  /\ walk' = LET due == walk.due \ {page.item}
                 lossy == walk.dropped \/ dropped
             IN  [due |-> due, dropped |-> lossy, whole |-> done /\ due = {} /\ ~lossy]
  /\ pass' = IF done THEN [pass EXCEPT !.pc = "stored", !.page = NoPage, !.result = "done"]
             ELSE IF pass.pages + 1 < MaxPages
             THEN [pass EXCEPT !.pc = "asking", !.page = NoPage, !.pages = @ + 1]
             ELSE [pass EXCEPT !.pc = "stored", !.page = NoPage, !.result = "more"]
  /\ UNCHANGED <<shopVars, crashes>>

StoreWindow ==
  /\ pass.pc = "answered" /\ Feed = "window"
  /\ state' = [state EXCEPT ![Feed].cursor = pass.page.next]
  /\ pass' = [pass EXCEPT !.pc = "stored", !.page = NoPage, !.result = "done"]
  /\ UNCHANGED <<coverage, versions, written, shopVars, crashes, history>>

StoreReport ==
  /\ pass.pc = "answered" /\ Feed = "report"
  /\ state' = [state EXCEPT ![Feed].cursor = pass.page.next]
  /\ lost' = (lost /\ pass.page.next # 0)
  /\ pass' = [pass EXCEPT !.pc = "stored", !.page = NoPage]
  /\ UNCHANGED <<coverage, versions, written, feeds, shop, today, mapped, changes, crashes,
                 history>>

\* The status a run leaves behind, in a commit of its own.
StatusAfter(result) == IF result = "done" THEN "synced" ELSE "running"

EndFeed ==
  /\ pass.pc = "stored"
  /\ state' = [state EXCEPT ![Feed].status = StatusAfter(pass.result)]
  /\ pass' = Onward
  /\ UNCHANGED <<coverage, versions, written, shopVars, crashes, history>>

\* An ExecutionError: the marketplace refused, or its page is malformed.  The page
\* is rolled back, _record_failure pauses the feed and the loop goes on.
Refused ==
  /\ pass.pc \in {"asking", "answered"}
  /\ state' = [state EXCEPT ![Feed].status = "paused"]
  /\ pass' = Onward
  /\ UNCHANGED <<coverage, versions, written, shopVars, crashes, history>>

\* Any other exception ends the work on this connection, and the next pass asks
\* for the same page.
Collision ==
  /\ MetAgain \/ Overflows
  /\ pass' = Idle
  /\ UNCHANGED <<dbVars, shopVars, crashes, history>>

Crash ==
  /\ pass.pc # "idle" /\ crashes < MaxCrashes
  /\ crashes' = crashes + 1
  /\ pass' = Idle
  /\ UNCHANGED <<dbVars, shopVars, history>>

(***************************************************************************)
(* Retention.                                                              *)
(***************************************************************************)
\* Days that an observation is kept once it is superseded: 180 if its offer is
\* bound to a product, 30 if not.
Kept(evidence) == IF evidence \in Resolved THEN 2 ELSE 1

Expired(v) == today - v.day >= Kept(v.evidence)

\* rn > 1, and older than the cutoff of its resolution status.
Candidates ==
  UNION {{<<i, n>> : n \in {m \in DOMAIN versions[i] :
                              m < Len(versions[i]) /\ Expired(versions[i][m])}} : i \in Items}

\* A batch of one: the oldest candidate.
Sweep ==
  /\ \E c \in Candidates :
       /\ \A d \in Candidates : versions[c[1]][c[2]].day <= versions[d[1]][d[2]].day
       /\ versions' = [versions EXCEPT ![c[1]] =
            SubSeq(@, 1, c[2] - 1) \o SubSeq(@, c[2] + 1, Len(@))]
  /\ UNCHANGED <<state, coverage, written, shopVars, pass, crashes, history>>

(***************************************************************************)
Work ==
  \/ PassStarts \/ Park \/ NotDue \/ StartFeed
  \/ AnswerListing \/ AnswerUnmapped \/ AnswerWindow \/ \E ready \in BOOLEAN : ReportAnswers(ready)
  \/ StoreListing \/ StoreWindow \/ StoreReport \/ EndFeed
  \/ Refused \/ Collision

Next ==
  \/ Work \/ Crash
  \/ \E i \in Items : Change(i)
  \/ NewDay \/ MapStore \/ LoseReport \/ Sweep

Spec == Init /\ [][Next]_vars

\* The pass is called again and again, calls to the marketplace time out, the
\* next_run_at of a feed comes at last, and so does a report that is asked for
\* and not lost.
PassFairness ==
  /\ WF_vars(Work)
  /\ \A f \in DataTypes : SF_vars(StartFeed /\ Feed = f)
  /\ SF_vars(ReportAnswers(TRUE))

FairSpec == Spec /\ PassFairness

(***************************************************************************)
(* Properties.                                                             *)
(***************************************************************************)
\* What the readers ask before they trust the rows of a feed
\* (source_policy/resolver.py:79-87, product_money_reader.py:112).
Eligible(f) == state[f].status = "synced" /\ coverage.complete /\ ~coverage.skipped

\* A listing whose coverage is trusted was walked from end to end: every offer
\* that was listed throughout the walk was met, and no row was dropped
\* (models/api_sync_state.py:43-46), although the pages of the walk
\* were fetched in several passes, between crashes and failures, from a listing
\* that changed meanwhile.
CoverageIsHonest == "listing" \in FeedSet /\ Eligible("listing") => walk.whole

\* The versions s are what is left of the changes t, in their order: the young
\* ones and the one in force, and any of the others.
Keeps(s, t) ==
  \E place \in [DOMAIN s -> DOMAIN t] :
    /\ \A m, n \in DOMAIN s : m < n => place[m] < place[n]
    /\ \A n \in DOMAIN s : s[n] = t[place[n]]
    /\ \A n \in DOMAIN t : n = Len(t) \/ ~Expired(t[n]) => \E m \in DOMAIN s : place[m] = n

\* The observations are the changes that were stored, less what retention may
\* take: the young ones survive, and so does the one in force
\* (change_only.py:19-21, observation_sweep.py:6-8).
HistoryIsKept == \A i \in Items : Keeps(versions[i], story[i])

Unfinished(f) == f \in FeedSet /\ state[f].status \notin {"synced", "paused", "unmapped"}

\* What the code has no way out of: an offer that is met again, a cursor that is
\* too long, a report that is lost.  The next pass does the same.
NoWayOn(f) ==
  \/ f = "listing" /\ (MetAgain \/ Overflows)
  \/ f = "report" /\ lost

\* No feed is left half-way by a crash, a full page budget, a failure of another
\* feed or a report that was not ready: there comes a moment when it is synced,
\* refused or parked (api_sync.py:154-155, 167), or one of the three dead ends.
WalkEnds == \A f \in DataTypes : Unfinished(f) ~> ~Unfinished(f) \/ NoWayOn(f)

\* ... and without the dead ends: a cursor stays within its column and a walk
\* that cannot go on is refused (ozon.py:321-322, tests/test_ozon_cursor_ingest.py:43).
EveryWalkEnds == \A f \in DataTypes : Unfinished(f) ~> ~Unfinished(f)

Waits(f, status) == f \in FeedSet /\ state[f].status = status

\* A feed that is due is started, whatever became of those before it: "one
\* store's trouble ... never blocks another" (api_sync.py:242-243).
TroubleIsContained == \A f \in DataTypes : Waits(f, "pending") ~> ~Waits(f, "pending")

\* A paused feed is tried again when its next_run_at has come
\* (api_sync.py:13, models/api_sync_state.py:53).
PausedIsRetried == \A f \in DataTypes : Waits(f, "paused") ~> ~Waits(f, "paused")

\* The window follows the calendar, as long as nobody refuses.
NewDaysAreCovered ==
  LET Covered(d) == "window" \in FeedSet =>
                      \/ state["window"].cursor >= d
                      \/ state["window"].status \in {"paused", "unmapped"}
  IN  \A d \in 1 .. MaxDay : today >= d ~> Covered(d)

\* Cursors are not "a page number or an array index", which "are not stable
\* across a changing dataset" (models/api_sync_state.py:34-35).
NothingIsSkipped == Waits("listing", "synced") => walk.due = {}

=============================================================================
