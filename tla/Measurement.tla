----------------------------- MODULE Measurement ----------------------------
(***************************************************************************)
(* What became of a decision: its outcome is opened when its action        *)
(* succeeded, closed when the window is over, remembered, and, when it was *)
(* refuted, followed by the next action of the problem's action space      *)
(* (services/decision_measurement.py, measurement_close_bridge.py,         *)
(* decision_validation.py, refuted_loop.py).                               *)
(*                                                                         *)
(* Decision d stands for the d-th action of one problem's action space.  A *)
(* pass of close_due_measurements is one session: the row locks it takes   *)
(* are released by its next commit or rollback, whichever row that is for. *)
(***************************************************************************)
EXTENDS Naturals, FiniteSets

CONSTANTS
  Alternatives,   \* the length of the action space
  Requests,       \* executions that succeeded and open a measurement
  Passes,         \* calls of close_due_measurements
  None

ASSUME MeasurementAssumption ==
  /\ Alternatives \in Nat \ {0}
  /\ None \notin Passes

VARIABLES
  source,         \* decision -> where its row comes from
  outcome,        \* decision -> its row of decision_outcomes
  realized,       \* decision -> its realized observations
  memory,         \* decision -> entry -> its rows of decision_memory
  lock,           \* decision -> the pass that holds the outcome's row lock
  request,        \* request -> where it stands
  pass            \* pass -> where it stands

ledger == <<realized, memory>>
vars == <<source, outcome, ledger, lock, request, pass>>

Decisions == 1..Alternatives

Compared == {"confirmed", "refuted"}

Terminal == Compared \cup {"insufficient_data"}

Entries == Terminal \cup {"followup_created"}

Outcome == [label : {"none", "still_open"} \cup Terminal,
            baseline : BOOLEAN, due : BOOLEAN]

Pass ==
  [pc : {"idle", "next", "waiting", "locked", "remember", "followup", "inserting"},
   queue : SUBSET Decisions, at : Decisions]

TypeOK ==
  /\ source \in [Decisions -> {"none", "insight", "followup"}]
  /\ outcome \in [Decisions -> Outcome]
  /\ realized \in [Decisions -> Nat]
  /\ memory \in [Decisions -> [Entries -> Nat]]
  /\ lock \in [Decisions -> Passes \cup {None}]
  /\ request \in [Requests -> {None} \cup Decisions]
  /\ pass \in [Passes -> Pass]

Idle == [pc |-> "idle", queue |-> {}, at |-> 1]

Init ==
  /\ source = [d \in Decisions |-> "none"]
  /\ outcome = [d \in Decisions |-> [label |-> "none", baseline |-> FALSE, due |-> FALSE]]
  /\ realized = [d \in Decisions |-> 0]
  /\ memory = [d \in Decisions |-> [e \in Entries |-> 0]]
  /\ lock = [d \in Decisions |-> None]
  /\ request = [r \in Requests |-> None]
  /\ pass = [k \in Passes |-> Idle]

(***************************************************************************)
(* Before the window is over.                                              *)
(***************************************************************************)
\* promote_insight_to_decision: get or create, whoever comes first.
Promote(d) ==
  /\ source[d] = "none"
  /\ source' = [source EXCEPT ![d] = "insight"]
  /\ UNCHANGED <<outcome, ledger, lock, request, pass>>

\* An execution for the decision succeeded and finds no outcome; it goes on to
\* read the metric, which takes a call to the marketplace.
CheckExisting(r, d) ==
  /\ request[r] = None
  /\ source[d] # "none" /\ outcome[d].label = "none"
  /\ request' = [request EXCEPT ![r] = d]
  /\ UNCHANGED <<source, outcome, ledger, lock, pass>>

\* Baseline and outcome in one commit; the loser of the UNIQUE index rolls both
\* back.  A metric that cannot be read leaves the outcome without a baseline.
Open(r) ==
  /\ request[r] # None
  /\ \E readable \in BOOLEAN :
       outcome' =
         IF outcome[request[r]].label # "none" THEN outcome
         ELSE [outcome EXCEPT ![request[r]] =
                 [label |-> "still_open", baseline |-> readable, due |-> FALSE]]
  /\ request' = [request EXCEPT ![r] = None]
  /\ UNCHANGED <<source, ledger, lock, pass>>

\* No credential, an exception, or the process dies.
OpenFails(r) ==
  /\ request[r] # None
  /\ request' = [request EXCEPT ![r] = None]
  /\ UNCHANGED <<source, outcome, ledger, lock, pass>>

WindowElapses(d) ==
  /\ outcome[d].label = "still_open" /\ ~outcome[d].due
  /\ outcome' = [outcome EXCEPT ![d].due = TRUE]
  /\ UNCHANGED <<source, ledger, lock, request, pass>>

(***************************************************************************)
(* One pass of close_due_measurements.                                     *)
(***************************************************************************)
At(k, pc) == pass[k].pc = pc

Mine(k) == pass[k].at

Goes(k, pc) == pass' = [pass EXCEPT ![k].pc = pc]

\* A commit or a rollback of the pass's session.
Unlocked(k) == [d \in Decisions |-> IF lock[d] = k THEN None ELSE lock[d]]

\* LIMIT without ORDER BY: any of them.
SelectDue(k) ==
  /\ At(k, "idle")
  /\ \E some \in SUBSET {d \in Decisions : outcome[d].label = "still_open" /\ outcome[d].due} :
       /\ some # {}
       /\ pass' = [pass EXCEPT ![k] = [Idle EXCEPT !.pc = "next", !.queue = some]]
  /\ UNCHANGED <<source, outcome, ledger, lock, request>>

\* Mutant: as long as something is due, instead of once for each.
TakeAgain(k) ==
  /\ At(k, "next")
  /\ \E d \in pass[k].queue :
       pass' = [pass EXCEPT ![k] = [@ EXCEPT !.pc = "waiting", !.at = d]]
  /\ UNCHANGED <<source, outcome, ledger, lock, request>>

Take(k) ==
  /\ At(k, "next")
  /\ \E d \in pass[k].queue :
       pass' = [pass EXCEPT ![k] = [pc |-> "waiting", queue |-> @.queue \ {d}, at |-> d]]
  /\ UNCHANGED <<source, outcome, ledger, lock, request>>

\* Mutant: without populate_existing the row is the one that SelectDue read.
LockStale(k) ==
  /\ At(k, "waiting") /\ lock[Mine(k)] \in {None, k}
  /\ lock' = [lock EXCEPT ![Mine(k)] = k]
  /\ Goes(k, "locked")
  /\ UNCHANGED <<source, outcome, ledger, request>>

\* get_by_decision_id_for_update.  A row another pass has closed is skipped, and
\* stays locked: "continue" ends no transaction.
Lock(k) ==
  /\ At(k, "waiting") /\ lock[Mine(k)] \in {None, k}
  /\ lock' = [lock EXCEPT ![Mine(k)] = k]
  /\ Goes(k, IF outcome[Mine(k)].label = "still_open" THEN "locked" ELSE "next")
  /\ UNCHANGED <<source, outcome, ledger, request>>

Holder(k) == lock[Mine(k)]

\* Passes that wait for each other in a circle.
Deadlocked(k) ==
  \E ring \in SUBSET Passes :
    /\ k \in ring
    /\ \A j \in ring :
         /\ At(j, "waiting") /\ Holder(j) \in ring \ {j}
         /\ \E i \in ring : Holder(i) = j

\* PostgreSQL ends one of them with an error, which is caught and rolled back.
DeadlockVictim(k) ==
  /\ Deadlocked(k)
  /\ lock' = Unlocked(k)
  /\ Goes(k, "next")
  /\ UNCHANGED <<source, outcome, ledger, request>>

\* No credential for the metric: left open, and locked.
SkipWithoutToken(k) ==
  /\ At(k, "locked") /\ outcome[Mine(k)].baseline
  /\ Goes(k, "next")
  /\ UNCHANGED <<source, outcome, ledger, lock, request>>

Close(k) ==
  /\ At(k, "locked")
  /\ \E label \in Terminal :
       /\ ~outcome[Mine(k)].baseline => label = "insufficient_data"
       /\ outcome' = [outcome EXCEPT ![Mine(k)].label = label]
       /\ realized' = [realized EXCEPT ![Mine(k)] = IF label \in Compared THEN @ + 1 ELSE @]
  /\ lock' = Unlocked(k)
  /\ Goes(k, "remember")
  /\ UNCHANGED <<source, memory, request>>

CloseFails(k) ==
  /\ At(k, "locked")
  /\ lock' = Unlocked(k)
  /\ Goes(k, "next")
  /\ UNCHANGED <<source, outcome, ledger, request>>

\* _record_memory_safe, in a transaction of its own that may fail.
Remember(k) ==
  LET label == outcome[Mine(k)].label IN
  /\ At(k, "remember")
  /\ \/ /\ memory[Mine(k)][label] = 0
        /\ memory' = [memory EXCEPT ![Mine(k)][label] = @ + 1]
     \/ UNCHANGED memory
  /\ Goes(k, IF label = "refuted" THEN "followup" ELSE "next")
  /\ UNCHANGED <<source, outcome, realized, lock, request>>

\* select_next_candidate, and whether it is there already.
FindNext(k) ==
  /\ At(k, "followup")
  /\ Goes(k, IF Mine(k) < Alternatives /\ source[Mine(k) + 1] = "none"
             THEN "inserting" ELSE "next")
  /\ UNCHANGED <<source, outcome, ledger, lock, request>>

\* Mutant: the memory does not depend on who created the decision.
FollowUpAnyway(k) ==
  LET next == Mine(k) + 1 IN
  /\ At(k, "inserting")
  /\ source' = [source EXCEPT ![next] = IF @ = "none" THEN "followup" ELSE @]
  /\ memory' = [memory EXCEPT ![next]["followup_created"] = @ + 1]
  /\ Goes(k, "next")
  /\ UNCHANGED <<outcome, realized, lock, request>>

\* The decision and its memory in one transaction; the loser of the UNIQUE index
\* on (user, insight, action), or a failure, leaves neither.
FollowUp(k) ==
  LET next == Mine(k) + 1 IN
  /\ At(k, "inserting")
  /\ \/ /\ source[next] = "none"
        /\ source' = [source EXCEPT ![next] = "followup"]
        /\ memory' = [memory EXCEPT ![next]["followup_created"] = @ + 1]
     \/ UNCHANGED <<source, memory>>
  /\ Goes(k, "next")
  /\ UNCHANGED <<outcome, realized, lock, request>>

EndPass(k) ==
  /\ At(k, "next") /\ pass[k].queue = {}
  /\ lock' = Unlocked(k)
  /\ pass' = [pass EXCEPT ![k] = Idle]
  /\ UNCHANGED <<source, outcome, ledger, request>>

PassDies(k) ==
  /\ ~At(k, "idle")
  /\ lock' = Unlocked(k)
  /\ pass' = [pass EXCEPT ![k] = Idle]
  /\ UNCHANGED <<source, outcome, ledger, request>>

\* What a pass does without waiting for anybody.
Work(k) ==
  \/ Take(k) \/ SkipWithoutToken(k) \/ Close(k) \/ CloseFails(k)
  \/ Remember(k) \/ FindNext(k) \/ FollowUp(k) \/ EndPass(k)

Next ==
  \/ \E d \in Decisions : Promote(d) \/ WindowElapses(d)
  \/ \E r \in Requests : Open(r) \/ OpenFails(r) \/ \E d \in Decisions : CheckExisting(r, d)
  \/ \E k \in Passes : SelectDue(k) \/ Lock(k) \/ DeadlockVictim(k) \/ Work(k) \/ PassDies(k)

Spec == Init /\ [][Next]_vars

\* Calls of the marketplace time out, the database queues the waiters of a row
\* lock and resolves deadlocks.
PassFairness ==
  \A k \in Passes : WF_vars(Work(k)) /\ SF_vars(Lock(k)) /\ WF_vars(DeadlockVictim(k))

FairSpec == Spec /\ PassFairness

(***************************************************************************)
(* Properties.                                                             *)
(***************************************************************************)
\* "re-runs never overwrite a closed outcome" (measurement_close_bridge.py:68),
\* whichever passes overlap.
LabelIsFinal ==
  [][\A d \in Decisions :
       outcome[d].label \in Terminal => outcome'[d].label = outcome[d].label]_vars

\* The ledgers tell the story of the outcome: one realized observation where a
\* value was compared and none elsewhere, no memory but that of the label and
\* that once, and a follow-up remembered exactly where one was created, after a
\* refuted decision.
LedgersMatchOutcome ==
  \A d \in Decisions :
    /\ realized[d] = IF outcome[d].label \in Compared THEN 1 ELSE 0
    /\ \A label \in Terminal :
         memory[d][label] <= (IF label = outcome[d].label THEN 1 ELSE 0)
    /\ memory[d]["followup_created"] = IF source[d] = "followup" THEN 1 ELSE 0
    /\ source[d] = "followup" => outcome[d - 1].label = "refuted"

\* A pass comes to its end, although skipped outcomes stay locked under it and
\* two passes may take the same ones in a different order.
PassEnds == \A k \in Passes : ~At(k, "idle") ~> At(k, "idle")

=============================================================================
