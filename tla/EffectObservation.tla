-------------------------- MODULE EffectObservation -------------------------
(***************************************************************************)
(* The proof layer of confirmed decisions: engine signals are linked to    *)
(* decisions, the seller confirms one, it is applied, the observation of   *)
(* its effect is opened and later closed, by the seller or by the          *)
(* scheduler's tick (services/decision_outcome, decision_apply_ux,         *)
(* action_binding/execution_bridge.py, tasks/measurement_close.py), for    *)
(* one seller.  The executor is reduced to what its key promises: one row  *)
(* per decision, one dispatch, one verdict.                                *)
(***************************************************************************)
EXTENDS Naturals, Sequences

CONSTANTS
  Links,          \* insight and action, each with its decision once promoted
  Confirms,       \* requests of POST /decision-apply/confirm
  Closes          \* runs of close_effect_measurement

VARIABLES
  link,           \* link -> link_status; one that is not promoted has no decision
  log,            \* link -> the status of the executor's row for its decision
  obs,            \* link -> its rows of engine_effect_observation, oldest first
  confirm,        \* confirm -> where it stands
  close           \* close -> the observations it has read, and not yet written

effectVars == <<link, log, obs, confirm, close>>

\* closes: how often the row was closed (history).
Observation == [due : BOOLEAN, closes : Nat]

Rows == UNION {{l} \X DOMAIN obs[l] : l \in Links}

Confirm ==
  [pc : {"idle"}]
  \cup [pc : {"confirmed", "sending", "applied"}, link : Links]
  \cup [pc : {"opening"}, link : Links, todo : SUBSET Links]

EffectTypeOK ==
  /\ link \in [Links -> {"proposed", "promoted", "measured"}]
  /\ log \in [Links -> {"none", "pending", "success", "failed"}]
  /\ obs \in [Links -> Seq(Observation)]
  /\ confirm \in [Confirms -> Confirm]
  /\ close \in [Closes -> SUBSET Rows]

NotConfirming == [pc |-> "idle"]

EffectInit ==
  /\ link = [l \in Links |-> "proposed"]
  /\ log = [l \in Links |-> "none"]
  /\ obs = [l \in Links |-> <<>>]
  /\ confirm = [c \in Confirms |-> NotConfirming]
  /\ close = [k \in Closes |-> {}]

Observed(l) == obs[l] # <<>>

\* bridge_links_to_decisions: every proposed link whose signal and capability
\* allow it gets its decision, in one commit.
PromoteLinks ==
  /\ \E some \in SUBSET {l \in Links : link[l] = "proposed"} :
       /\ some # {}
       /\ link' = [l \in Links |-> IF l \in some THEN "promoted" ELSE link[l]]
  /\ UNCHANGED <<log, obs, confirm, close>>

(***************************************************************************)
(* confirm_and_apply_decision.                                             *)
(***************************************************************************)
\* The preview allows it and the intent is committed.  Whether the decision has
\* been applied or measured before is not asked.
ConfirmIntent(c, l) ==
  /\ confirm[c] = NotConfirming
  /\ link[l] # "proposed"
  /\ confirm' = [confirm EXCEPT ![c] = [pc |-> "confirmed", link |-> l]]
  /\ UNCHANGED <<link, log, obs, close>>

\* The executor's answer from the row of the decision's key, or a new claim.
\* A success there is this request's too if it carries the same payload.
Apply(c) ==
  LET l == confirm[c].link IN
  /\ confirm[c].pc = "confirmed"
  /\ \/ /\ log[l] = "none"
        /\ log' = [log EXCEPT ![l] = "pending"]
        /\ confirm' = [confirm EXCEPT ![c].pc = "sending"]
     \/ /\ log[l] = "success"
        /\ confirm' = [confirm EXCEPT ![c].pc = "applied"]
        /\ UNCHANGED log
     \/ /\ confirm' = [confirm EXCEPT ![c] = NotConfirming]
        /\ UNCHANGED log
  /\ UNCHANGED <<link, obs, close>>

\* The marketplace's verdict; without one the row stays open and the request is
\* told to reconcile.
Sent(c) ==
  LET l == confirm[c].link IN
  /\ confirm[c].pc = "sending"
  /\ \/ /\ log' = [log EXCEPT ![l] = "success"]
        /\ confirm' = [confirm EXCEPT ![c].pc = "applied"]
     \/ /\ log' \in {[log EXCEPT ![l] = "failed"], log}
        /\ confirm' = [confirm EXCEPT ![c] = NotConfirming]
  /\ UNCHANGED <<link, obs, close>>

\* _open_measurement_if_needed, then the SELECTs of open_effect_measurement: all
\* the seller's promoted links that have no observation.
ReadLinks(c) ==
  LET l == confirm[c].link IN
  /\ confirm[c].pc = "applied"
  /\ confirm' = [confirm EXCEPT ![c] =
       IF Observed(l) THEN NotConfirming
       ELSE [pc |-> "opening", link |-> l,
             todo |-> {m \in Links : link[m] = "promoted" /\ ~Observed(m)}]]
  /\ UNCHANGED <<link, log, obs, close>>

\* The baselines have been read and the request commits: all of the rows, or
\* those flushed before an exception.  No UNIQUE index names the link.
OpenMissing(c) ==
  /\ confirm[c].pc = "opening"
  /\ \E some \in SUBSET confirm[c].todo :
       obs' = [l \in Links |->
                 IF l \in some THEN Append(obs[l], [due |-> FALSE, closes |-> 0])
                 ELSE obs[l]]
  /\ confirm' = [confirm EXCEPT ![c] = NotConfirming]
  /\ UNCHANGED <<link, log, close>>

ConfirmDies(c) ==
  /\ confirm[c] # NotConfirming
  /\ confirm' = [confirm EXCEPT ![c] = NotConfirming]
  /\ UNCHANGED <<link, log, obs, close>>

(***************************************************************************)
(* close_effect_measurement.                                               *)
(***************************************************************************)
ObservationDue ==
  /\ \E row \in Rows :
       /\ ~obs[row[1]][row[2]].due
       /\ obs' = [obs EXCEPT ![row[1]][row[2]].due = TRUE]
  /\ UNCHANGED <<link, log, confirm, close>>

\* The rows with measured_at IS NULL; the tick leaves those whose window is open.
ReadOpen(k) ==
  LET open == {row \in Rows : obs[row[1]][row[2]].closes = 0} IN
  /\ close[k] = {}
  /\ close' \in {[close EXCEPT ![k] = open],
                 [close EXCEPT ![k] = {row \in open : obs[row[1]][row[2]].due}]}
  /\ UNCHANGED <<link, log, obs, confirm>>

\* Band, moment and link_status, by the ids read before.
WriteClosed(k) ==
  /\ close[k] # {}
  /\ obs' = [l \in Links |-> [i \in DOMAIN obs[l] |->
               IF <<l, i>> \in close[k] THEN [obs[l][i] EXCEPT !.closes = @ + 1]
               ELSE obs[l][i]]]
  /\ link' = [l \in Links |-> IF \E i \in DOMAIN obs[l] : <<l, i>> \in close[k]
                              THEN "measured" ELSE link[l]]
  /\ close' = [close EXCEPT ![k] = {}]
  /\ UNCHANGED <<log, confirm>>

CloseDies(k) ==
  /\ close[k] # {}
  /\ close' = [close EXCEPT ![k] = {}]
  /\ UNCHANGED <<link, log, obs, confirm>>

EffectNext ==
  \/ PromoteLinks \/ ObservationDue
  \/ \E c \in Confirms :
       \/ \E l \in Links : ConfirmIntent(c, l)
       \/ Apply(c) \/ Sent(c) \/ ReadLinks(c) \/ OpenMissing(c) \/ ConfirmDies(c)
  \/ \E k \in Closes : ReadOpen(k) \/ WriteClosed(k) \/ CloseDies(k)

EffectSpec == EffectInit /\ [][EffectNext]_effectVars

(***************************************************************************)
(* Properties.                                                             *)
(***************************************************************************)
\* A confirmation "never opens measurement before a successful apply"
\* (confirm.py:11): what is observed as the effect of a decision was applied.
ObservedWasApplied == \A l \in Links : Observed(l) => log[l] = "success"

\* "one row per (link, metric, window) observation"
\* (models/engine_effect_observation.py:15).
OneObservationPerLink == \A l \in Links : Len(obs[l]) <= 1

\* "never rewritten" (models/engine_effect_observation.py:15-16), "Idempotent (only
\* measured_at IS NULL rows)" (effect_measurement.py:173).
ObservationClosedOnce == \A row \in Rows : obs[row[1]][row[2]].closes <= 1

\* A decision counts as measured only with an observation that is closed, and
\* nothing is observed before something was applied.
MeasuredHasEffect ==
  /\ \A l \in Links :
       link[l] = "measured" => \E i \in DOMAIN obs[l] : obs[l][i].closes > 0
  /\ (\E l \in Links : Observed(l)) => \E l \in Links : log[l] = "success"

=============================================================================
