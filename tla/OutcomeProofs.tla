---------------------------- MODULE OutcomeProofs ----------------------------
(***************************************************************************)
(* What Measurement promises of any number of executions, passes and       *)
(* alternatives, and EffectObservation of any number of links,             *)
(* confirmations and runs of the close.                                    *)
(***************************************************************************)
EXTENDS Measurement, EffectObservation, SequenceTheorems, TLAPS

(***************************************************************************)
(* Measurement: the inductive invariant.                                   *)
(***************************************************************************)
\* Who is about to close an outcome has its row, and it is open; what follows
\* the closing goes by the label that was given.
Sound(k) ==
  /\ At(k, "locked") => lock[Mine(k)] = k /\ outcome[Mine(k)].label = "still_open"
  /\ At(k, "remember") => outcome[Mine(k)].label \in Terminal
  /\ At(k, "followup") \/ At(k, "inserting") => outcome[Mine(k)].label = "refuted"
  /\ At(k, "inserting") => Mine(k) < Alternatives

PassesSound == \A k \in Passes : Sound(k)

\* The first decision of an action space follows no other.
FirstIsNoFollowUp == source[1] # "followup"

MeasurementInv == TypeOK /\ PassesSound /\ FirstIsNoFollowUp /\ LedgersMatchOutcome

LEMMA MeasurementStart == Init => MeasurementInv
<1> SUFFICES ASSUME Init PROVE MeasurementInv
  OBVIOUS
<1>1. 1 \in Decisions
  BY MeasurementAssumption DEF Decisions
<1>2. TypeOK
  BY <1>1 DEF Init, TypeOK, Outcome, Pass, Idle, Terminal, Compared
<1>3. PassesSound
  BY DEF Init, PassesSound, Sound, At, Idle
<1>4. FirstIsNoFollowUp
  BY <1>1 DEF Init, FirstIsNoFollowUp
<1>5. LedgersMatchOutcome
  BY DEF Init, LedgersMatchOutcome, Terminal, Compared, Entries
<1> QED
  BY <1>2, <1>3, <1>4, <1>5 DEF MeasurementInv

(***************************************************************************)
(* What the steps have in common.                                          *)
(***************************************************************************)
\* No step of the others disturbs a pass that keeps its row lock, as long as
\* labels that matter to it stay.
LEMMA OthersSound ==
  ASSUME NEW j \in Passes, Sound(j), pass'[j] = pass[j],
         lock[Mine(j)] = j => lock'[Mine(j)] = j,
         At(j, "locked") \/ outcome[Mine(j)].label \in Terminal =>
           outcome'[Mine(j)].label = outcome[Mine(j)].label
  PROVE  Sound(j)'
BY DEF Sound, At, Mine, Terminal, Compared

\* A pass changes its place: what is to hold of it and of its locks.
LEMMA PassMoves ==
  ASSUME MeasurementInv, NEW k \in Passes, NEW new \in Pass,
         pass' = [pass EXCEPT ![k] = new],
         lock' \in [Decisions -> Passes \cup {None}],
         \A d \in Decisions : lock[d] \in Passes \ {k} => lock'[d] = lock[d],
         new.pc = "locked" => lock'[new.at] = k /\ outcome[new.at].label = "still_open",
         new.pc = "remember" => outcome[new.at].label \in Terminal,
         new.pc \in {"followup", "inserting"} => outcome[new.at].label = "refuted",
         new.pc = "inserting" => new.at < Alternatives,
         UNCHANGED outcome
  PROVE  /\ pass' \in [Passes -> Pass]
         /\ PassesSound'
<1>1. /\ pass' \in [Passes -> Pass] /\ pass'[k] = new
      /\ \A j \in Passes \ {k} : pass'[j] = pass[j]
  BY DEF MeasurementInv, TypeOK
<1>2. Sound(k)'
  BY <1>1 DEF Sound, At, Mine
<1>3. ASSUME NEW j \in Passes \ {k} PROVE Sound(j)'
  <2>1. Mine(j) \in Decisions
    BY DEF MeasurementInv, TypeOK, Pass, Mine
  <2> QED
    BY <1>1, <2>1, OthersSound DEF MeasurementInv, PassesSound
<1> QED
  BY <1>1, <1>2, <1>3 DEF PassesSound

\* The same where the books stay as they are.
LEMMA QuietMove ==
  ASSUME MeasurementInv, NEW k \in Passes, NEW new \in Pass,
         pass' = [pass EXCEPT ![k] = new],
         lock' \in [Decisions -> Passes \cup {None}],
         \A d \in Decisions : lock[d] \in Passes \ {k} => lock'[d] = lock[d],
         new.pc = "locked" => lock'[new.at] = k /\ outcome[new.at].label = "still_open",
         new.pc = "remember" => outcome[new.at].label \in Terminal,
         new.pc \in {"followup", "inserting"} => outcome[new.at].label = "refuted",
         new.pc = "inserting" => new.at < Alternatives,
         UNCHANGED <<source, outcome, realized, memory, request>>
  PROVE  MeasurementInv'
<1>1. pass' \in [Passes -> Pass] /\ PassesSound'
  BY PassMoves
<1>2. TypeOK'
  BY <1>1 DEF MeasurementInv, TypeOK
<1>3. FirstIsNoFollowUp' /\ LedgersMatchOutcome'
  BY DEF MeasurementInv, FirstIsNoFollowUp, LedgersMatchOutcome
<1> QED
  BY <1>1, <1>2, <1>3 DEF MeasurementInv

LEMMA Unlocking ==
  ASSUME TypeOK, NEW k \in Passes
  PROVE  /\ Unlocked(k) \in [Decisions -> Passes \cup {None}]
         /\ \A d \in Decisions : lock[d] \in Passes \ {k} => Unlocked(k)[d] = lock[d]
BY DEF TypeOK, Unlocked

\* Where a pass goes; it keeps its queue and its decision.
LEMMA Going ==
  ASSUME MeasurementInv, NEW k \in Passes,
         NEW pc \in {"idle", "next", "waiting", "locked", "remember", "followup", "inserting"},
         Goes(k, pc)
  PROVE  \E new \in Pass :
           /\ pass' = [pass EXCEPT ![k] = new]
           /\ new.pc = pc /\ new.at = Mine(k) /\ Mine(k) \in Decisions
<1> DEFINE after == [pass[k] EXCEPT !.pc = pc]
<1>1. pass[k] \in Pass
  BY DEF MeasurementInv, TypeOK
<1>2. after \in Pass /\ after.pc = pc /\ after.at = Mine(k) /\ Mine(k) \in Decisions
  BY <1>1 DEF Pass, Mine
<1>3. pass' = [pass EXCEPT ![k] = after]
  BY DEF Goes
<1> HIDE DEF after
<1> QED
  BY <1>2, <1>3

\* A pass that turns to its next decision, having kept or dropped its locks.
LEMMA NextStep ==
  ASSUME MeasurementInv, NEW k \in Passes, Goes(k, "next"),
         lock' = Unlocked(k) \/ lock' = lock,
         UNCHANGED <<source, outcome, realized, memory, request>>
  PROVE  MeasurementInv'
<1>1. PICK new \in Pass : pass' = [pass EXCEPT ![k] = new] /\ new.pc = "next"
  BY Going
<1>2. /\ lock' \in [Decisions -> Passes \cup {None}]
      /\ \A d \in Decisions : lock[d] \in Passes \ {k} => lock'[d] = lock[d]
  BY Unlocking DEF MeasurementInv, TypeOK
<1> QED
  BY <1>1, <1>2, QuietMove

LEMMA IdleStep ==
  ASSUME MeasurementInv, NEW k \in Passes, pass' = [pass EXCEPT ![k] = Idle],
         lock' = Unlocked(k), UNCHANGED <<source, outcome, realized, memory, request>>
  PROVE  MeasurementInv'
<1>1. PICK new : new = Idle
  OBVIOUS
<1>2. new \in Pass /\ new.pc = "idle" /\ pass' = [pass EXCEPT ![k] = new]
  BY <1>1, MeasurementAssumption DEF Idle, Pass, Decisions
<1>3. /\ lock' \in [Decisions -> Passes \cup {None}]
      /\ \A d \in Decisions : lock[d] \in Passes \ {k} => lock'[d] = lock[d]
  BY Unlocking DEF MeasurementInv
<1> QED
  BY <1>2, <1>3, QuietMove

(***************************************************************************)
(* Before the window is over.                                              *)
(***************************************************************************)
LEMMA PromoteStep ==
  ASSUME MeasurementInv, NEW d \in Decisions, Promote(d)
  PROVE  MeasurementInv'
<1>1. /\ source' \in [Decisions -> {"none", "insight", "followup"}]
      /\ source[d] = "none" /\ source'[d] = "insight"
      /\ \A e \in Decisions \ {d} : source'[e] = source[e]
      /\ UNCHANGED <<outcome, realized, memory, lock, request, pass>>
  BY DEF Promote, ledger, MeasurementInv, TypeOK
<1>2. TypeOK'
  BY <1>1 DEF MeasurementInv, TypeOK
<1>3. PassesSound'
  BY <1>1 DEF MeasurementInv, PassesSound, Sound, At, Mine
<1>4. FirstIsNoFollowUp'
  BY <1>1, MeasurementAssumption DEF MeasurementInv, FirstIsNoFollowUp, Decisions
<1>5. LedgersMatchOutcome'
  BY <1>1 DEF MeasurementInv, LedgersMatchOutcome
<1> QED
  BY <1>2, <1>3, <1>4, <1>5 DEF MeasurementInv

\* A row of decision_outcomes that is opened, or comes due.
LEMMA OutcomeStep ==
  ASSUME MeasurementInv, NEW d \in Decisions, NEW row \in Outcome,
         outcome[d].label \in {"none", "still_open"}, row.label = "still_open",
         outcome' = [outcome EXCEPT ![d] = row],
         request' \in [Requests -> {None} \cup Decisions],
         UNCHANGED <<source, realized, memory, lock, pass>>
  PROVE  MeasurementInv'
<1>1. /\ outcome' \in [Decisions -> Outcome] /\ outcome'[d] = row
      /\ \A e \in Decisions \ {d} : outcome'[e] = outcome[e]
  BY DEF MeasurementInv, TypeOK
<1>2. TypeOK'
  BY <1>1 DEF MeasurementInv, TypeOK
<1>3. ASSUME NEW k \in Passes PROVE Sound(k)'
  <2>1. Mine(k) \in Decisions /\ Sound(k)
    BY DEF MeasurementInv, TypeOK, PassesSound, Pass, Mine
  <2>2. At(k, "locked") \/ outcome[Mine(k)].label \in Terminal =>
          outcome'[Mine(k)].label = outcome[Mine(k)].label
    BY <1>1, <2>1 DEF Sound, Terminal, Compared
  <2> QED
    BY <2>1, <2>2, OthersSound
<1>4. LedgersMatchOutcome'
  <2>1. \A e \in Decisions \ {d} : outcome'[e].label = outcome[e].label
    BY <1>1
  <2>2. \A e \in Decisions : \A label \in Terminal :
          outcome'[e].label = label <=> outcome[e].label = label
    BY <1>1, <2>1 DEF Terminal, Compared
  <2>3. \A e \in Decisions : outcome[e].label \in Compared <=> outcome'[e].label \in Compared
    BY <2>2 DEF Terminal, Compared
  <2>4. \A e \in Decisions : source[e] = "followup" =>
          e - 1 \in Decisions /\ outcome'[e - 1].label = "refuted"
    <3>1. \A e \in Decisions : source[e] = "followup" => e # 1
      BY DEF MeasurementInv, FirstIsNoFollowUp
    <3>2. \A e \in Decisions : e # 1 => e - 1 \in Decisions
      BY MeasurementAssumption DEF Decisions
    <3> QED
      BY <2>2, <3>1, <3>2 DEF MeasurementInv, LedgersMatchOutcome, Terminal, Compared
  <2> QED
    BY <2>2, <2>3, <2>4 DEF MeasurementInv, LedgersMatchOutcome
<1> QED
  BY <1>2, <1>3, <1>4 DEF MeasurementInv, PassesSound, FirstIsNoFollowUp

LEMMA OpenStep ==
  ASSUME MeasurementInv, NEW r \in Requests, Open(r)
  PROVE  MeasurementInv'
<1>1. /\ request[r] \in Decisions
      /\ request' \in [Requests -> {None} \cup Decisions]
      /\ UNCHANGED <<source, realized, memory, lock, pass>>
  BY DEF Open, ledger, MeasurementInv, TypeOK
<1>2. CASE outcome[request[r]].label # "none"
  <2>1. UNCHANGED outcome
    BY <1>2 DEF Open
  <2> QED
    BY <1>1, <2>1 DEF MeasurementInv, TypeOK, PassesSound, Sound, At, Mine,
                      FirstIsNoFollowUp, LedgersMatchOutcome
<1>3. CASE outcome[request[r]].label = "none"
  <2>1. PICK readable \in BOOLEAN :
          outcome' = [outcome EXCEPT ![request[r]] =
                        [label |-> "still_open", baseline |-> readable, due |-> FALSE]]
    BY <1>3 DEF Open
  <2>2. PICK row : row = [label |-> "still_open", baseline |-> readable, due |-> FALSE]
    OBVIOUS
  <2>3. row \in Outcome /\ row.label = "still_open"
    BY <2>2 DEF Outcome
  <2> QED
    BY <1>1, <1>3, <2>1, <2>2, <2>3, OutcomeStep
<1> QED
  BY <1>2, <1>3

LEMMA ElapseStep ==
  ASSUME MeasurementInv, NEW d \in Decisions, WindowElapses(d)
  PROVE  MeasurementInv'
<1> DEFINE after == [outcome[d] EXCEPT !.due = TRUE]
<1>1. outcome[d] \in Outcome /\ outcome[d].label = "still_open"
  BY DEF WindowElapses, MeasurementInv, TypeOK
<1>2. after \in Outcome /\ after.label = "still_open"
  BY <1>1 DEF Outcome
<1>3. outcome' = [outcome EXCEPT ![d] = after]
  BY DEF WindowElapses
<1>4. /\ request' \in [Requests -> {None} \cup Decisions]
      /\ UNCHANGED <<source, realized, memory, lock, pass>>
  BY DEF WindowElapses, ledger, MeasurementInv, TypeOK
<1> HIDE DEF after
<1> QED
  BY <1>1, <1>2, <1>3, <1>4, OutcomeStep

\* Requests that only look, or give up.
LEMMA RequestStep ==
  ASSUME MeasurementInv, request' \in [Requests -> {None} \cup Decisions],
         UNCHANGED <<source, outcome, realized, memory, lock, pass>>
  PROVE  MeasurementInv'
BY DEF MeasurementInv, TypeOK, PassesSound, Sound, At, Mine,
       FirstIsNoFollowUp, LedgersMatchOutcome

(***************************************************************************)
(* The steps of a pass.                                                    *)
(***************************************************************************)
LEMMA SelectStep ==
  ASSUME MeasurementInv, NEW k \in Passes, SelectDue(k)
  PROVE  MeasurementInv'
<1>1. PICK some \in SUBSET Decisions :
        pass' = [pass EXCEPT ![k] = [Idle EXCEPT !.pc = "next", !.queue = some]]
  BY DEF SelectDue
<1> DEFINE after == [Idle EXCEPT !.pc = "next", !.queue = some]
<1>2. Idle \in Pass
  BY MeasurementAssumption DEF Idle, Pass, Decisions
<1>3. after \in Pass /\ after.pc = "next"
  BY <1>2 DEF Pass
<1>4. pass' = [pass EXCEPT ![k] = after]
  BY <1>1
<1>5. /\ UNCHANGED <<source, outcome, realized, memory, lock, request>>
      /\ lock' \in [Decisions -> Passes \cup {None}]
  BY DEF SelectDue, ledger, MeasurementInv, TypeOK
<1> HIDE DEF after
<1> QED
  BY <1>3, <1>4, <1>5, QuietMove

LEMMA TakeStep ==
  ASSUME MeasurementInv, NEW k \in Passes, Take(k)
  PROVE  MeasurementInv'
<1>1. PICK d \in pass[k].queue :
        pass' = [pass EXCEPT ![k] = [pc |-> "waiting", queue |-> pass[k].queue \ {d}, at |-> d]]
  BY DEF Take, MeasurementInv, TypeOK
<1>2. PICK new : new = [pc |-> "waiting", queue |-> pass[k].queue \ {d}, at |-> d]
  OBVIOUS
<1>3. pass[k].queue \subseteq Decisions
  BY DEF MeasurementInv, TypeOK, Pass
<1>4. new \in Pass /\ new.pc = "waiting" /\ pass' = [pass EXCEPT ![k] = new]
  BY <1>1, <1>2, <1>3 DEF Pass
<1>5. /\ UNCHANGED <<source, outcome, realized, memory, lock, request>>
      /\ lock' \in [Decisions -> Passes \cup {None}]
  BY DEF Take, ledger, MeasurementInv, TypeOK
<1> QED
  BY <1>4, <1>5, QuietMove

LEMMA LockStep ==
  ASSUME MeasurementInv, NEW k \in Passes, Lock(k)
  PROVE  MeasurementInv'
<1> DEFINE to == IF outcome[Mine(k)].label = "still_open" THEN "locked" ELSE "next"
<1>1. PICK new \in Pass : /\ pass' = [pass EXCEPT ![k] = new]
                          /\ new.pc = to /\ new.at = Mine(k) /\ Mine(k) \in Decisions
  BY Going DEF Lock
<1>2. /\ lock' \in [Decisions -> Passes \cup {None}] /\ lock'[Mine(k)] = k
      /\ \A d \in Decisions : lock[d] \in Passes \ {k} => lock'[d] = lock[d]
  BY <1>1, MeasurementAssumption DEF Lock, MeasurementInv, TypeOK
<1>3. UNCHANGED <<source, outcome, realized, memory, request>>
  BY DEF Lock, ledger
<1> QED
  BY <1>1, <1>2, <1>3, QuietMove

LEMMA FindStep ==
  ASSUME MeasurementInv, NEW k \in Passes, FindNext(k)
  PROVE  MeasurementInv'
<1> DEFINE to == IF Mine(k) < Alternatives /\ source[Mine(k) + 1] = "none"
                 THEN "inserting" ELSE "next"
<1>1. PICK new \in Pass : /\ pass' = [pass EXCEPT ![k] = new]
                          /\ new.pc = to /\ new.at = Mine(k)
  BY Going DEF FindNext
<1>2. outcome[Mine(k)].label = "refuted"
  BY DEF FindNext, MeasurementInv, PassesSound, Sound
<1>3. /\ UNCHANGED <<source, outcome, realized, memory, lock, request>>
      /\ lock' \in [Decisions -> Passes \cup {None}]
  BY DEF FindNext, ledger, MeasurementInv, TypeOK
<1> QED
  BY <1>1, <1>2, <1>3, QuietMove

LEMMA CloseStep ==
  ASSUME MeasurementInv, NEW k \in Passes, Close(k)
  PROVE  MeasurementInv'
<1> DEFINE d == Mine(k)
<1>1. PICK label \in Terminal :
        /\ outcome' = [outcome EXCEPT ![d].label = label]
        /\ realized' = [realized EXCEPT ![d] = IF label \in Compared THEN @ + 1 ELSE @]
  BY DEF Close
<1>2. /\ lock' = Unlocked(k) /\ UNCHANGED <<source, memory, request>>
      /\ lock[d] = k /\ outcome[d].label = "still_open"
  BY DEF Close, MeasurementInv, PassesSound, Sound
<1>3. PICK new \in Pass : /\ pass' = [pass EXCEPT ![k] = new]
                          /\ new.pc = "remember" /\ new.at = d /\ d \in Decisions
  BY Going DEF Close
<1>4. /\ pass' \in [Passes -> Pass] /\ pass'[k] = new
      /\ \A j \in Passes \ {k} : pass'[j] = pass[j]
  BY <1>3 DEF MeasurementInv, TypeOK
<1>5. /\ outcome' \in [Decisions -> Outcome] /\ outcome'[d].label = label
      /\ \A e \in Decisions \ {d} : outcome'[e] = outcome[e]
  <2> DEFINE after == [outcome[d] EXCEPT !.label = label]
  <2>1. outcome[d] \in Outcome
    BY <1>3 DEF MeasurementInv, TypeOK
  <2>2. after \in Outcome /\ after.label = label
    BY <2>1 DEF Outcome
  <2>3. outcome' = [outcome EXCEPT ![d] = after]
    BY <1>1
  <2> HIDE DEF after
  <2> QED
    BY <1>3, <2>2, <2>3 DEF MeasurementInv, TypeOK
<1>6. /\ realized' \in [Decisions -> Nat]
      /\ realized'[d] = IF label \in Compared THEN 1 ELSE 0
      /\ \A e \in Decisions \ {d} : realized'[e] = realized[e]
  <2>1. realized[d] = 0 /\ realized \in [Decisions -> Nat]
    BY <1>2, <1>3 DEF MeasurementInv, TypeOK, LedgersMatchOutcome, Compared
  <2> QED
    BY <1>1, <1>3, <2>1
<1>7. lock' \in [Decisions -> Passes \cup {None}]
      /\ \A e \in Decisions : lock[e] \in Passes \ {k} => lock'[e] = lock[e]
  BY <1>2, Unlocking DEF MeasurementInv
<1>8. TypeOK'
  BY <1>2, <1>4, <1>5, <1>6, <1>7 DEF MeasurementInv, TypeOK
<1> HIDE DEF d
<1>9. PassesSound'
  <2>1. Sound(k)'
    BY <1>3, <1>4, <1>5 DEF Sound, At, Mine
  <2>2. ASSUME NEW j \in Passes \ {k} PROVE Sound(j)'
    <3>1. Mine(j) \in Decisions /\ Sound(j)
      BY DEF MeasurementInv, TypeOK, PassesSound, Pass, Mine
    <3>2. At(j, "locked") \/ outcome[Mine(j)].label \in Terminal =>
            outcome'[Mine(j)].label = outcome[Mine(j)].label
      BY <1>2, <1>5, <3>1 DEF Sound, Terminal, Compared
    <3> QED
      BY <1>4, <1>7, <3>1, <3>2, OthersSound
  <2> QED
    BY <2>1, <2>2 DEF PassesSound
<1>10. LedgersMatchOutcome'
  <2>1. ASSUME NEW e \in Decisions
        PROVE  /\ realized'[e] = IF outcome'[e].label \in Compared THEN 1 ELSE 0
               /\ \A lab \in Terminal :
                    memory'[e][lab] <= (IF lab = outcome'[e].label THEN 1 ELSE 0)
    <3>1. CASE e = d
      <4>1. \A lab \in Terminal : memory[d][lab] \in Nat /\ memory[d][lab] <= 0
        BY <1>2, <1>3 DEF MeasurementInv, LedgersMatchOutcome, TypeOK, Terminal, Compared, Entries
      <4> QED
        BY <1>2, <1>5, <1>6, <3>1, <4>1
    <3>2. CASE e # d
      BY <1>2, <1>5, <1>6, <3>2 DEF MeasurementInv, LedgersMatchOutcome
    <3> QED
      BY <3>1, <3>2
  <2>2. ASSUME NEW e \in Decisions, source'[e] = "followup"
        PROVE  outcome'[e - 1].label = "refuted"
    <3>1. outcome[e - 1].label = "refuted" /\ e # 1
      BY <1>2, <2>2 DEF MeasurementInv, LedgersMatchOutcome, FirstIsNoFollowUp
    <3>2. e - 1 \in Decisions
      BY <3>1, MeasurementAssumption DEF Decisions
    <3>3. e - 1 # d
      BY <1>2, <3>1
    <3> QED
      BY <1>5, <3>1, <3>2, <3>3
  <2>3. \A e \in Decisions :
          memory'[e]["followup_created"] = IF source'[e] = "followup" THEN 1 ELSE 0
    BY <1>2 DEF MeasurementInv, LedgersMatchOutcome
  <2> QED
    BY <2>1, <2>2, <2>3 DEF LedgersMatchOutcome
<1> QED
  BY <1>2, <1>8, <1>9, <1>10 DEF MeasurementInv, FirstIsNoFollowUp

\* An entry of the memory that is written.
LEMMA Remembering ==
  ASSUME TypeOK, NEW d \in Decisions, NEW entry \in Entries,
         memory[d][entry] = 0, memory' = [memory EXCEPT ![d][entry] = @ + 1]
  PROVE  /\ memory' \in [Decisions -> [Entries -> Nat]]
         /\ memory'[d][entry] = 1
         /\ \A e \in Decisions, x \in Entries :
              e # d \/ x # entry => memory'[e][x] = memory[e][x]
<1> DEFINE row == [memory[d] EXCEPT ![entry] = 1]
<1>1. memory[d] \in [Entries -> Nat]
  BY DEF TypeOK
<1>2. /\ row \in [Entries -> Nat] /\ row[entry] = 1
      /\ \A x \in Entries \ {entry} : row[x] = memory[d][x]
  BY <1>1
<1>3. memory' = [memory EXCEPT ![d] = row]
  OBVIOUS
<1> HIDE DEF row
<1> QED
  BY <1>2, <1>3 DEF TypeOK

LEMMA RememberStep ==
  ASSUME MeasurementInv, NEW k \in Passes, Remember(k)
  PROVE  MeasurementInv'
<1> DEFINE d == Mine(k)
           label == outcome[d].label
<1>1. /\ label \in Terminal /\ UNCHANGED <<source, outcome, realized, lock, request>>
      /\ lock' \in [Decisions -> Passes \cup {None}]
  BY DEF Remember, MeasurementInv, PassesSound, Sound, TypeOK
<1>2. PICK new \in Pass :
        /\ pass' = [pass EXCEPT ![k] = new]
        /\ new.pc = IF label = "refuted" THEN "followup" ELSE "next"
        /\ new.at = d /\ d \in Decisions
  BY Going DEF Remember
<1>3. pass' \in [Passes -> Pass] /\ PassesSound'
  BY <1>1, <1>2, PassMoves
<1>4. CASE UNCHANGED memory
  BY <1>1, <1>2, <1>4, QuietMove
<1>5. CASE memory[d][label] = 0 /\ memory' = [memory EXCEPT ![d][label] = @ + 1]
  <2>1. label \in Entries
    BY <1>1 DEF Entries
  <2>2. /\ memory' \in [Decisions -> [Entries -> Nat]]
        /\ memory'[d][label] = 1
        /\ \A e \in Decisions, x \in Entries :
             e # d \/ x # label => memory'[e][x] = memory[e][x]
    BY <1>2, <1>5, <2>1, Remembering DEF MeasurementInv
  <2>3. TypeOK'
    BY <1>1, <1>3, <2>2 DEF MeasurementInv, TypeOK
  <2>4. \A e \in Decisions : \A x \in Terminal :
          memory'[e][x] <= (IF x = outcome[e].label THEN 1 ELSE 0)
    BY <1>2, <2>2 DEF MeasurementInv, LedgersMatchOutcome, Entries
  <2>5. \A e \in Decisions : memory'[e]["followup_created"] = memory[e]["followup_created"]
    BY <1>1, <2>2 DEF Terminal, Compared, Entries
  <2>6. LedgersMatchOutcome'
    BY <1>1, <2>4, <2>5 DEF MeasurementInv, LedgersMatchOutcome
  <2> QED
    BY <1>1, <1>3, <2>3, <2>6 DEF MeasurementInv, FirstIsNoFollowUp
<1> QED
  BY <1>4, <1>5 DEF Remember

LEMMA FollowUpStep ==
  ASSUME MeasurementInv, NEW k \in Passes, FollowUp(k)
  PROVE  MeasurementInv'
<1> DEFINE d == Mine(k) + 1
<1>1. /\ UNCHANGED <<outcome, realized, lock, request>>
      /\ lock' \in [Decisions -> Passes \cup {None}]
  BY DEF FollowUp, MeasurementInv, TypeOK
<1>2. PICK new \in Pass : /\ pass' = [pass EXCEPT ![k] = new]
                          /\ new.pc = "next" /\ Mine(k) \in Decisions
  BY Going DEF FollowUp
<1>3. /\ outcome[Mine(k)].label = "refuted" /\ d \in Decisions
      /\ d # 1 /\ d - 1 = Mine(k)
  <2>1. outcome[Mine(k)].label = "refuted" /\ Mine(k) < Alternatives
    BY DEF FollowUp, MeasurementInv, PassesSound, Sound
  <2> QED
    BY <1>2, <2>1, MeasurementAssumption DEF Decisions
<1>4. pass' \in [Passes -> Pass] /\ PassesSound'
  BY <1>1, <1>2, PassMoves
<1> HIDE DEF d
<1>5. CASE UNCHANGED <<source, memory>>
  BY <1>1, <1>2, <1>5, QuietMove
<1>6. CASE /\ source[d] = "none"
           /\ source' = [source EXCEPT ![d] = "followup"]
           /\ memory' = [memory EXCEPT ![d]["followup_created"] = @ + 1]
  <2>1. /\ source' \in [Decisions -> {"none", "insight", "followup"}]
        /\ source'[d] = "followup"
        /\ \A e \in Decisions \ {d} : source'[e] = source[e]
    BY <1>3, <1>6 DEF MeasurementInv, TypeOK
  <2>2. memory[d]["followup_created"] = 0
    BY <1>3, <1>6 DEF MeasurementInv, LedgersMatchOutcome
  <2>3. /\ memory' \in [Decisions -> [Entries -> Nat]]
        /\ memory'[d]["followup_created"] = 1
        /\ \A e \in Decisions, x \in Entries :
             e # d \/ x # "followup_created" => memory'[e][x] = memory[e][x]
    BY <1>3, <1>6, <2>2, Remembering DEF MeasurementInv, Entries
  <2>4. TypeOK'
    BY <1>1, <1>4, <2>1, <2>3 DEF MeasurementInv, TypeOK
  <2>5. FirstIsNoFollowUp'
    <3>1. 1 \in Decisions
      BY MeasurementAssumption DEF Decisions
    <3> QED
      BY <1>3, <2>1, <3>1 DEF MeasurementInv, FirstIsNoFollowUp
  <2>6. \A e \in Decisions : \A x \in Terminal : memory'[e][x] = memory[e][x]
    BY <2>3 DEF Entries, Terminal, Compared
  <2>7. \A e \in Decisions :
          /\ memory'[e]["followup_created"] = IF source'[e] = "followup" THEN 1 ELSE 0
          /\ source'[e] = "followup" => outcome[e - 1].label = "refuted"
    BY <1>3, <2>1, <2>3 DEF MeasurementInv, LedgersMatchOutcome, Entries
  <2>8. LedgersMatchOutcome'
    BY <1>1, <2>6, <2>7 DEF MeasurementInv, LedgersMatchOutcome
  <2> QED
    BY <1>4, <2>4, <2>5, <2>8 DEF MeasurementInv
<1> QED
  BY <1>5, <1>6 DEF FollowUp, d

(***************************************************************************)
(* Every step, and the theorems.                                           *)
(***************************************************************************)
LEMMA WorkStep ==
  ASSUME MeasurementInv, NEW k \in Passes, Work(k)
  PROVE  MeasurementInv'
<1>1. CASE SkipWithoutToken(k)
  BY <1>1, NextStep DEF SkipWithoutToken, ledger
<1>2. CASE CloseFails(k)
  BY <1>2, NextStep DEF CloseFails, ledger
<1>3. CASE EndPass(k)
  BY <1>3, IdleStep DEF EndPass, ledger
<1> QED
  BY <1>1, <1>2, <1>3, TakeStep, CloseStep, RememberStep, FindStep, FollowUpStep DEF Work

LEMMA MeasurementStep ==
  ASSUME MeasurementInv, [Next]_vars
  PROVE  MeasurementInv'
<1>1. ASSUME NEW r \in Requests, OpenFails(r) PROVE MeasurementInv'
  BY <1>1, RequestStep DEF OpenFails, ledger, MeasurementInv, TypeOK
<1>2. ASSUME NEW r \in Requests, NEW d \in Decisions, CheckExisting(r, d) PROVE MeasurementInv'
  BY <1>2, RequestStep DEF CheckExisting, ledger, MeasurementInv, TypeOK
<1>3. ASSUME NEW k \in Passes, DeadlockVictim(k) PROVE MeasurementInv'
  BY <1>3, NextStep DEF DeadlockVictim, ledger
<1>4. ASSUME NEW k \in Passes, PassDies(k) PROVE MeasurementInv'
  BY <1>4, IdleStep DEF PassDies, ledger
<1>5. CASE UNCHANGED vars
  BY <1>5, RequestStep DEF vars, ledger, MeasurementInv, TypeOK
<1> QED
  BY <1>1, <1>2, <1>3, <1>4, <1>5, PromoteStep, ElapseStep, OpenStep, SelectStep, LockStep,
     WorkStep DEF Next

\* The invariant holds in every reachable state.
THEOREM Measuring == Spec => []MeasurementInv
BY MeasurementStart, MeasurementStep, PTL DEF Spec

\* One realized observation for a compared outcome and none elsewhere, one
\* memory of the label that was given, and a follow-up remembered exactly where
\* one was created, after a refuted decision: of whatever passes, deadlocks and
\* crashes (decision_memory.py, refuted_loop.py).
THEOREM LedgersMatch == Spec => []LedgersMatchOutcome
<1>1. MeasurementInv => LedgersMatchOutcome
  BY DEF MeasurementInv
<1> QED
  BY <1>1, Measuring, PTL

\* A closed outcome is never closed again: who closes holds the row, and asked
\* for its label under the lock (measurement_close_bridge.py:68).
THEOREM ClosedOnce == Spec => LabelIsFinal
<1> DEFINE Final == \A d \in Decisions :
                      outcome[d].label \in Terminal => outcome'[d].label = outcome[d].label
<1>1. ASSUME MeasurementInv, Next PROVE Final
  <2>1. ASSUME NEW r \in Requests, Open(r) PROVE Final
    BY <1>1, <2>1 DEF Open, MeasurementInv, TypeOK, Terminal, Compared
  <2>2. ASSUME NEW e \in Decisions, WindowElapses(e) PROVE Final
    BY <1>1, <2>2 DEF WindowElapses, MeasurementInv, TypeOK, Terminal, Compared
  <2>3. ASSUME NEW k \in Passes, Close(k) PROVE Final
    <3>1. outcome[Mine(k)].label = "still_open"
      BY <1>1, <2>3 DEF Close, MeasurementInv, PassesSound, Sound
    <3> QED
      BY <1>1, <2>3, <3>1 DEF Close, MeasurementInv, TypeOK, Terminal, Compared
  <2>4. CASE UNCHANGED outcome
    BY <2>4
  <2> QED
    BY <1>1, <2>1, <2>2, <2>3, <2>4 DEF Next, Work, Promote, OpenFails, CheckExisting, SelectDue,
       Lock, DeadlockVictim, PassDies, Take, SkipWithoutToken, CloseFails, Remember, FindNext,
       FollowUp, EndPass
<1>2. MeasurementInv /\ [Next]_vars => [Final]_vars
  BY <1>1
<1> QED
  BY <1>2, Measuring, PTL DEF Spec, LabelIsFinal

(***************************************************************************)
(* EffectObservation.                                                      *)
(***************************************************************************)
\* A request is sending under an open row of its own; what it calls applied has
\* succeeded, and stays so.
ConfirmSound(c) ==
  /\ confirm[c].pc = "sending" => log[confirm[c].link] = "pending"
  /\ confirm[c].pc \in {"applied", "opening"} => log[confirm[c].link] = "success"

SendsAlone ==
  \A c, d \in Confirms :
    confirm[c].pc = "sending" /\ confirm[d].pc = "sending" /\ confirm[c].link = confirm[d].link
      => c = d

EffectInv ==
  /\ EffectTypeOK
  /\ \A c \in Confirms : ConfirmSound(c)
  /\ SendsAlone
  /\ MeasuredHasEffect

LEMMA EffectStart == EffectInit => EffectInv
<1> SUFFICES ASSUME EffectInit PROVE EffectInv
  OBVIOUS
<1>1. EffectTypeOK
  BY DEF EffectInit, EffectTypeOK, NotConfirming, Confirm
<1>2. \A l \in Links : ~Observed(l) /\ link[l] = "proposed"
  BY DEF EffectInit, Observed
<1>3. \A c \in Confirms : confirm[c].pc = "idle"
  BY DEF EffectInit, NotConfirming
<1> QED
  BY <1>1, <1>2, <1>3 DEF EffectInv, ConfirmSound, SendsAlone, MeasuredHasEffect

\* Observations are only added, and a closed one stays closed.
ObservationsGrow ==
  \A l \in Links :
    /\ DOMAIN obs[l] \subseteq DOMAIN obs'[l]
    /\ \A i \in DOMAIN obs[l] : obs[l][i].closes > 0 => obs'[l][i].closes > 0

LEMMA RowsGrow == ASSUME ObservationsGrow PROVE Rows \subseteq Rows'
BY DEF ObservationsGrow, Rows

\* A step of a request that leaves the observations and the links alone: a row is
\* claimed, gets its verdict, or stays.
Requesting(c, new) ==
  /\ confirm' = [confirm EXCEPT ![c] = new]
  /\ UNCHANGED <<link, obs, close>>
  /\ log' \in [Links -> {"none", "pending", "success", "failed"}]
  /\ \A l \in Links : log'[l] # log[l] =>
       \/ log[l] = "none"
       \/ confirm[c].pc = "sending" /\ confirm[c].link = l
  /\ new.pc = "sending" => log'[new.link] = "pending" /\ log[new.link] = "none"
  /\ new.pc \in {"applied", "opening"} => log'[new.link] = "success"

LEMMA RequestMoves ==
  ASSUME EffectInv, NEW c \in Confirms, NEW new \in Confirm, Requesting(c, new)
  PROVE  EffectInv'
<1> USE DEF Requesting
<1>1. EffectTypeOK'
  <2>1. Rows' = Rows
    BY DEF Rows
  <2>2. confirm' \in [Confirms -> Confirm]
    BY DEF EffectInv, EffectTypeOK
  <2> QED
    BY <2>1, <2>2 DEF EffectInv, EffectTypeOK
<1>2. confirm \in [Confirms -> Confirm] /\ confirm'[c] = new
      /\ \A d \in Confirms \ {c} : confirm'[d] = confirm[d]
  BY DEF EffectInv, EffectTypeOK
<1>3. \A q \in Confirm : q.pc # "idle" => q.link \in Links
  BY DEF Confirm
<1>4. \A l \in Links : log[l] = "success" => log'[l] = "success"
  <2> SUFFICES ASSUME NEW l \in Links, log[l] = "success", log'[l] # log[l] PROVE FALSE
    OBVIOUS
  <2> QED
    BY DEF EffectInv, ConfirmSound
<1>5. ASSUME NEW d \in Confirms PROVE ConfirmSound(d)'
  <2>1. CASE d = c
    BY <1>2, <2>1 DEF ConfirmSound
  <2>2. CASE d # c
    <3>1. confirm'[d] = confirm[d] /\ confirm[d] \in Confirm /\ ConfirmSound(d)
      BY <1>2, <2>2 DEF EffectInv
    <3>2. CASE confirm[d].pc = "sending"
      <4>1. confirm[d].link \in Links /\ log[confirm[d].link] = "pending"
        BY <1>3, <3>1, <3>2 DEF ConfirmSound
      <4>2. log'[confirm[d].link] = "pending"
        BY <2>2, <3>2, <4>1 DEF EffectInv, SendsAlone
      <4> QED
        BY <3>1, <3>2, <4>2 DEF ConfirmSound
    <3>3. CASE confirm[d].pc # "sending"
      BY <1>3, <1>4, <3>1, <3>3 DEF ConfirmSound
    <3> QED
      BY <3>2, <3>3
  <2> QED
    BY <2>1, <2>2
<1>6. SendsAlone'
  <2> SUFFICES ASSUME NEW d \in Confirms, NEW e \in Confirms,
                      confirm'[d].pc = "sending", confirm'[e].pc = "sending",
                      confirm'[d].link = confirm'[e].link, d # e
               PROVE  FALSE
    BY DEF SendsAlone
  <2>1. CASE d # c /\ e # c
    BY <1>2, <2>1 DEF EffectInv, SendsAlone
  <2>2. CASE d = c \/ e = c
    <3>1. PICK o \in Confirms \ {c} : confirm[o].pc = "sending" /\ confirm[o].link = new.link
                                      /\ new.pc = "sending"
      BY <1>2, <2>2
    <3> QED
      BY <3>1 DEF EffectInv, ConfirmSound
  <2> QED
    BY <2>1, <2>2
<1>7. MeasuredHasEffect'
  BY <1>4 DEF EffectInv, MeasuredHasEffect, Observed
<1> QED
  BY <1>1, <1>5, <1>6, <1>7 DEF EffectInv

\* A step that touches no request and no verdict.
LEMMA LedgerStep ==
  ASSUME EffectInv, UNCHANGED log, ObservationsGrow, EffectTypeOK',
         \A c \in Confirms : confirm'[c] = confirm[c] \/ confirm'[c] = NotConfirming,
         \A l \in Links : link'[l] = "measured" =>
           link[l] = "measured" \/ \E i \in DOMAIN obs'[l] : obs'[l][i].closes > 0,
         (\E l \in Links : Observed(l)') => \E l \in Links : log[l] = "success"
  PROVE  EffectInv'
<1>1. \A c \in Confirms : ConfirmSound(c)'
  BY DEF EffectInv, ConfirmSound, NotConfirming
<1>2. SendsAlone'
  BY DEF EffectInv, SendsAlone, NotConfirming
<1>3. MeasuredHasEffect'
  BY DEF EffectInv, MeasuredHasEffect, ObservationsGrow
<1> QED
  BY <1>1, <1>2, <1>3 DEF EffectInv

LEMMA AppliesStep ==
  ASSUME EffectInv, NEW c \in Confirms,
         \/ \E l \in Links : ConfirmIntent(c, l)
         \/ Apply(c) \/ Sent(c) \/ ReadLinks(c) \/ ConfirmDies(c)
  PROVE  EffectInv'
<1>1. /\ confirm \in [Confirms -> Confirm] /\ ConfirmSound(c) /\ confirm[c] \in Confirm
      /\ log \in [Links -> {"none", "pending", "success", "failed"}]
  BY DEF EffectInv, EffectTypeOK
<1>2. NotConfirming \in Confirm /\ NotConfirming.pc = "idle"
  BY DEF NotConfirming, Confirm
<1>3. ASSUME NEW l \in Links, ConfirmIntent(c, l) PROVE EffectInv'
  <2>1. [pc |-> "confirmed", link |-> l] \in Confirm
    BY DEF Confirm
  <2>2. Requesting(c, [pc |-> "confirmed", link |-> l])
    BY <1>1, <1>3 DEF ConfirmIntent, Requesting
  <2> QED
    BY <2>1, <2>2, RequestMoves
<1>4. CASE Apply(c)
  <2>1. PICK l \in Links : l = confirm[c].link
    BY <1>1, <1>4 DEF Apply, Confirm
  <2>2. \A pc \in {"sending", "applied"} :
          /\ [confirm[c] EXCEPT !.pc = pc] = [pc |-> pc, link |-> l]
          /\ [pc |-> pc, link |-> l] \in Confirm
    BY <1>1, <1>4, <2>1 DEF Apply, Confirm
  <2>3. CASE Requesting(c, [pc |-> "sending", link |-> l])
    BY <2>2, <2>3, RequestMoves
  <2>4. CASE Requesting(c, [pc |-> "applied", link |-> l])
    BY <2>2, <2>4, RequestMoves
  <2>5. CASE Requesting(c, NotConfirming)
    BY <1>2, <2>5, RequestMoves
  <2>6. CASE /\ log[l] = "none" /\ log' = [log EXCEPT ![l] = "pending"]
             /\ confirm' = [confirm EXCEPT ![c].pc = "sending"]
    <3>1. confirm' = [confirm EXCEPT ![c] = [pc |-> "sending", link |-> l]]
      BY <2>2, <2>6
    <3>2. Requesting(c, [pc |-> "sending", link |-> l])
      BY <1>1, <1>4, <2>6, <3>1 DEF Apply, Requesting
    <3> QED
      BY <2>3, <3>2
  <2>7. CASE log[l] = "success" /\ confirm' = [confirm EXCEPT ![c].pc = "applied"] /\ log' = log
    <3>1. confirm' = [confirm EXCEPT ![c] = [pc |-> "applied", link |-> l]]
      BY <2>2, <2>7
    <3>2. Requesting(c, [pc |-> "applied", link |-> l])
      BY <1>1, <1>4, <2>7, <3>1 DEF Apply, Requesting
    <3> QED
      BY <2>4, <3>2
  <2>8. CASE confirm' = [confirm EXCEPT ![c] = NotConfirming] /\ log' = log
    <3>1. Requesting(c, NotConfirming)
      BY <1>1, <1>2, <1>4, <2>8 DEF Apply, Requesting
    <3> QED
      BY <2>5, <3>1
  <2> QED
    BY <1>4, <2>1, <2>6, <2>7, <2>8 DEF Apply
<1>5. CASE Sent(c)
  <2>1. PICK l \in Links : l = confirm[c].link
    BY <1>1, <1>5 DEF Sent, Confirm
  <2>2. /\ [confirm[c] EXCEPT !.pc = "applied"] = [pc |-> "applied", link |-> l]
        /\ [pc |-> "applied", link |-> l] \in Confirm
    BY <1>1, <1>5, <2>1 DEF Sent, Confirm
  <2>3. CASE /\ log' = [log EXCEPT ![l] = "success"]
             /\ confirm' = [confirm EXCEPT ![c].pc = "applied"]
    <3>1. confirm' = [confirm EXCEPT ![c] = [pc |-> "applied", link |-> l]]
      BY <2>2, <2>3
    <3>2. Requesting(c, [pc |-> "applied", link |-> l])
      BY <1>1, <1>5, <2>1, <2>3, <3>1 DEF Sent, Requesting
    <3> QED
      BY <2>2, <3>2, RequestMoves
  <2>4. CASE /\ log' = [log EXCEPT ![l] = "failed"] \/ log' = log
             /\ confirm' = [confirm EXCEPT ![c] = NotConfirming]
    <3>1. Requesting(c, NotConfirming)
      BY <1>1, <1>2, <1>5, <2>1, <2>4 DEF Sent, Requesting
    <3> QED
      BY <1>2, <3>1, RequestMoves
  <2> QED
    BY <1>5, <2>1, <2>3, <2>4 DEF Sent
<1>6. CASE ReadLinks(c)
  <2> DEFINE todo == {m \in Links : link[m] = "promoted" /\ ~Observed(m)}
  <2>1. PICK l \in Links : l = confirm[c].link /\ log[l] = "success"
    BY <1>1, <1>6 DEF ReadLinks, Confirm, ConfirmSound
  <2>2. CASE confirm' = [confirm EXCEPT ![c] = NotConfirming]
    <3>1. Requesting(c, NotConfirming)
      BY <1>1, <1>2, <1>6, <2>2 DEF ReadLinks, Requesting
    <3> QED
      BY <1>2, <3>1, RequestMoves
  <2>3. CASE confirm' = [confirm EXCEPT ![c] = [pc |-> "opening", link |-> l, todo |-> todo]]
    <3>1. [pc |-> "opening", link |-> l, todo |-> todo] \in Confirm
      BY DEF Confirm
    <3>2. Requesting(c, [pc |-> "opening", link |-> l, todo |-> todo])
      BY <1>1, <1>6, <2>1, <2>3 DEF ReadLinks, Requesting
    <3> QED
      BY <3>1, <3>2, RequestMoves
  <2> QED
    BY <1>6, <2>1, <2>2, <2>3 DEF ReadLinks
<1>7. CASE ConfirmDies(c)
  <2>1. Requesting(c, NotConfirming)
    BY <1>1, <1>2, <1>7 DEF ConfirmDies, Requesting
  <2> QED
    BY <1>2, <2>1, RequestMoves
<1> QED
  BY <1>3, <1>4, <1>5, <1>6, <1>7

\* The rows that an apply opens are of links nobody may have applied, but never
\* the first of all without an apply.
LEMMA OpenMissingStep ==
  ASSUME EffectInv, NEW c \in Confirms, OpenMissing(c)
  PROVE  EffectInv'
<1> DEFINE fresh == [due |-> FALSE, closes |-> 0]
<1>1. PICK some \in SUBSET confirm[c].todo :
        obs' = [l \in Links |-> IF l \in some THEN Append(obs[l], fresh) ELSE obs[l]]
  BY DEF OpenMissing
<1>2. /\ confirm[c] \in Confirm /\ confirm[c].pc = "opening" /\ ConfirmSound(c)
      /\ confirm' = [confirm EXCEPT ![c] = NotConfirming] /\ UNCHANGED <<link, log, close>>
      /\ confirm \in [Confirms -> Confirm] /\ obs \in [Links -> Seq(Observation)]
  BY DEF EffectInv, EffectTypeOK, OpenMissing
<1>3. \E l \in Links : log[l] = "success"
  BY <1>2 DEF ConfirmSound, Confirm
<1>4. fresh \in Observation /\ NotConfirming \in Confirm
  BY DEF Observation, NotConfirming, Confirm
<1> HIDE DEF fresh
<1>5. obs' \in [Links -> Seq(Observation)] /\ ObservationsGrow
  <2>1. ASSUME NEW l \in Links
        PROVE  /\ obs'[l] \in Seq(Observation)
               /\ DOMAIN obs[l] \subseteq DOMAIN obs'[l]
               /\ \A i \in DOMAIN obs[l] : obs'[l][i] = obs[l][i]
    <3>1. CASE l \in some
      <4>1. obs'[l] = Append(obs[l], fresh) /\ obs[l] \in Seq(Observation)
        BY <1>1, <1>2, <3>1
      <4> QED
        BY <1>4, <4>1, AppendProperties
    <3>2. CASE l \notin some
      BY <1>1, <1>2, <3>2
    <3> QED
      BY <3>1, <3>2
  <2>2. obs' \in [Links -> Seq(Observation)]
    BY <1>1, <2>1
  <2> QED
    BY <2>1, <2>2 DEF ObservationsGrow
<1>6. EffectTypeOK'
  BY <1>2, <1>4, <1>5, RowsGrow DEF EffectInv, EffectTypeOK
<1> QED
  BY <1>2, <1>3, <1>5, <1>6, LedgerStep

\* Steps that open no observation: a link is promoted, a window elapses, a close
\* reads what is open, or dies.
LEMMA QuietStep ==
  ASSUME EffectInv,
         \/ PromoteLinks \/ ObservationDue \/ UNCHANGED effectVars
         \/ \E k \in Closes : ReadOpen(k) \/ CloseDies(k)
  PROVE  EffectInv'
<1>1. UNCHANGED <<log, confirm>>
  BY DEF PromoteLinks, ObservationDue, effectVars, ReadOpen, CloseDies
<1>2. ASSUME UNCHANGED obs, link' \in [Links -> {"proposed", "promoted", "measured"}],
             close' \in [Closes -> SUBSET Rows],
             \A l \in Links : link'[l] = "measured" => link[l] = "measured"
      PROVE  EffectInv'
  <2>1. Rows' = Rows
    BY <1>2 DEF Rows
  <2>2. EffectTypeOK'
    BY <1>1, <1>2, <2>1 DEF EffectInv, EffectTypeOK
  <2>3. ObservationsGrow
    BY <1>2 DEF ObservationsGrow
  <2>4. (\E l \in Links : Observed(l)') => \E l \in Links : log[l] = "success"
    BY <1>2 DEF EffectInv, MeasuredHasEffect, Observed
  <2> QED
    BY <1>1, <1>2, <2>2, <2>3, <2>4, LedgerStep
<1>3. CASE PromoteLinks
  BY <1>2, <1>3 DEF PromoteLinks, EffectInv, EffectTypeOK
<1>4. CASE ObservationDue
  <2>1. PICK row \in Rows : obs' = [obs EXCEPT ![row[1]][row[2]].due = TRUE]
    BY <1>4 DEF ObservationDue
  <2>2. PICK l \in Links : \E i \in DOMAIN obs[l] : row = <<l, i>>
    BY DEF Rows
  <2>3. PICK i \in DOMAIN obs[l] : row = <<l, i>>
    BY <2>2
  <2> DEFINE e == [obs[l][i] EXCEPT !.due = TRUE]
             s == [obs[l] EXCEPT ![i] = e]
  <2>4. /\ obs \in [Links -> Seq(Observation)] /\ obs[l] \in Seq(Observation)
        /\ i \in 1 .. Len(obs[l]) /\ obs[l][i] \in Observation
    BY <2>3 DEF EffectInv, EffectTypeOK
  <2>5. e \in Observation /\ e.closes = obs[l][i].closes
    BY <2>4 DEF Observation
  <2> HIDE DEF e
  <2>6. /\ s \in Seq(Observation) /\ Len(s) = Len(obs[l])
        /\ \A j \in 1 .. Len(obs[l]) : s[j] = IF j = i THEN e ELSE obs[l][j]
    BY <2>4, <2>5, ExceptSeq
  <2>7. obs' = [obs EXCEPT ![l] = s]
    BY <2>1, <2>3 DEF e, s
  <2>8. obs' \in [Links -> Seq(Observation)]
    BY <2>4, <2>6, <2>7
  <2>9. \A m \in Links : DOMAIN obs'[m] = DOMAIN obs[m]
    BY <2>4, <2>6, <2>7
  <2>10. ObservationsGrow
    BY <2>4, <2>5, <2>6, <2>7, <2>9 DEF ObservationsGrow
  <2>11. EffectTypeOK'
    BY <1>1, <1>4, <2>8, <2>10, RowsGrow DEF ObservationDue, EffectInv, EffectTypeOK
  <2>12. \E m \in Links : log[m] = "success"
    <3>1. Observed(l)
      BY <2>4 DEF Observed
    <3> QED
      BY <3>1 DEF EffectInv, MeasuredHasEffect
  <2> QED
    BY <1>1, <1>4, <2>10, <2>11, <2>12, LedgerStep DEF ObservationDue
<1>5. CASE UNCHANGED effectVars
  BY <1>2, <1>5 DEF effectVars, EffectInv, EffectTypeOK
<1>6. ASSUME NEW k \in Closes, ReadOpen(k) \/ CloseDies(k) PROVE EffectInv'
  <2>1. \E open \in SUBSET Rows : close' = [close EXCEPT ![k] = open]
    BY <1>6 DEF ReadOpen, CloseDies
  <2>2. close' \in [Closes -> SUBSET Rows]
    BY <2>1 DEF EffectInv, EffectTypeOK
  <2>3. UNCHANGED <<link, obs>>
    BY <1>6 DEF ReadOpen, CloseDies
  <2> QED
    BY <1>2, <2>2, <2>3 DEF EffectInv, EffectTypeOK
<1> QED
  BY <1>3, <1>4, <1>5, <1>6

\* A close writes by id: each row it writes is closed then, and so is its link.
LEMMA WriteClosedStep ==
  ASSUME EffectInv, NEW k \in Closes, WriteClosed(k)
  PROVE  EffectInv'
<1> DEFINE Written(l, i) == IF <<l, i>> \in close[k] THEN [obs[l][i] EXCEPT !.closes = @ + 1]
                            ELSE obs[l][i]
<1>1. /\ obs' = [l \in Links |-> [i \in DOMAIN obs[l] |-> Written(l, i)]]
      /\ link' = [l \in Links |-> IF \E i \in DOMAIN obs[l] : <<l, i>> \in close[k]
                                  THEN "measured" ELSE link[l]]
      /\ close' = [close EXCEPT ![k] = {}] /\ UNCHANGED <<log, confirm>>
  BY DEF WriteClosed
<1>2. /\ obs \in [Links -> Seq(Observation)] /\ close \in [Closes -> SUBSET Rows]
      /\ link \in [Links -> {"proposed", "promoted", "measured"}]
  BY DEF EffectInv, EffectTypeOK
<1>3. ASSUME NEW l \in Links, NEW i \in DOMAIN obs[l]
      PROVE  /\ Written(l, i) \in Observation
             /\ obs[l][i].closes > 0 \/ <<l, i>> \in close[k] => Written(l, i).closes > 0
  <2>1. obs[l][i] \in Observation
    BY <1>2
  <2>2. obs[l][i].closes \in Nat
    BY <2>1 DEF Observation
  <2> QED
    BY <2>1, <2>2 DEF Observation
<1> HIDE DEF Written
<1>4. ASSUME NEW l \in Links
      PROVE  obs'[l] \in Seq(Observation) /\ DOMAIN obs'[l] = DOMAIN obs[l]
  <2>1. Len(obs[l]) \in Nat /\ DOMAIN obs[l] = 1 .. Len(obs[l])
    BY <1>2
  <2>2. obs'[l] = [i \in DOMAIN obs[l] |-> Written(l, i)]
    BY <1>1
  <2>3. obs'[l] \in [1 .. Len(obs[l]) -> Observation]
    BY <1>3, <2>1, <2>2
  <2>4. \A n \in Nat : [1 .. n -> Observation] \subseteq Seq(Observation)
    BY SeqDef
  <2> QED
    BY <2>1, <2>2, <2>3, <2>4
<1>5. obs' \in [Links -> Seq(Observation)]
  BY <1>1, <1>4
<1>6. ObservationsGrow
  BY <1>1, <1>3, <1>4 DEF ObservationsGrow
<1>7. EffectTypeOK'
  <2>1. link' \in [Links -> {"proposed", "promoted", "measured"}]
    BY <1>1, <1>2
  <2>2. close' \in [Closes -> SUBSET Rows']
    BY <1>1, <1>2, <1>6, RowsGrow
  <2> QED
    BY <1>1, <1>5, <2>1, <2>2 DEF EffectInv, EffectTypeOK
<1>8. ASSUME NEW l \in Links, link'[l] = "measured", link[l] # "measured"
      PROVE  \E i \in DOMAIN obs'[l] : obs'[l][i].closes > 0
  <2>1. PICK i \in DOMAIN obs[l] : <<l, i>> \in close[k]
    BY <1>1, <1>8
  <2> QED
    BY <1>1, <1>3, <1>4, <2>1
<1>9. ASSUME NEW l \in Links, Observed(l)' PROVE \E m \in Links : log[m] = "success"
  <2>1. Observed(l)
    BY <1>2, <1>4, <1>9 DEF Observed
  <2> QED
    BY <2>1 DEF EffectInv, MeasuredHasEffect
<1> QED
  BY <1>1, <1>6, <1>7, <1>8, <1>9, LedgerStep

LEMMA EffectStep == EffectInv /\ [EffectNext]_effectVars => EffectInv'
BY AppliesStep, OpenMissingStep, QuietStep, WriteClosedStep DEF EffectNext

\* What a request remembers of its apply, and what it leaves to be observed.
THEOREM Confirming == EffectSpec => []EffectInv
BY EffectStart, EffectStep, PTL DEF EffectSpec

\* A link counts as measured only with a closed observation, and nothing is observed
\* before one apply has succeeded, of whichever link (confirm.py:11).
THEOREM EffectFollowsApply == EffectSpec => []MeasuredHasEffect
<1>1. EffectInv => MeasuredHasEffect
  BY DEF EffectInv
<1> QED
  BY <1>1, Confirming, PTL

=============================================================================
