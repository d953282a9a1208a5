--------------------------- MODULE CsvImportProofs ---------------------------
(***************************************************************************)
(* What CsvImport promises of any number of uploads, confirmations, stores *)
(* and files, as long as the answer to a COMMIT arrives.                   *)
(***************************************************************************)
EXTENDS CsvImport, TLAPS

(***************************************************************************)
(* The inductive invariant.                                                *)
(***************************************************************************)
Working(q) == q.pc \in {"claimed", "read", "locked", "failing"}

\* Who has claimed an import is alone with it until the record is settled.
Claimed ==
  /\ \A h \in Handlers : Working(handler[h]) => rec[Mine(h)].status = "processing"
  /\ \A h, g \in Handlers :
       h # g /\ Working(handler[h]) /\ Working(handler[g]) => Mine(h) # Mine(g)

\* An owner row has one holder, and what the holder of a new import found out
\* under the lock stays true.
LockSound ==
  /\ \A h, g \in Handlers :
       h # g /\ At(h, "locked") /\ At(g, "locked") => OwnerRow(Mine(h)) # OwnerRow(Mine(g))
  /\ \A h \in Handlers : At(h, "locked") /\ handler[h].mode = "new" => ~Duplicate(Mine(h))

\* The rows of an import are of its file's keys.
RowsOfFile ==
  \A i \in Imports, k \in Keys : rows[i][k] # 0 => k \in KeysOf[rec[i].file]

ImportInv ==
  TypeOK /\ Claimed /\ LockSound /\ RowsOfFile /\ FailedHasNoRows /\ FileCountedOnce

LEMMA ImportInit == Init => ImportInv
<1> SUFFICES ASSUME Init PROVE ImportInv
  OBVIOUS
<1>1. TypeOK
  BY DEF Init, TypeOK, Record, Status, Handler, NoRows
<1>2. Claimed /\ LockSound
  BY DEF Init, Claimed, LockSound, Working, At
<1>3. RowsOfFile /\ FailedHasNoRows /\ FileCountedOnce
  BY DEF Init, RowsOfFile, FailedHasNoRows, FileCountedOnce, NoRows
<1> QED
  BY <1>1, <1>2, <1>3 DEF ImportInv

(***************************************************************************)
(* A step of one request that leaves the record and the rows alone.        *)
(***************************************************************************)
LEMMA HandlerStep ==
  ASSUME ImportInv, NEW h \in Handlers, NEW new \in Handler,
         handler' = [handler EXCEPT ![h] = new],
         UNCHANGED <<rec, rows, placed>>, disk' \subseteq Imports,
         Working(new) => Working(handler[h]) /\ new.import = Mine(h),
         new.pc = "locked" =>
           /\ ~Locked(OwnerRow(new.import), h)
           /\ new.mode = "new" => ~Duplicate(new.import)
  PROVE  ImportInv'
<1>1. /\ handler' \in [Handlers -> Handler] /\ handler'[h] = new
      /\ \A g \in Handlers \ {h} : handler'[g] = handler[g]
  BY DEF ImportInv, TypeOK
<1>2. TypeOK'
  BY <1>1 DEF ImportInv, TypeOK
<1>3. Claimed'
  BY <1>1 DEF ImportInv, Claimed, Mine, Working
<1>4. LockSound'
  <2>1. \A g \in Handlers \ {h} : At(g, "locked") /\ new.pc = "locked" =>
          OwnerRow(Mine(g)) # OwnerRow(new.import)
    BY DEF Locked, HoldsLock
  <2>2. \A f, g \in Handlers :
          f # g /\ At(f, "locked")' /\ At(g, "locked")' => OwnerRow(Mine(f))' # OwnerRow(Mine(g))'
    BY <1>1, <2>1 DEF ImportInv, LockSound, At, Mine, OwnerRow
  <2>3. \A g \in Handlers : At(g, "locked")' /\ handler'[g].mode = "new" => ~Duplicate(Mine(g))'
    BY <1>1 DEF ImportInv, LockSound, At, Mine, Duplicate, SameScope
  <2> QED
    BY <2>2, <2>3 DEF LockSound
<1>5. (RowsOfFile /\ FailedHasNoRows /\ FileCountedOnce)'
  BY DEF ImportInv, RowsOfFile, FailedHasNoRows, FileCountedOnce, SameScope
<1> QED
  BY <1>2, <1>3, <1>4, <1>5 DEF ImportInv

\* Where a request goes; it keeps its import and its mode.
LEMMA Going ==
  ASSUME ImportInv, NEW h \in Handlers, ~At(h, "idle"),
         NEW pc \in {"checked", "claimed", "read", "locked", "failing", "unlinking"}, Goes(h, pc)
  PROVE  \E new \in Handler :
           /\ handler' = [handler EXCEPT ![h] = new]
           /\ new.pc = pc /\ new.import = Mine(h) /\ new.mode = handler[h].mode
           /\ Mine(h) \in Imports
<1> DEFINE after == [handler[h] EXCEPT !.pc = pc]
           Busy  == [pc : {"checked", "claimed", "read", "locked", "failing", "unlinking"},
                     import : Imports, mode : Modes]
<1>1. handler[h] \in Busy
  BY DEF ImportInv, TypeOK, Handler, At
<1>2. after \in Busy /\ after.pc = pc /\ after.import = Mine(h) /\ after.mode = handler[h].mode
  BY <1>1 DEF Mine
<1>3. handler' = [handler EXCEPT ![h] = after] /\ Mine(h) \in Imports
  BY <1>1 DEF Goes, Mine
<1>4. after \in Handler
  BY <1>2 DEF Handler
<1> HIDE DEF after
<1> QED
  BY <1>2, <1>3, <1>4

LEMMA GoStep ==
  ASSUME ImportInv, NEW h \in Handlers, NEW pc \in {"read", "failing"}, Goes(h, pc),
         Working(handler[h]), UNCHANGED <<rec, rows, placed>>, disk' \subseteq Imports
  PROVE  ImportInv'
<1>1. PICK new \in Handler :
        /\ handler' = [handler EXCEPT ![h] = new]
        /\ new.pc = pc /\ new.import = Mine(h) /\ new.mode = handler[h].mode
  BY Going DEF Working, At
<1> QED
  BY <1>1, HandlerStep

LEMMA EndStep ==
  ASSUME ImportInv, NEW h \in Handlers, Ends(h), UNCHANGED <<rec, rows, placed>>,
         disk' \subseteq Imports
  PROVE  ImportInv'
<1>1. PICK new : new = [pc |-> "idle"]
  OBVIOUS
<1>2. /\ new \in Handler /\ ~Working(new) /\ new.pc # "locked"
      /\ handler' = [handler EXCEPT ![h] = new]
  BY <1>1 DEF Handler, Working, Ends
<1> QED
  BY <1>2, HandlerStep

LEMMA CheckStep ==
  ASSUME ImportInv, NEW h \in Handlers, NEW i \in Imports, CheckImport(h, i)
  PROVE  ImportInv'
<1>1. PICK mode \in Modes :
        handler' = [handler EXCEPT ![h] = [pc |-> "checked", import |-> i, mode |-> mode]]
  BY DEF CheckImport
<1>2. PICK new : new = [pc |-> "checked", import |-> i, mode |-> mode]
  OBVIOUS
<1>3. new \in Handler /\ ~Working(new) /\ new.pc # "locked"
  BY <1>2 DEF Handler, Working
<1>4. UNCHANGED <<rec, rows, placed>> /\ disk' \subseteq Imports
  BY DEF CheckImport, ImportInv, TypeOK
<1> QED
  BY <1>1, <1>2, <1>3, <1>4, HandlerStep

LEMMA LockStep ==
  ASSUME ImportInv, NEW h \in Handlers, LockOwner(h)
  PROVE  ImportInv'
<1>1. /\ UNCHANGED <<rec, rows, placed>> /\ disk' \subseteq Imports
      /\ Working(handler[h]) /\ ~Locked(OwnerRow(Mine(h)), h)
  BY DEF LockOwner, ImportInv, TypeOK, Working, At
<1>2. CASE Goes(h, "failing")
  BY <1>1, <1>2, GoStep
<1>3. CASE Goes(h, "locked") /\ ~(handler[h].mode = "new" /\ Duplicate(Mine(h)))
  <2>1. PICK new \in Handler :
          /\ handler' = [handler EXCEPT ![h] = new]
          /\ new.pc = "locked" /\ new.import = Mine(h) /\ new.mode = handler[h].mode
    BY <1>1, <1>3, Going DEF Working, At
  <2> QED
    BY <1>1, <1>3, <2>1, HandlerStep
<1> QED
  BY <1>2, <1>3 DEF LockOwner

(***************************************************************************)
(* Steps that set the status of one import.                                *)
(***************************************************************************)
LEMMA Statuses ==
  ASSUME TypeOK, NEW i \in Imports, NEW status \in Status, SetStatus(i, status)
  PROVE  /\ rec' \in [Imports -> Record]
         /\ rec'[i].status = status
         /\ \A j \in Imports \ {i} : rec'[j] = rec[j]
         /\ \A j \in Imports : /\ rec'[j].file = rec[j].file /\ rec'[j].kind = rec[j].kind
                               /\ rec'[j].store = rec[j].store
<1> DEFINE after == [rec[i] EXCEPT !.status = status]
<1>1. rec[i] \in Record
  BY DEF TypeOK
<1>2. /\ after \in Record /\ after.status = status /\ after.file = rec[i].file
      /\ after.kind = rec[i].kind /\ after.store = rec[i].store
  BY <1>1 DEF Record
<1>3. rec' = [rec EXCEPT ![i] = after]
  BY DEF SetStatus
<1> HIDE DEF after
<1> QED
  BY <1>2, <1>3 DEF TypeOK

\* Scopes and owners are a matter of what was uploaded.
LEMMA ScopesStay ==
  ASSUME \A j \in Imports : /\ rec'[j].file = rec[j].file /\ rec'[j].kind = rec[j].kind
                            /\ rec'[j].store = rec[j].store,
         NEW i \in Imports
  PROVE  /\ OwnerRow(i)' = OwnerRow(i)
         /\ \A j \in Imports : SameScope(i, j)' <=> SameScope(i, j)
BY DEF OwnerRow, SameScope

LEMMA InsertStep ==
  ASSUME ImportInv, NEW i \in Imports, InsertRecord(i)
  PROVE  ImportInv'
<1>1. /\ SetStatus(i, "pending") /\ rec[i].status = "none"
      /\ UNCHANGED <<disk, rows, handler, placed>>
  BY DEF InsertRecord
<1>2. /\ rec' \in [Imports -> Record] /\ rec'[i].status = "pending"
      /\ \A j \in Imports \ {i} : rec'[j] = rec[j]
      /\ \A j \in Imports : /\ rec'[j].file = rec[j].file /\ rec'[j].kind = rec[j].kind
                            /\ rec'[j].store = rec[j].store
  BY <1>1, Statuses DEF ImportInv, Status
<1>3. \A h \in Handlers : Working(handler[h]) => Mine(h) \in Imports \ {i}
  BY <1>1 DEF ImportInv, TypeOK, Handler, Claimed, Working, Mine
<1>4. TypeOK' /\ Claimed'
  BY <1>1, <1>2, <1>3 DEF ImportInv, TypeOK, Claimed, Mine
<1>5. LockSound'
  <2>1. ASSUME NEW j \in Imports, Duplicate(j)' PROVE Duplicate(j)
    BY <1>2, <2>1, ScopesStay DEF Duplicate
  <2>2. \A h \in Handlers : At(h, "locked") => Mine(h) \in Imports
    BY <1>3 DEF At, Working
  <2> QED
    BY <1>1, <1>2, <2>1, <2>2, ScopesStay DEF ImportInv, LockSound, At, Mine
<1>6. RowsOfFile' /\ FailedHasNoRows'
  BY <1>1, <1>2 DEF ImportInv, RowsOfFile, FailedHasNoRows
<1>7. FileCountedOnce'
  BY <1>1, <1>2, ScopesStay DEF ImportInv, FileCountedOnce
<1> QED
  BY <1>4, <1>5, <1>6, <1>7 DEF ImportInv

\* A request settles the status of an import no other one works on, and leaves
\* its rows alone.
LEMMA SettleStep ==
  ASSUME ImportInv, NEW h \in Handlers, NEW i \in Imports, NEW status \in Status,
         SetStatus(i, status), status # "confirmed", rec[i].status # "confirmed",
         NEW new \in Handler, handler' = [handler EXCEPT ![h] = new],
         new.pc # "locked",
         Working(new) => status = "processing" /\ new.import = i,
         \A g \in Handlers \ {h} : Working(handler[g]) => Mine(g) # i,
         UNCHANGED <<disk, rows, placed>>
  PROVE  ImportInv'
<1>1. /\ rec' \in [Imports -> Record] /\ rec'[i].status = status
      /\ \A j \in Imports \ {i} : rec'[j] = rec[j]
      /\ \A j \in Imports : /\ rec'[j].file = rec[j].file /\ rec'[j].kind = rec[j].kind
                            /\ rec'[j].store = rec[j].store
  BY Statuses DEF ImportInv
<1>2. /\ handler' \in [Handlers -> Handler] /\ handler'[h] = new
      /\ \A g \in Handlers \ {h} : handler'[g] = handler[g]
  BY DEF ImportInv, TypeOK
<1>3. \A g \in Handlers \ {h} : Working(handler[g]) => Mine(g) \in Imports \ {i}
  BY DEF ImportInv, TypeOK, Handler, Working, Mine
<1>4. TypeOK'
  BY <1>1, <1>2 DEF ImportInv, TypeOK
<1>5. Claimed'
  BY <1>1, <1>2, <1>3 DEF ImportInv, Claimed, Mine
<1>6. LockSound'
  <2>1. ASSUME NEW j \in Imports, Duplicate(j)' PROVE Duplicate(j)
    BY <1>1, <2>1, ScopesStay DEF Duplicate
  <2>2. \A g \in Handlers : At(g, "locked")' =>
          /\ g # h /\ At(g, "locked") /\ Mine(g)' = Mine(g) /\ Mine(g) \in Imports
          /\ handler'[g] = handler[g]
    BY <1>2, <1>3 DEF At, Working, Mine
  <2> QED
    BY <1>1, <2>1, <2>2, ScopesStay DEF ImportInv, LockSound
<1>7. RowsOfFile' /\ FailedHasNoRows'
  BY <1>1 DEF ImportInv, RowsOfFile, FailedHasNoRows
<1>8. FileCountedOnce'
  BY <1>1, ScopesStay DEF ImportInv, FileCountedOnce
<1> QED
  BY <1>4, <1>5, <1>6, <1>7, <1>8 DEF ImportInv

LEMMA ClaimStep ==
  ASSUME ImportInv, NEW h \in Handlers, Claim(h)
  PROVE  ImportInv'
<1>1. ~At(h, "idle") /\ UNCHANGED <<disk, rows, placed>> /\ disk' \subseteq Imports
  BY DEF Claim, At, ImportInv, TypeOK
<1>2. CASE rec[Mine(h)].status = "pending"
  <2>1. PICK new \in Handler :
          /\ handler' = [handler EXCEPT ![h] = new]
          /\ new.pc = "claimed" /\ new.import = Mine(h) /\ Mine(h) \in Imports
    BY <1>1, <1>2, Going DEF Claim
  <2>2. \A g \in Handlers : Working(handler[g]) => Mine(g) # Mine(h)
    BY <1>2 DEF ImportInv, Claimed
  <2> QED
    BY <1>1, <1>2, <2>1, <2>2, SettleStep DEF Claim, Status
<1>3. CASE rec[Mine(h)].status # "pending"
  BY <1>1, <1>3, EndStep DEF Claim
<1> QED
  BY <1>2, <1>3

LEMMA FailStep ==
  ASSUME ImportInv, NEW h \in Handlers, Fail(h)
  PROVE  ImportInv'
<1>1. Working(handler[h]) /\ Mine(h) \in Imports
  BY DEF Fail, At, Working, ImportInv, TypeOK, Handler, Mine
<1>2. PICK new : new = [pc |-> "idle"]
  OBVIOUS
<1>3. /\ new \in Handler /\ ~Working(new) /\ new.pc # "locked"
      /\ handler' = [handler EXCEPT ![h] = new]
  BY <1>2 DEF Handler, Working, Fail, Ends
<1>4. /\ rec[Mine(h)].status = "processing"
      /\ \A g \in Handlers \ {h} : Working(handler[g]) => Mine(g) # Mine(h)
  BY <1>1 DEF ImportInv, Claimed
<1> QED
  BY <1>1, <1>3, <1>4, SettleStep DEF Fail, Status

(***************************************************************************)
(* The transaction.                                                        *)
(***************************************************************************)
\* What it leaves of the rows: those of i are the keys of its file, and what
\* was there before is gone in the scope of an overwrite.
LEMMA WhatIsWritten ==
  ASSUME TypeOK, NEW i \in Imports, NEW mode \in Modes, rows[i] = NoRows,
         rows' = Written(i, mode)
  PROVE  /\ rows' \in [Imports -> [Keys -> Nat]]
         /\ \A k \in Keys : rows'[i][k] = IF k \in KeysOf[rec[i].file] THEN 1 ELSE 0
         /\ \A j \in Imports \ {i}, k \in Keys :
              /\ rows'[j][k] = rows[j][k] \/ rows'[j][k] = 0
              /\ mode = "overwrite" /\ SameScope(i, j) /\ k \in KeysOf[rec[i].file] =>
                   rows'[j][k] = 0
<1>1. \A j \in Imports, k \in Keys : rows[j][k] \in Nat /\ rows[i][k] = 0
  BY DEF TypeOK, NoRows
<1> QED
  BY <1>1 DEF Written

LEMMA PersistStep ==
  ASSUME ImportInv, ~LostAck, NEW h \in Handlers, Persist(h)
  PROVE  ImportInv'
<1> DEFINE i == Mine(h)
<1>1. /\ At(h, "locked") /\ SetStatus(i, "confirmed") /\ Goes(h, "unlinking")
      /\ rows' = Written(i, handler[h].mode)
      /\ placed' \subseteq placed \cup {i} /\ disk' = disk
  BY DEF Persist
<1>2. PICK new \in Handler :
        /\ handler' = [handler EXCEPT ![h] = new]
        /\ new.pc = "unlinking" /\ i \in Imports
  BY <1>1, Going DEF At
<1>3. /\ handler' \in [Handlers -> Handler] /\ handler'[h] = new
      /\ \A g \in Handlers \ {h} : handler'[g] = handler[g]
  BY <1>2 DEF ImportInv, TypeOK
<1>4. /\ handler[h].mode \in Modes /\ rec[i].status = "processing"
      /\ \A g \in Handlers \ {h} : Working(handler[g]) => Mine(g) \in Imports \ {i}
  BY <1>1 DEF At, Working, ImportInv, TypeOK, Handler, Claimed, Mine
<1>5. /\ rec' \in [Imports -> Record] /\ rec'[i].status = "confirmed"
      /\ \A j \in Imports \ {i} : rec'[j] = rec[j]
      /\ \A j \in Imports : /\ rec'[j].file = rec[j].file /\ rec'[j].kind = rec[j].kind
                            /\ rec'[j].store = rec[j].store
  BY <1>1, <1>2, Statuses DEF ImportInv, Status
<1>6. rows[i] = NoRows
  BY <1>2, <1>4 DEF ImportInv, FailedHasNoRows
<1>7. /\ rows' \in [Imports -> [Keys -> Nat]]
      /\ \A k \in Keys : rows'[i][k] = IF k \in KeysOf[rec[i].file] THEN 1 ELSE 0
      /\ \A j \in Imports \ {i}, k \in Keys :
           /\ rows'[j][k] = rows[j][k] \/ rows'[j][k] = 0
           /\ handler[h].mode = "overwrite" /\ SameScope(i, j) /\ k \in KeysOf[rec[i].file] =>
                rows'[j][k] = 0
  BY <1>1, <1>2, <1>4, <1>6, WhatIsWritten DEF ImportInv
<1> HIDE DEF i
<1>8. TypeOK'
  BY <1>1, <1>2, <1>3, <1>5, <1>7 DEF ImportInv, TypeOK
<1>9. Claimed'
  BY <1>2, <1>3, <1>4, <1>5 DEF ImportInv, Claimed, Mine, Working
<1>10. LockSound'
  <2>1. \A g \in Handlers : At(g, "locked")' =>
          /\ g # h /\ At(g, "locked") /\ Mine(g)' = Mine(g) /\ Mine(g) \in Imports \ {i}
          /\ handler'[g] = handler[g]
    BY <1>2, <1>3, <1>4 DEF At, Working, Mine
  <2>2. ASSUME NEW g \in Handlers, At(g, "locked")', handler'[g].mode = "new"
        PROVE  ~Duplicate(Mine(g))'
    <3>1. ~Duplicate(Mine(g)) /\ OwnerRow(Mine(g)) # OwnerRow(i)
      BY <1>1, <2>1, <2>2 DEF ImportInv, LockSound, i
    <3>2. ~SameScope(Mine(g), i)
      BY <3>1 DEF SameScope, OwnerRow
    <3> QED
      BY <1>5, <2>1, <2>2, <3>1, <3>2, ScopesStay DEF Duplicate
  <2> QED
    BY <1>5, <2>1, <2>2, ScopesStay DEF ImportInv, LockSound
<1>11. RowsOfFile'
  BY <1>5, <1>7 DEF ImportInv, RowsOfFile
<1>12. FailedHasNoRows'
  <2>1. ASSUME NEW j \in Imports, rec'[j].status # "confirmed" PROVE rows'[j] = NoRows
    <3>1. j # i /\ rows[j] = NoRows
      BY <1>5, <2>1 DEF ImportInv, FailedHasNoRows
    <3>2. rows'[j] \in [Keys -> Nat] /\ \A k \in Keys : rows'[j][k] = 0
      BY <1>7, <3>1 DEF NoRows
    <3> QED
      BY <3>2 DEF NoRows
  <2> QED
    BY <2>1 DEF FailedHasNoRows, NoRows
<1>13. FileCountedOnce'
  <2>1. ASSUME NEW j \in Imports \ {i}, NEW k \in Keys,
               SameScope(i, j), rec[j].file = rec[i].file
        PROVE  rows'[i][k] = 0 \/ rows'[j][k] = 0
    <3>1. CASE handler[h].mode = "overwrite"
      BY <1>2, <1>7, <2>1, <3>1
    <3>2. CASE handler[h].mode = "new"
      <4>1. ~Duplicate(i)
        BY <1>1, <3>2 DEF ImportInv, LockSound, i
      <4>2. rows[j][k] = 0
        BY <2>1, <4>1 DEF Duplicate, ImportInv, FailedHasNoRows, NoRows
      <4> QED
        BY <1>7, <4>2
    <3> QED
      BY <1>4, <3>1, <3>2 DEF Modes
  <2>2. \A j \in Imports : SameScope(j, i) <=> SameScope(i, j)
    BY DEF SameScope
  <2>3. ASSUME NEW a \in Imports, NEW b \in Imports, NEW k \in Keys,
               SameScope(a, b), rec[b].file = rec[a].file
        PROVE  IF a = b THEN rows'[a][k] <= 1 ELSE rows'[a][k] = 0 \/ rows'[b][k] = 0
    <3>1. CASE a = i /\ b = i
      BY <1>7, <3>1
    <3>2. CASE a = i /\ b # i
      BY <2>1, <2>3, <3>2
    <3>3. CASE a # i /\ b = i
      BY <2>1, <2>2, <2>3, <3>3
    <3>4. CASE a # i /\ b # i
      BY <1>7, <2>3, <3>4 DEF ImportInv, FileCountedOnce
    <3> QED
      BY <3>1, <3>2, <3>3, <3>4
  <2> QED
    BY <1>5, <2>3, ScopesStay DEF FileCountedOnce
<1> QED
  BY <1>8, <1>9, <1>10, <1>11, <1>12, <1>13 DEF ImportInv

(***************************************************************************)
(* Every step, and the theorems.                                           *)
(***************************************************************************)
LEMMA ConfirmStep ==
  ASSUME ImportInv, ~LostAck, NEW h \in Handlers, Confirm(h)
  PROVE  ImportInv'
<1>1. CASE Claim(h)
  BY <1>1, ClaimStep
<1>2. CASE ReadFile(h)
  BY <1>2, GoStep DEF ReadFile, ImportInv, TypeOK, Working, At
<1>3. CASE LockOwner(h)
  BY <1>3, LockStep
<1>4. CASE Persist(h)
  BY <1>4, PersistStep
<1>5. CASE PersistFails(h)
  BY <1>5, GoStep DEF PersistFails, ImportInv, TypeOK, Working, At
<1>6. CASE Fail(h)
  BY <1>6, FailStep
<1>7. CASE Unlink(h)
  <2>1. Ends(h) /\ UNCHANGED <<rec, rows, placed>> /\ disk' \subseteq Imports
    BY <1>7 DEF Unlink, ImportInv, TypeOK
  <2> QED
    BY <2>1, EndStep
<1> QED
  BY <1>1, <1>2, <1>3, <1>4, <1>5, <1>6, <1>7 DEF Confirm

\* A step that only touches the disk, or nothing.
LEMMA DiskStep ==
  ASSUME ImportInv, UNCHANGED <<rec, rows, handler, placed>>, disk' \subseteq Imports
  PROVE  ImportInv'
BY DEF ImportInv, TypeOK, Claimed, LockSound, RowsOfFile, FailedHasNoRows, FileCountedOnce,
       At, Mine, OwnerRow, Duplicate, SameScope

LEMMA ImportStep ==
  ASSUME ImportInv, ~LostAck, [Next]_vars
  PROVE  ImportInv'
<1>1. ASSUME NEW i \in Imports, SaveFile(i) PROVE ImportInv'
  BY <1>1, DiskStep DEF SaveFile, ImportInv, TypeOK
<1>2. ASSUME NEW i \in Imports, SweepFile(i) PROVE ImportInv'
  BY <1>2, DiskStep DEF SweepFile, ImportInv, TypeOK
<1>3. ASSUME NEW h \in Handlers, Crash(h) PROVE ImportInv'
  <2>1. Ends(h) /\ UNCHANGED <<rec, rows, placed>> /\ disk' \subseteq Imports
    BY <1>3 DEF Crash, ImportInv, TypeOK
  <2> QED
    BY <2>1, EndStep
<1>4. CASE UNCHANGED vars
  BY <1>4, DiskStep DEF vars, ImportInv, TypeOK
<1> QED
  BY <1>1, <1>2, <1>3, <1>4, InsertStep, ConfirmStep, CheckStep DEF Next

\* The invariant holds in every reachable state, as long as the answer to a
\* COMMIT arrives (csv_import.py:744 takes its loss for a failure).
THEOREM Importing == ASSUME ~LostAck PROVE Spec => []ImportInv
BY ImportInit, ImportStep, PTL DEF Spec

\* What one file says of a day, or of a SKU, is in its scope once, whoever
\* confirms it again and in whatever mode (csv_import.py:682-683, 719-724).
THEOREM CountedOnce == ASSUME ~LostAck PROVE Spec => []FileCountedOnce
<1>1. ImportInv => FileCountedOnce
  BY DEF ImportInv
<1> QED
  BY <1>1, Importing, PTL

\* An import that is not confirmed has left no row: the claim keeps every other
\* request off it until its record is settled (csv_import.py:604, 680-688).
THEOREM FailedLeavesNothing == ASSUME ~LostAck PROVE Spec => []FailedHasNoRows
<1>1. ImportInv => FailedHasNoRows
  BY DEF ImportInv
<1> QED
  BY <1>1, Importing, PTL

=============================================================================
