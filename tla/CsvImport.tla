------------------------------ MODULE CsvImport -----------------------------
(***************************************************************************)
(* A seller's CSV: upload, confirmation, and the file it leaves on disk    *)
(* (routers/csv_import.py, tasks/uploads_cleanup.py), in one cabinet.      *)
(*                                                                         *)
(* A confirmation claims the record in one commit, reads the file, and     *)
(* writes everything else in one transaction under the lock of a row, that *)
(* of the store or, for card content, that of the account.  What the       *)
(* transaction inserted is visible at its commit only, so its statements   *)
(* are one step once the locks they wait for are free.                     *)
(***************************************************************************)
EXTENDS Naturals, FiniteSets

CONSTANTS
  Imports,        \* uploads, each with its row of import_records
  Handlers,       \* requests that run at the same time
  Stores,         \* the stores of the cabinet
  Files,          \* contents of files, told apart by file_hash
  Keys,           \* dates, or SKUs for card content
  KeysOf,         \* file -> the keys in it
  Kinds,          \* the import types tried: "dated" (finance, returns), "snapshot"
                  \* (products), both bound to a store, and "card" (card_content)
  LostAck         \* TRUE: the answer to a COMMIT that took effect may be lost

ASSUME ImportAssumption ==
  /\ KeysOf \in [Files -> SUBSET Keys]
  /\ Kinds \subseteq {"dated", "snapshot", "card"}
  /\ LostAck \in BOOLEAN

VARIABLES
  rec,            \* import -> row of import_records, and what the upload was
  disk,           \* the imports whose file is on disk
  rows,           \* import -> key -> its rows with that key in the imported_* table
  handler,        \* handler -> where it stands
  placed          \* history: the imports that put products into a store

vars == <<rec, disk, rows, handler, placed>>

Status == {"none", "pending", "processing", "confirmed", "failed"}

Record == [status : Status, file : Files, kind : Kinds, store : Stores]

Modes == {"new", "overwrite"}

Handler ==
  [pc : {"idle"}]
  \cup [pc : {"checked", "claimed", "read", "locked", "failing", "unlinking"},
        import : Imports, mode : Modes]

TypeOK ==
  /\ rec \in [Imports -> Record]
  /\ disk \subseteq Imports
  /\ rows \in [Imports -> [Keys -> Nat]]
  /\ handler \in [Handlers -> Handler]
  /\ placed \subseteq Imports

NoRows == [k \in Keys |-> 0]

Init ==
  /\ rec \in [Imports -> [status : {"none"}, file : Files, kind : Kinds, store : Stores]]
  /\ disk = {}
  /\ rows = [i \in Imports |-> NoRows]
  /\ handler = [h \in Handlers |-> [pc |-> "idle"]]
  /\ placed = {}

At(h, pc) == handler[h].pc = pc

Goes(h, pc) == handler' = [handler EXCEPT ![h].pc = pc]

Ends(h) == handler' = [handler EXCEPT ![h] = [pc |-> "idle"]]

Mine(h) == handler[h].import

SetStatus(i, status) == rec' = [rec EXCEPT ![i].status = status]

(***************************************************************************)
(* POST /import/upload: the file first, then the record.  A request that   *)
(* dies in between leaves a file without a record.                         *)
(***************************************************************************)
SaveFile(i) ==
  /\ rec[i].status = "none" /\ i \notin disk
  /\ disk' = disk \cup {i}
  /\ UNCHANGED <<rec, rows, handler, placed>>

InsertRecord(i) ==
  /\ rec[i].status = "none" /\ i \in disk
  /\ SetStatus(i, "pending")
  /\ UNCHANGED <<disk, rows, handler, placed>>

(***************************************************************************)
(* POST /import/{id}/confirm.                                              *)
(***************************************************************************)
CheckImport(h, i) ==
  /\ At(h, "idle")
  /\ rec[i].status = "pending" /\ i \in disk
  /\ \E mode \in Modes :
       handler' = [handler EXCEPT ![h] = [pc |-> "checked", import |-> i, mode |-> mode]]
  /\ UNCHANGED <<rec, disk, rows, placed>>

\* Mutant: the status is set without asking for the one that was read.
ClaimUnasked(h) ==
  /\ At(h, "checked")
  /\ SetStatus(Mine(h), "processing")
  /\ Goes(h, "claimed")
  /\ UNCHANGED <<disk, rows, placed>>

\* Of several confirmations one flips the status; the others are refused.
Claim(h) ==
  /\ At(h, "checked")
  /\ IF rec[Mine(h)].status = "pending"
     THEN SetStatus(Mine(h), "processing") /\ Goes(h, "claimed")
     ELSE Ends(h) /\ UNCHANGED rec
  /\ UNCHANGED <<disk, rows, placed>>

\* The file may have been swept since, or be unreadable now.
ReadFile(h) ==
  /\ At(h, "claimed")
  /\ \/ Mine(h) \in disk /\ Goes(h, "read")
     \/ Goes(h, "failing")
  /\ UNCHANGED <<rec, disk, rows, placed>>

\* The row a confirmation locks: its store's, or the account's.
OwnerRow(i) == IF rec[i].kind = "card" THEN "account" ELSE rec[i].store

HoldsLock(h, row) == At(h, "locked") /\ OwnerRow(Mine(h)) = row

Locked(row, h) == \E other \in Handlers \ {h} : HoldsLock(other, row)

\* The tables and the part of them that i and j share.
SameScope(i, j) ==
  /\ rec[i].kind = rec[j].kind
  /\ rec[i].kind # "card" => rec[i].store = rec[j].store

\* _guard_new_duplicate, under the lock.
Duplicate(i) ==
  \E j \in Imports \ {i} :
    SameScope(i, j) /\ rec[j].file = rec[i].file /\ rec[j].status = "confirmed"

\* Mutant: the lock is taken without waiting for its owner.
LockOwnerAtOnce(h) ==
  /\ At(h, "read")
  /\ IF handler[h].mode = "new" /\ Duplicate(Mine(h)) THEN Goes(h, "failing")
                                                      ELSE Goes(h, "locked")
  /\ UNCHANGED <<rec, disk, rows, placed>>

LockOwner(h) ==
  /\ At(h, "read")
  /\ ~Locked(OwnerRow(Mine(h)), h)
  /\ IF handler[h].mode = "new" /\ Duplicate(Mine(h)) THEN Goes(h, "failing")
                                                      ELSE Goes(h, "locked")
  /\ UNCHANGED <<rec, disk, rows, placed>>

\* The foreign keys of the new rows lock their parents: rows bound to a store
\* that of the account, a placement that of the store.
Parent(h, places) ==
  IF rec[Mine(h)].kind # "card" THEN {"account"}
  ELSE IF places THEN {rec[Mine(h)].store} ELSE {}

\* _persist_import_rows: an overwrite first deletes the rows of its scope with
\* a key of the file, whoever imported them; a snapshot deletes them all.
Written(i, mode) ==
  LET replaced(j, k) ==
        /\ mode = "overwrite" /\ SameScope(i, j)
        /\ rec[i].kind = "snapshot" \/ k \in KeysOf[rec[i].file]
  IN  [j \in Imports |-> [k \in Keys |->
         (IF replaced(j, k) THEN 0 ELSE rows[j][k])
         + (IF j = i /\ k \in KeysOf[rec[i].file] THEN 1 ELSE 0)]]

\* The transaction commits.  places: a SKU of the file resolved to a product,
\* which is then placed in the record's store, whatever the import type.
Persist(h) ==
  \E places \in BOOLEAN, acknowledged \in {TRUE} \cup {~LostAck} :
    /\ At(h, "locked")
    /\ \A row \in Parent(h, places) : ~Locked(row, h)
    /\ rows' = Written(Mine(h), handler[h].mode)
    /\ placed' = IF places THEN placed \cup {Mine(h)} ELSE placed
    /\ SetStatus(Mine(h), "confirmed")
    /\ Goes(h, IF acknowledged THEN "unlinking" ELSE "failing")
    /\ UNCHANGED disk

\* Rollback: a database error, or the victim of a deadlock.
PersistFails(h) ==
  /\ At(h, "read") \/ At(h, "locked")
  /\ Goes(h, "failing")
  /\ UNCHANGED <<rec, disk, rows, placed>>

\* A transaction of its own, by the record's id alone.
Fail(h) ==
  /\ At(h, "failing")
  /\ SetStatus(Mine(h), "failed")
  /\ Ends(h)
  /\ UNCHANGED <<disk, rows, placed>>

\* The consumed file goes, and with it what is old of the seller's others.
Unlink(h) ==
  /\ At(h, "unlinking")
  /\ \E old \in SUBSET disk : disk' = disk \ (old \cup {Mine(h)})
  /\ Ends(h)
  /\ UNCHANGED <<rec, rows, placed>>

Crash(h) ==
  /\ ~At(h, "idle")
  /\ Ends(h)
  /\ UNCHANGED <<rec, disk, rows, placed>>

\* The sweep of the scheduler's tick: a file gets old whatever became of its
\* import, also between two steps of a confirmation.
SweepFile(i) ==
  /\ i \in disk
  /\ disk' = disk \ {i}
  /\ UNCHANGED <<rec, rows, handler, placed>>

Confirm(h) ==
  \/ Claim(h) \/ ReadFile(h) \/ LockOwner(h) \/ Persist(h) \/ PersistFails(h)
  \/ Fail(h) \/ Unlink(h)

Next ==
  \/ \E i \in Imports : SaveFile(i) \/ InsertRecord(i) \/ SweepFile(i)
  \/ \E h \in Handlers : Confirm(h) \/ Crash(h) \/ \E i \in Imports : CheckImport(h, i)

Spec == Init /\ [][Next]_vars

(***************************************************************************)
(* Properties.                                                             *)
(***************************************************************************)
\* What one file says of a day, or of a SKU, is in its scope once: whoever
\* uploads and confirms it again, as new or as an overwrite, at the same time
\* or after a crash (csv_import.py:682-683, 719-724).
FileCountedOnce ==
  \A i, j \in Imports, k \in Keys :
    SameScope(i, j) /\ rec[j].file = rec[i].file =>
      IF i = j THEN rows[i][k] <= 1 ELSE rows[i][k] = 0 \/ rows[j][k] = 0

\* "card_content is cabinet-level (account_id, no store_id, no placement)"
\* (csv_import.py:500).
CardIsNotPlaced == \A i \in placed : rec[i].kind # "card"

\* An import that failed left nothing behind, and an import that left rows is
\* confirmed: "Any DB error propagates -> confirm rolls back -> failed"
\* (csv_import.py:604).  Two confirmations of one import must not both run.
FailedHasNoRows == \A i \in Imports : rec[i].status # "confirmed" => rows[i] = NoRows

=============================================================================
