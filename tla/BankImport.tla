----------------------------- MODULE BankImport -----------------------------
(***************************************************************************)
(* Bank statements imported concurrently                                   *)
(* (src/reckonflow/services/bank.py) on PostgreSQL, READ COMMITTED.  One   *)
(* import is one upload with its own transaction, its rows are inserted    *)
(* one statement after the other, and the unique index on external_id      *)
(* makes an INSERT ... ON CONFLICT wait for a transaction that has         *)
(* inserted the same id and is not over.                                   *)
(*                                                                         *)
(* A file is the sequence of its validated rows; the rows validation       *)
(* refuses are only counted.  A table row is named by the import that      *)
(* inserted it and its place in that import's file.                        *)
(***************************************************************************)
EXTENDS Integers, Sequences, FiniteSets

CONSTANTS
    Imports,         \* the uploads
    Ids,             \* external_ids
    Files,           \* what an upload may hold
    Refused,         \* how many rows of a file validation may refuse
    NONE

\* wide: the amount passes validation and overflows NUMERIC(15, 4).
Rows == [id : Ids \cup {NONE}, wide : BOOLEAN]

ASSUME BankImportAssumption ==
    /\ NONE \notin Ids
    /\ Files \subseteq Seq(Rows)
    /\ Refused \subseteq Nat

VARIABLES
    stored,          \* bank_transactions: the committed rows
    pending,         \* the places an import has inserted and not committed
    pc,
    file,
    place,           \* the row of its file an import has reached
    report           \* BankImportResult

vars == <<stored, pending, pc, file, place, report>>

Report(f, refused) == [received |-> Len(f) + refused, inserted |-> 0,
                       skipped |-> 0, errors |-> refused]

Init ==
    /\ stored = {}
    /\ pending = [i \in Imports |-> {}]
    /\ pc = [i \in Imports |-> "new"]
    /\ file = [i \in Imports |-> <<>>]
    /\ place = [i \in Imports |-> 1]
    /\ report = [i \in Imports |-> Report(<<>>, 0)]

-----------------------------------------------------------------------------
IdOf(i, n) == file[i][n].id
StoredIds == {IdOf(x[1], x[2]) : x \in stored} \ {NONE}
PendingIds(i) == {IdOf(i, n) : n \in pending[i]} \ {NONE}
SeenInFile(i) == {IdOf(i, n) : n \in 1 .. place[i] - 1} \ {NONE}

AtRow(i) == pc[i] = "rows" /\ place[i] <= Len(file[i])
Row(i) == file[i][place[i]]

\* The row's INSERT is due: its id has not come up in the file before.
ToInsert(i) == AtRow(i) /\ Row(i).id # NONE /\ Row(i).id \notin SeenInFile(i)

\* The index holds an entry of another transaction, whose end decides.
WaitsFor(i, j) ==
    /\ i # j
    /\ ToInsert(i) /\ ~Row(i).wide
    /\ Row(i).id \in PendingIds(j)

-----------------------------------------------------------------------------
\* The whole body is read and validated first.
Submit(i) ==
    /\ pc[i] = "new"
    /\ \E f \in Files, refused \in Refused :
         /\ file' = [file EXCEPT ![i] = f]
         /\ report' = [report EXCEPT ![i] = Report(f, refused)]
    /\ pc' = [pc EXCEPT ![i] = "rows"]
    /\ UNCHANGED <<stored, pending, place>>

\* Too large (413), or without a header (an empty report): no row is touched.
TurnAway(i) ==
    /\ pc[i] = "new"
    /\ pc' = [pc EXCEPT ![i] = "refused"]
    /\ UNCHANGED <<stored, pending, file, place, report>>

Count(i, what) == report' = [report EXCEPT ![i][what] = @ + 1]
NextRow(i) == place' = [place EXCEPT ![i] = @ + 1]
PutOffByOne(i) == pending' = [pending EXCEPT ![i] = @ \cup {place[i] - 1}]
Put(i) == pending' = [pending EXCEPT ![i] = @ \cup {place[i]}]

SkipSeenCountingNothing(i) ==
    /\ AtRow(i) /\ Row(i).id \in SeenInFile(i)
    /\ NextRow(i)
    /\ UNCHANGED <<stored, pending, pc, file, report>>

SkipSeen(i) ==
    /\ AtRow(i) /\ Row(i).id \in SeenInFile(i)
    /\ Count(i, "skipped") /\ NextRow(i)
    /\ UNCHANGED <<stored, pending, pc, file>>

InsertWithoutWaiting(i) ==
    /\ ToInsert(i) /\ ~Row(i).wide
    /\ IF Row(i).id \in StoredIds \cup UNION {PendingIds(j) : j \in Imports}
       THEN Count(i, "skipped") /\ UNCHANGED pending
       ELSE Count(i, "inserted") /\ Put(i)
    /\ NextRow(i)
    /\ UNCHANGED <<stored, pc, file>>

InsertAfterPreCheck(i) ==
    /\ ToInsert(i) /\ ~Row(i).wide
    /\ IF Row(i).id \in StoredIds
       THEN Count(i, "skipped") /\ UNCHANGED pending
       ELSE Count(i, "inserted") /\ Put(i)
    /\ NextRow(i)
    /\ UNCHANGED <<stored, pc, file>>

\* INSERT ... ON CONFLICT DO NOTHING: no row comes back when the id is there.
Insert(i) ==
    /\ ToInsert(i) /\ ~Row(i).wide
    /\ \A j \in Imports : ~WaitsFor(i, j)
    /\ IF Row(i).id \in StoredIds
       THEN Count(i, "skipped") /\ UNCHANGED pending
       ELSE Count(i, "inserted") /\ Put(i)
    /\ NextRow(i)
    /\ UNCHANGED <<stored, pc, file>>

\* session.add: the row is sent with the flush, and nothing conflicts with it.
AddWithoutId(i) ==
    /\ AtRow(i) /\ Row(i).id = NONE
    /\ Put(i) /\ Count(i, "inserted") /\ NextRow(i)
    /\ UNCHANGED <<stored, pc, file>>

-----------------------------------------------------------------------------
CloseKeepingRows(i) ==
    /\ pc' = [pc EXCEPT ![i] = "refused"]
    /\ UNCHANGED <<stored, pending, file, place, report>>

\* A 500 or a lost connection: the transaction is rolled back.
Close(i) ==
    /\ pc' = [pc EXCEPT ![i] = "refused"]
    /\ pending' = [pending EXCEPT ![i] = {}]
    /\ UNCHANGED <<stored, file, place, report>>

\* The column refuses the amount, at the row's INSERT or at the flush.
Overflow(i) ==
    /\ \/ ToInsert(i) /\ Row(i).wide
       \/ /\ pc[i] = "rows" /\ place[i] > Len(file[i])
          /\ \E n \in pending[i] : file[i][n].wide
    /\ Close(i)

Flush(i) ==
    /\ pc[i] = "rows" /\ place[i] > Len(file[i])
    /\ \A n \in pending[i] : ~file[i][n].wide
    /\ pc' = [pc EXCEPT ![i] = "flushed"]
    /\ UNCHANGED <<stored, pending, file, place, report>>

Commit(i) ==
    /\ pc[i] = "flushed"
    /\ pc' = [pc EXCEPT ![i] = "committed"]
    /\ stored' = stored \cup {<<i, n>> : n \in pending[i]}
    /\ pending' = [pending EXCEPT ![i] = {}]
    /\ UNCHANGED <<file, place, report>>

\* PostgreSQL ends one of the transactions that wait for each other.
Deadlock(i) ==
    /\ ToInsert(i)
    /\ \E S \in SUBSET Imports :
         /\ i \in S
         /\ \A p \in S : \E q \in S : WaitsFor(p, q)
         /\ \A q \in S : \E p \in S : WaitsFor(p, q)
    /\ Close(i)

Crash(i) ==
    /\ pc[i] \in {"rows", "flushed"}
    /\ Close(i)

-----------------------------------------------------------------------------
ImportRows(i) == SkipSeen(i) \/ Insert(i) \/ AddWithoutId(i) \/ Overflow(i)

Work(i) == ImportRows(i) \/ Flush(i) \/ Commit(i) \/ Deadlock(i)

Finished ==
    /\ \A i \in Imports : pc[i] \in {"committed", "refused"}
    /\ UNCHANGED vars

Next ==
    \/ \E i \in Imports : Submit(i) \/ TurnAway(i) \/ Work(i) \/ Crash(i)
    \/ Finished

Spec == Init /\ [][Next]_vars

\* The event loop runs every import, a waiting INSERT is woken, and a deadlock
\* is detected.
Fairness == \A i \in Imports : WF_vars(Work(i))

FairSpec == Spec /\ Fairness

-----------------------------------------------------------------------------
(* Properties                                                              *)

TypeOK ==
    /\ stored \subseteq Imports \X (Nat \ {0})
    /\ pending \in [Imports -> SUBSET (Nat \ {0})]
    /\ pc \in [Imports -> {"new", "rows", "flushed", "committed", "refused"}]
    /\ file \in [Imports -> Seq(Rows)]
    /\ place \in [Imports -> Nat \ {0}]
    /\ report \in [Imports ->
         [received : Nat, inserted : Nat, skipped : Nat, errors : Nat]]

\* "ON CONFLICT DO NOTHING closes the check-then-insert race": however uploads
\* of overlapping statements interleave, an external_id is stored once.
OneRowPerId ==
    \A x, y \in stored :
      IdOf(x[1], x[2]) = IdOf(y[1], y[2]) /\ IdOf(x[1], x[2]) # NONE => x = y

\* A duplicate is skipped only for a row that is there to stay: when an import
\* has committed, each of its ids is stored, by itself or by another import,
\* and each row without an id is stored by itself.
NothingLost ==
    \A i \in Imports : pc[i] = "committed" =>
      \A n \in 1 .. Len(file[i]) :
        IF IdOf(i, n) = NONE THEN <<i, n>> \in stored
                             ELSE IdOf(i, n) \in StoredIds

\* The report is what happened: every row received is counted once, and as
\* many rows as are reported inserted are in the table.
ReportIsTrue ==
    \A i \in Imports : pc[i] = "committed" =>
      /\ report[i].received =
           report[i].inserted + report[i].skipped + report[i].errors
      /\ report[i].inserted =
           Cardinality({x \in stored : x[1] = i})

\* Every import ends, also when files list the same ids in opposite orders and
\* their INSERTs wait for each other.
EveryImportEnds ==
    \A i \in Imports : pc[i] = "rows" ~> pc[i] \in {"committed", "refused"}
=============================================================================
