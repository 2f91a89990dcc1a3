-------------------------- MODULE BankImportProofs --------------------------
(***************************************************************************)
(* Proofs about BankImport for any number of uploads and any files.        *)
(***************************************************************************)
EXTENDS BankImport, FiniteSetTheorems, TLAPS

\* Before any upload.
LEMMA InitType == Init => TypeOK
  BY BankImportAssumption DEF Init, TypeOK, Report

Reports == [received : Nat, inserted : Nat, skipped : Nat, errors : Nat]

\* Counting a row keeps the reports reports.
LEMMA CountType ==
  ASSUME TypeOK, NEW i \in Imports, Count(i, "inserted") \/ Count(i, "skipped")
  PROVE  report' \in [Imports -> Reports]
<1>0. report[i] \in Reports /\ report \in [Imports -> Reports]
  BY DEF TypeOK, Reports
<1>1. CASE Count(i, "inserted")
  <2>1. [report[i] EXCEPT !.inserted = @ + 1] \in Reports
    BY <1>0 DEF Reports
  <2>2. report' = [report EXCEPT ![i] = [report[i] EXCEPT !.inserted = @ + 1]]
    BY <1>0, <1>1 DEF Count
  <2> QED BY <1>0, <2>1, <2>2
<1>2. CASE Count(i, "skipped")
  <2>1. [report[i] EXCEPT !.skipped = @ + 1] \in Reports
    BY <1>0 DEF Reports
  <2>2. report' = [report EXCEPT ![i] = [report[i] EXCEPT !.skipped = @ + 1]]
    BY <1>0, <1>2 DEF Count
  <2> QED BY <1>0, <2>1, <2>2
<1> QED BY <1>1, <1>2

\* Put adds the row's place, a positive number below the next place.
LEMMA PutPlaces ==
  ASSUME TypeOK, NEW i \in Imports, Put(i)
  PROVE  /\ pending' \in [Imports -> SUBSET (Nat \ {0})]
         /\ pending'[i] = pending[i] \cup {place[i]}
         /\ \A j \in Imports \ {i} : pending'[j] = pending[j]
<1>1. place[i] \in Nat \ {0}
  BY DEF TypeOK
<1>2. pending' = [pending EXCEPT ![i] = pending[i] \cup {place[i]}]
  BY DEF Put
<1>3. pending[i] \cup {place[i]} \in SUBSET (Nat \ {0})
  BY <1>1 DEF TypeOK
<1> QED BY <1>2, <1>3 DEF TypeOK

\* A row is counted and the next one is due.
LEMMA RowType ==
  ASSUME TypeOK, NEW i \in Imports, Count(i, "inserted") \/ Count(i, "skipped"),
         NextRow(i), Put(i) \/ UNCHANGED pending, UNCHANGED <<stored, pc, file>>
  PROVE  TypeOK'
<1>1. report' \in [Imports -> Reports]
  BY CountType
<1>2. pending' \in [Imports -> SUBSET (Nat \ {0})]
  BY PutPlaces DEF TypeOK
<1>3. place' \in [Imports -> Nat \ {0}]
  BY DEF TypeOK, NextRow
<1> QED BY <1>1, <1>2, <1>3 DEF TypeOK, Reports

\* Every step keeps the types.
LEMMA TypeStep == TypeOK /\ [Next]_vars => TypeOK'
<1> SUFFICES ASSUME TypeOK, [Next]_vars PROVE TypeOK'
  OBVIOUS
<1> USE DEF TypeOK
<1>1. ASSUME NEW i \in Imports, Submit(i) PROVE TypeOK'
  <2>1. PICK f \in Files, refused \in Refused :
          /\ file' = [file EXCEPT ![i] = f]
          /\ report' = [report EXCEPT ![i] = Report(f, refused)]
    BY <1>1 DEF Submit
  <2>2. f \in Seq(Rows) /\ refused \in Nat /\ Len(f) \in Nat
    BY BankImportAssumption
  <2>3. Report(f, refused) \in
          [received : Nat, inserted : Nat, skipped : Nat, errors : Nat]
    BY <2>2 DEF Report
  <2> QED BY <1>1, <2>1, <2>2, <2>3 DEF Submit
<1>2. ASSUME NEW i \in Imports, TurnAway(i) PROVE TypeOK'
  BY <1>2 DEF TurnAway
<1>3. ASSUME NEW i \in Imports, SkipSeen(i) PROVE TypeOK'
  BY <1>3, RowType DEF SkipSeen
<1>4. ASSUME NEW i \in Imports, Insert(i) PROVE TypeOK'
  BY <1>4, RowType DEF Insert
<1>5. ASSUME NEW i \in Imports, AddWithoutId(i) PROVE TypeOK'
  BY <1>5, RowType DEF AddWithoutId
<1>6. ASSUME NEW i \in Imports, Close(i) PROVE TypeOK'
  BY <1>6 DEF Close
<1>7. ASSUME NEW i \in Imports, Flush(i) PROVE TypeOK'
  BY <1>7 DEF Flush
<1>8. ASSUME NEW i \in Imports, Commit(i) PROVE TypeOK'
  BY <1>8 DEF Commit
<1>9. CASE UNCHANGED vars
  BY <1>9 DEF vars
<1> QED
  BY <1>1, <1>2, <1>3, <1>4, <1>5, <1>6, <1>7, <1>8, <1>9
     DEF Next, Work, ImportRows, Overflow, Deadlock, Crash, Finished

\* TypeOK for every number of uploads.
THEOREM TypeCorrect == Spec => []TypeOK
  BY InitType, TypeStep, PTL DEF Spec

-----------------------------------------------------------------------------
(* An id is stored once.                                                   *)

\* Every row that is committed, or inserted by a transaction under way.
Live == stored \cup {x \in Imports \X (Nat \ {0}) : x[2] \in pending[x[1]]}

IdOfRow(x) == IdOf(x[1], x[2])

\* Live rows belong to imports whose file is fixed, and an import has inserted
\* only rows it has passed.
Placed ==
    /\ \A x \in stored : pc[x[1]] = "committed"
    /\ \A i \in Imports : \A n \in pending[i] :
         pc[i] \in {"rows", "flushed"} /\ n < place[i]

LiveOnce ==
    \A x, y \in Live : IdOfRow(x) = IdOfRow(y) /\ IdOfRow(x) # NONE => x = y

UniqueInv == TypeOK /\ Placed /\ LiveOnce

\* Every step keeps the rows where their imports are.
LEMMA PlacedStep == TypeOK /\ Placed /\ [Next]_vars => Placed'
<1> SUFFICES ASSUME TypeOK, Placed, [Next]_vars PROVE Placed'
  OBVIOUS
<1> USE DEF TypeOK, Placed
<1>1. ASSUME NEW i \in Imports, Submit(i) \/ TurnAway(i) PROVE Placed'
  BY <1>1 DEF Submit, TurnAway
<1>2. ASSUME NEW i \in Imports, SkipSeen(i) PROVE Placed'
  BY <1>2 DEF SkipSeen, NextRow
<1>3. ASSUME NEW i \in Imports, Insert(i) \/ AddWithoutId(i) PROVE Placed'
  <2>1. pending' = pending \/ Put(i)
    BY <1>3 DEF Insert, AddWithoutId
  <2>2. pc[i] = "rows" /\ NextRow(i) /\ UNCHANGED <<stored, pc>>
    BY <1>3 DEF Insert, AddWithoutId, ToInsert, AtRow
  <2>3. place' \in [Imports -> Nat \ {0}] /\ place'[i] = place[i] + 1
    BY <2>2 DEF NextRow
  <2>4. \A j \in Imports \ {i} : place'[j] = place[j]
    BY <2>2 DEF NextRow
  <2>5. \A n \in pending'[i] : n < place'[i]
    <3>1. pending'[i] \subseteq pending[i] \cup {place[i]}
      BY <2>1, PutPlaces
    <3>2. place[i] \in Nat /\ \A n \in pending[i] : n \in Nat /\ n < place[i]
      OBVIOUS
    <3> HIDE DEF TypeOK, Placed
    <3> QED BY <2>3, <3>1, <3>2
  <2>6. \A j \in Imports \ {i} : pending'[j] = pending[j]
    BY <2>1, PutPlaces
  <2> QED BY <2>2, <2>4, <2>5, <2>6
<1>4. ASSUME NEW i \in Imports, Close(i), pc[i] # "committed" PROVE Placed'
  BY <1>4 DEF Close
<1>5. ASSUME NEW i \in Imports, Flush(i) PROVE Placed'
  BY <1>5 DEF Flush
<1>6. ASSUME NEW i \in Imports, Commit(i) PROVE Placed'
  BY <1>6 DEF Commit
<1>7. CASE UNCHANGED vars
  BY <1>7 DEF vars
<1> QED
  BY <1>1, <1>2, <1>3, <1>4, <1>5, <1>6, <1>7
     DEF Next, Work, ImportRows, Overflow, Deadlock, Crash, Finished, ToInsert,
         AtRow

\* A row that enters the table has an id that no live row has.
LEMMA NewId ==
  ASSUME TypeOK, Placed, NEW i \in Imports, Insert(i), Put(i),
         Row(i).id \notin StoredIds, NEW x \in Live
  PROVE  IdOfRow(x) # Row(i).id
<1> USE DEF TypeOK, IdOfRow
<1>0. Row(i).id # NONE /\ Row(i).id \notin SeenInFile(i)
  BY DEF Insert, ToInsert
<1>1. CASE x \in stored
  BY <1>0, <1>1 DEF StoredIds
<1>2. CASE x \notin stored
  <2>1. x[1] \in Imports /\ x[2] \in pending[x[1]] /\ x[2] \in Nat \ {0}
    BY <1>2 DEF Live
  <2>2. CASE x[1] = i
    <3>1. x[2] \in 1 .. place[i] - 1
      BY <2>1, <2>2 DEF Placed
    <3> QED BY <3>1, <2>2, <1>0 DEF SeenInFile
  <2>3. CASE x[1] # i
    <3>1. ~WaitsFor(i, x[1])
      BY <2>1 DEF Insert
    <3>2. Row(i).id \notin PendingIds(x[1])
      BY <3>1, <2>3 DEF WaitsFor, Insert
    <3> QED BY <3>2, <2>1, <1>0 DEF PendingIds
  <2> QED BY <2>2, <2>3
<1> QED BY <1>1, <1>2

\* Every step keeps the ids of live rows apart.
LEMMA OnceStep == UniqueInv /\ [Next]_vars => LiveOnce'
<1> SUFFICES ASSUME TypeOK, Placed, LiveOnce, [Next]_vars PROVE LiveOnce'
  BY DEF UniqueInv
<1> USE DEF TypeOK
\* Fewer live rows in the same files.
<1>0. ASSUME Live' \subseteq Live, UNCHANGED file PROVE LiveOnce'
  BY <1>0 DEF LiveOnce, IdOfRow, IdOf
<1>1. ASSUME NEW i \in Imports, Submit(i) PROVE LiveOnce'
  <2>1. Live' = Live
    BY <1>1 DEF Submit, Live
  <2>2. ASSUME NEW x \in Live PROVE IdOfRow(x)' = IdOfRow(x)
    <3>1. x[1] \in Imports /\ x[1] # i
      BY <1>1, <2>2 DEF Live, Placed, Submit
    <3> QED BY <1>1, <3>1 DEF Submit, IdOfRow, IdOf
  <2> QED BY <2>1, <2>2 DEF LiveOnce
<1>2. ASSUME NEW i \in Imports, TurnAway(i) \/ SkipSeen(i) \/ Flush(i)
      PROVE LiveOnce'
  BY <1>0, <1>2 DEF TurnAway, SkipSeen, Flush, Live
<1>3. ASSUME NEW i \in Imports, Insert(i) PROVE LiveOnce'
  <2>1. CASE Row(i).id \in StoredIds
    BY <1>0, <1>3, <2>1 DEF Insert, Live
  <2>2. CASE Row(i).id \notin StoredIds
    <3>1. Put(i) /\ UNCHANGED <<stored, file>>
      BY <1>3, <2>2 DEF Insert
    <3>2. Live' \subseteq Live \cup {<<i, place[i]>>}
      BY <3>1 DEF Put, Live
    <3>3. \A x \in Live : IdOfRow(x) # Row(i).id
      BY <1>3, <2>2, <3>1, NewId
    <3>4. IdOfRow(<<i, place[i]>>) = Row(i).id
      BY DEF IdOfRow, IdOf, Row
    <3>5. \A x : IdOfRow(x)' = IdOfRow(x)
      BY <3>1 DEF IdOfRow, IdOf
    <3> QED BY <3>2, <3>3, <3>4, <3>5 DEF LiveOnce
  <2> QED BY <2>1, <2>2
<1>4. ASSUME NEW i \in Imports, AddWithoutId(i) PROVE LiveOnce'
  <2>1. Live' \subseteq Live \cup {<<i, place[i]>>}
    BY <1>4 DEF AddWithoutId, Put, Live
  <2>2. IdOfRow(<<i, place[i]>>) = NONE
    BY <1>4 DEF AddWithoutId, IdOfRow, IdOf, Row
  <2>3. \A x : IdOfRow(x)' = IdOfRow(x)
    BY <1>4 DEF AddWithoutId, IdOfRow, IdOf
  <2> QED BY <2>1, <2>2, <2>3 DEF LiveOnce
<1>5. ASSUME NEW i \in Imports, Close(i) PROVE LiveOnce'
  BY <1>0, <1>5 DEF Close, Live
<1>6. ASSUME NEW i \in Imports, Commit(i) PROVE LiveOnce'
  BY <1>0, <1>6 DEF Commit, Live
<1>7. CASE UNCHANGED vars
  BY <1>0, <1>7 DEF vars, Live
<1> QED
  BY <1>1, <1>2, <1>3, <1>4, <1>5, <1>6, <1>7
     DEF Next, Work, ImportRows, Overflow, Deadlock, Crash, Finished

\* Before any upload there is no row.
LEMMA InitUnique == Init => UniqueInv
  BY InitType DEF Init, UniqueInv, Placed, LiveOnce, Live

\* However many uploads overlap, in whatever orders, with crashes and
\* deadlocks between them: an external_id is in the table once.
THEOREM IdsStoredOnce == Spec => []OneRowPerId
<1>1. UniqueInv /\ [Next]_vars => UniqueInv'
  BY TypeStep, PlacedStep, OnceStep DEF UniqueInv
<1>2. UniqueInv => OneRowPerId
  BY DEF UniqueInv, LiveOnce, Live, OneRowPerId, IdOfRow
<1> QED BY <1>1, <1>2, InitUnique, PTL DEF Spec

-----------------------------------------------------------------------------
(* No row is lost.                                                         *)

\* A row that has been passed is with its import, or its id is stored.
Kept(i, n) ==
    IF IdOf(i, n) = NONE THEN n \in pending[i]
                         ELSE IdOf(i, n) \in StoredIds \cup PendingIds(i)

PassedKept(i) ==
    /\ pc[i] = "new" => place[i] = 1
    /\ pc[i] \in {"rows", "flushed"} =>
         \A n \in 1 .. Len(file[i]) : n < place[i] => Kept(i, n)
    /\ pc[i] = "flushed" => place[i] > Len(file[i])

KeptOnCommit(i) ==
    pc[i] = "committed" =>
      \A n \in 1 .. Len(file[i]) :
        IF IdOf(i, n) = NONE THEN <<i, n>> \in stored
                             ELSE IdOf(i, n) \in StoredIds

LossInv == \A i \in Imports : PassedKept(i) /\ KeptOnCommit(i)

\* What a step of one import leaves alone.
OthersFixed(i) ==
    /\ \A j \in Imports \ {i} :
         /\ pc'[j] = pc[j] /\ file'[j] = file[j] /\ place'[j] = place[j]
         /\ pending'[j] = pending[j]
    /\ stored \subseteq stored'
    /\ pc[i] = "new" \/ file'[i] = file[i]

\* An id that is stored stays stored.
LEMMA StoredIdsGrow ==
  ASSUME TypeOK, Placed, NEW i \in Imports, OthersFixed(i)
  PROVE  StoredIds \subseteq StoredIds'
<1>1. ASSUME NEW x \in stored PROVE IdOf(x[1], x[2])' = IdOf(x[1], x[2])
  <2>1. x[1] \in Imports /\ pc[x[1]] = "committed"
    BY <1>1 DEF TypeOK, Placed
  <2>2. file'[x[1]] = file[x[1]]
    BY <2>1 DEF OthersFixed
  <2> QED BY <2>2 DEF IdOf
<1> QED BY <1>1 DEF OthersFixed, StoredIds

\* A step of one import loses none of the rows that another has passed.
LEMMA OthersKept ==
  ASSUME TypeOK, Placed, LossInv, NEW i \in Imports, OthersFixed(i),
         NEW j \in Imports \ {i}
  PROVE  PassedKept(j)' /\ KeptOnCommit(j)'
<1>1. StoredIds \subseteq StoredIds'
  BY StoredIdsGrow
<1>2. \A n : IdOf(j, n)' = IdOf(j, n)
  BY DEF OthersFixed, IdOf
<1>3. PendingIds(j)' = PendingIds(j)
  BY <1>2 DEF OthersFixed, PendingIds
<1>4. PassedKept(j) /\ KeptOnCommit(j)
  BY DEF LossInv
<1>5. PassedKept(j)'
  BY <1>1, <1>2, <1>3, <1>4 DEF OthersFixed, PassedKept, Kept
<1>6. KeptOnCommit(j)'
  BY <1>1, <1>2, <1>4 DEF OthersFixed, KeptOnCommit
<1> QED BY <1>5, <1>6

\* The row an import passes: it is put, or its id is stored or seen.
LEMMA PassRow ==
  ASSUME TypeOK, Placed, LossInv, NEW i \in Imports, AtRow(i), NextRow(i),
         UNCHANGED <<stored, pc, file>>,
         pending[i] \subseteq pending'[i],
         NEW k, k = place[i], Kept(i, k)'
  PROVE  PassedKept(i)' /\ KeptOnCommit(i)'
<1>1. place'[i] = place[i] + 1 /\ place[i] \in Nat
  BY DEF NextRow, TypeOK
<1>2. StoredIds' = StoredIds /\ \A n : IdOf(i, n)' = IdOf(i, n)
  BY DEF StoredIds, IdOf
<1>3. PendingIds(i) \subseteq PendingIds(i)'
  BY <1>2 DEF PendingIds
<1>4. ASSUME NEW n \in 1 .. Len(file[i]), n < place'[i] PROVE Kept(i, n)'
  <2>1. CASE n = k
    BY <2>1
  <2>2. CASE n # k
    <3>1. n < place[i]
      BY <1>1, <1>4, <2>2
    <3>2. Kept(i, n)
      BY <3>1 DEF LossInv, PassedKept, AtRow
    <3> QED BY <3>2, <1>2, <1>3 DEF Kept
  <2> QED BY <2>1, <2>2
<1> QED BY <1>4 DEF PassedKept, KeptOnCommit, AtRow

\* Every step keeps the rows that have been passed.
LEMMA LossStep == TypeOK /\ Placed /\ LossInv /\ [Next]_vars => LossInv'
<1> SUFFICES ASSUME TypeOK, Placed, LossInv, [Next]_vars PROVE LossInv'
  OBVIOUS
<1> DEFINE Own(i) == PassedKept(i)' /\ KeptOnCommit(i)'
<1>0. ASSUME NEW i \in Imports, OthersFixed(i), Own(i) PROVE LossInv'
  BY <1>0, OthersKept DEF LossInv
<1>1. ASSUME NEW i \in Imports, Submit(i) PROVE LossInv'
  <2>1. OthersFixed(i)
    BY <1>1 DEF Submit, OthersFixed, TypeOK
  <2>2. pc'[i] = "rows" /\ place'[i] = 1
    BY <1>1 DEF Submit, LossInv, PassedKept, TypeOK
  <2>3. Own(i)
    BY <2>2 DEF PassedKept, KeptOnCommit
  <2> QED BY <1>0, <2>1, <2>3
<1>2. ASSUME NEW i \in Imports, TurnAway(i) \/ Close(i) PROVE LossInv'
  <2>1. OthersFixed(i)
    BY <1>2 DEF TurnAway, Close, OthersFixed, TypeOK
  <2>2. pc'[i] = "refused"
    BY <1>2 DEF TurnAway, Close, TypeOK
  <2> QED BY <1>0, <2>1, <2>2 DEF PassedKept, KeptOnCommit
<1>3. ASSUME NEW i \in Imports, SkipSeen(i) PROVE LossInv'
  <2>1. OthersFixed(i)
    BY <1>3 DEF SkipSeen, NextRow, OthersFixed, TypeOK
  <2>2. PICK k : k = place[i]
    OBVIOUS
  <2>3. PICK m \in 1 .. place[i] - 1 : IdOf(i, m) = IdOf(i, k) /\ IdOf(i, k) # NONE
    BY <1>3, <2>2 DEF SkipSeen, SeenInFile, Row, IdOf
  <2>4. m \in 1 .. Len(file[i]) /\ m < place[i]
    BY <1>3, <2>3 DEF SkipSeen, AtRow, TypeOK
  <2>5. Kept(i, m)
    BY <1>3, <2>4 DEF SkipSeen, AtRow, LossInv, PassedKept
  <2>6. Kept(i, k)'
    BY <1>3, <2>3, <2>5 DEF SkipSeen, Kept, IdOf, StoredIds, PendingIds
  <2> QED BY <1>0, <1>3, <2>1, <2>2, <2>6, PassRow DEF SkipSeen
<1>4. ASSUME NEW i \in Imports, Insert(i) \/ AddWithoutId(i) PROVE LossInv'
  <2>1. /\ AtRow(i) /\ NextRow(i) /\ UNCHANGED <<stored, pc, file>>
        /\ pending' = pending \/ Put(i)
    BY <1>4 DEF Insert, AddWithoutId, ToInsert
  <2>2. OthersFixed(i) /\ pending[i] \subseteq pending'[i]
    BY <2>1, PutPlaces DEF NextRow, OthersFixed, TypeOK
  <2>3. PICK k : k = place[i]
    OBVIOUS
  <2>4. Kept(i, k)'
    <3>1. IdOf(i, k)' = Row(i).id /\ IdOf(i, k) = Row(i).id
      BY <2>1, <2>3 DEF IdOf, Row
    <3>2. CASE Put(i)
      <4>1. k \in pending'[i]
        BY <2>3, <3>2, PutPlaces
      <4> QED BY <4>1 DEF Kept, PendingIds
    <3>3. CASE ~Put(i)
      <4>1. Row(i).id \in StoredIds
        BY <1>4, <3>3 DEF Insert, AddWithoutId
      <4>2. StoredIds' = StoredIds /\ NONE \notin StoredIds
        BY <2>1 DEF StoredIds, IdOf
      <4> QED BY <3>1, <4>1, <4>2 DEF Kept
    <3> QED BY <3>2, <3>3
  <2> QED BY <1>0, <2>1, <2>2, <2>3, <2>4, PassRow
<1>5. ASSUME NEW i \in Imports, Flush(i) PROVE LossInv'
  <2>1. OthersFixed(i)
    BY <1>5 DEF Flush, OthersFixed, TypeOK
  <2>2. pc[i] = "rows" /\ pc'[i] = "flushed" /\ place[i] > Len(file[i])
    BY <1>5 DEF Flush, TypeOK
  <2>3. \A n : Kept(i, n)' <=> Kept(i, n)
    BY <1>5 DEF Flush, Kept, IdOf, StoredIds, PendingIds
  <2>4. PassedKept(i)
    BY DEF LossInv
  <2>5. PassedKept(i)'
    BY <1>5, <2>2, <2>3, <2>4 DEF Flush, PassedKept
  <2> QED BY <1>0, <2>1, <2>2, <2>5 DEF KeptOnCommit
<1>6. ASSUME NEW i \in Imports, Commit(i) PROVE LossInv'
  <2>1. OthersFixed(i)
    BY <1>6 DEF Commit, OthersFixed, TypeOK
  <2>2. pc[i] = "flushed" /\ pc'[i] = "committed" /\ file' = file
    BY <1>6 DEF Commit, TypeOK
  <2>3. stored' = stored \cup {<<i, n>> : n \in pending[i]}
    BY <1>6 DEF Commit
  <2>4. \A n : IdOf(i, n)' = IdOf(i, n)
    BY <2>2 DEF IdOf
  <2>5. StoredIds \subseteq StoredIds'
    BY <2>1, StoredIdsGrow
  <2>6. PendingIds(i) \subseteq StoredIds'
    <3>1. ASSUME NEW n \in pending[i], IdOf(i, n) # NONE
          PROVE  IdOf(i, n) \in StoredIds'
      <4>1. <<i, n>> \in stored'
        BY <2>3, <3>1
      <4> QED BY <2>4, <3>1, <4>1 DEF StoredIds
    <3> QED BY <3>1 DEF PendingIds
  <2>7. ASSUME NEW n \in 1 .. Len(file[i]) PROVE Kept(i, n)
    <3>1. n < place[i]
      BY <2>2, <2>7 DEF LossInv, PassedKept, TypeOK
    <3> QED BY <2>2, <3>1 DEF LossInv, PassedKept
  <2>8. KeptOnCommit(i)'
    BY <2>2, <2>3, <2>4, <2>5, <2>6, <2>7 DEF KeptOnCommit, Kept
  <2> QED BY <1>0, <2>1, <2>2, <2>8 DEF PassedKept
<1>7. CASE UNCHANGED vars
  BY <1>7 DEF vars, LossInv, PassedKept, KeptOnCommit, Kept, IdOf, StoredIds,
              PendingIds
<1> QED
  BY <1>1, <1>2, <1>3, <1>4, <1>5, <1>6, <1>7
     DEF Next, Work, ImportRows, Overflow, Deadlock, Crash, Finished

\* A row is skipped only for one that stays: no committed import has lost a
\* row to another that was rolled back.
THEOREM ImportsLoseNothing == Spec => []NothingLost
<1>1. Init => LossInv
  BY DEF Init, LossInv, PassedKept, KeptOnCommit
<1>2. UniqueInv /\ LossInv /\ [Next]_vars => UniqueInv' /\ LossInv'
  BY TypeStep, PlacedStep, OnceStep, LossStep DEF UniqueInv
<1>3. LossInv => NothingLost
  BY DEF LossInv, KeptOnCommit, NothingLost
<1> QED BY <1>1, <1>2, <1>3, InitUnique, PTL DEF Spec

-----------------------------------------------------------------------------
(* The report is what happened.                                            *)

StoredBy(i) == {x \in stored : x[1] = i}

\* Until it commits, an import has stored nothing; every row it has passed it
\* has counted, and as inserted those that it holds.
ReportKept(i) ==
    /\ pc[i] \in {"rows", "flushed"} =>
         /\ report[i].received = Len(file[i]) + report[i].errors
         /\ report[i].inserted + report[i].skipped = place[i] - 1
         /\ place[i] <= Len(file[i]) + 1
         /\ IsFiniteSet(pending[i])
         /\ report[i].inserted = Cardinality(pending[i])
    /\ pc[i] = "committed" =>
         /\ report[i].received =
              report[i].inserted + report[i].skipped + report[i].errors
         /\ report[i].inserted = Cardinality(StoredBy(i))

ReportInv == \A i \in Imports : ReportKept(i)

\* A step of one import leaves the others' reports and rows alone.
OthersReport(i) ==
    \A j \in Imports \ {i} :
      /\ pc'[j] = pc[j] /\ file'[j] = file[j] /\ place'[j] = place[j]
      /\ pending'[j] = pending[j] /\ report'[j] = report[j]
      /\ StoredBy(j)' = StoredBy(j)

\* Each row is counted once, under one heading.
LEMMA CountChanges ==
  ASSUME TypeOK, NEW i \in Imports
  PROVE  /\ Count(i, "inserted") =>
              /\ report'[i].inserted = report[i].inserted + 1
              /\ report'[i].skipped = report[i].skipped
              /\ report'[i].received = report[i].received
              /\ report'[i].errors = report[i].errors
         /\ Count(i, "skipped") =>
              /\ report'[i].skipped = report[i].skipped + 1
              /\ report'[i].inserted = report[i].inserted
              /\ report'[i].received = report[i].received
              /\ report'[i].errors = report[i].errors
         /\ Count(i, "inserted") \/ Count(i, "skipped") =>
              \A j \in Imports \ {i} : report'[j] = report[j]
<1>0. report[i] \in Reports /\ report \in [Imports -> Reports]
  BY DEF TypeOK, Reports
<1>1. ASSUME Count(i, "inserted")
      PROVE  report' = [report EXCEPT ![i] = [report[i] EXCEPT !.inserted = @ + 1]]
  BY <1>0, <1>1 DEF Count
<1>2. ASSUME Count(i, "skipped")
      PROVE  report' = [report EXCEPT ![i] = [report[i] EXCEPT !.skipped = @ + 1]]
  BY <1>0, <1>2 DEF Count
<1> QED BY <1>0, <1>1, <1>2 DEF Reports

\* An import passes a row: it counts it, and holds it if it counts it inserted.
LEMMA ReportRow ==
  ASSUME TypeOK, Placed, ReportInv, NEW i \in Imports, AtRow(i), NextRow(i),
         UNCHANGED <<stored, pc, file>>,
         \/ Count(i, "inserted") /\ Put(i)
         \/ Count(i, "skipped") /\ UNCHANGED pending
  PROVE  ReportInv'
<1>1. /\ place'[i] = place[i] + 1 /\ \A j \in Imports \ {i} : place'[j] = place[j]
      /\ place[i] \in Nat \ {0} /\ pc[i] = "rows" /\ place[i] <= Len(file[i])
      /\ Len(file[i]) \in Nat /\ report[i] \in Reports
  BY DEF NextRow, TypeOK, AtRow, Reports
<1>2. ReportKept(i) /\ \A n \in pending[i] : n < place[i]
  BY DEF ReportInv, Placed
<1>3. /\ IsFiniteSet(pending[i]) /\ place[i] \notin pending[i]
      /\ Cardinality(pending[i]) \in Nat
  BY <1>1, <1>2, FS_CardinalityType DEF ReportKept
<1>4. \A j \in Imports : StoredBy(j)' = StoredBy(j)
  BY DEF StoredBy
<1>5. ASSUME NEW j \in Imports \ {i} PROVE ReportKept(j)'
  <2>1. ReportKept(j) /\ report'[j] = report[j] /\ pending'[j] = pending[j]
    BY CountChanges, PutPlaces DEF ReportInv
  <2> QED BY <1>1, <1>4, <2>1 DEF ReportKept
<1>6. /\ report[i].received = Len(file[i]) + report[i].errors
      /\ report[i].inserted + report[i].skipped = place[i] - 1
      /\ report[i].inserted = Cardinality(pending[i])
      /\ report[i].inserted \in Nat /\ report[i].skipped \in Nat
  BY <1>1, <1>2 DEF ReportKept, Reports
<1>7. /\ report'[i].received = Len(file'[i]) + report'[i].errors
      /\ report'[i].inserted + report'[i].skipped = place'[i] - 1
      /\ place'[i] <= Len(file'[i]) + 1
  <2>1. /\ report'[i].received = report[i].received
        /\ report'[i].errors = report[i].errors
        /\ \/ /\ report'[i].inserted = report[i].inserted + 1
              /\ report'[i].skipped = report[i].skipped
           \/ /\ report'[i].inserted = report[i].inserted
              /\ report'[i].skipped = report[i].skipped + 1
    BY CountChanges
  <2>2. place'[i] <= Len(file'[i]) + 1
    BY <1>1
  <2>3. report'[i].inserted + report'[i].skipped = place'[i] - 1
    <3>1. \A m, n, k \in Nat : m + n = k - 1 => (m + 1) + n = (k + 1) - 1
                                            /\ m + (n + 1) = (k + 1) - 1
      OBVIOUS
    <3>2. place[i] \in Nat /\ place'[i] = place[i] + 1
      BY <1>1
    <3>3. CASE /\ report'[i].inserted = report[i].inserted + 1
               /\ report'[i].skipped = report[i].skipped
      BY <1>6, <3>1, <3>2, <3>3
    <3>4. CASE /\ report'[i].inserted = report[i].inserted
               /\ report'[i].skipped = report[i].skipped + 1
      BY <1>6, <3>1, <3>2, <3>4
    <3> QED BY <2>1, <3>3, <3>4
  <2> QED BY <1>6, <2>1, <2>2, <2>3
<1>8. IsFiniteSet(pending'[i]) /\ report'[i].inserted = Cardinality(pending'[i])
  <2>1. CASE Count(i, "inserted") /\ Put(i)
    <3>1. pending'[i] = pending[i] \cup {place[i]}
      BY <2>1, PutPlaces
    <3>2. /\ IsFiniteSet(pending'[i])
          /\ Cardinality(pending'[i]) = Cardinality(pending[i]) + 1
      BY <1>3, <3>1, FS_AddElement
    <3> QED BY <1>6, <2>1, <3>2, CountChanges
  <2>2. CASE Count(i, "skipped") /\ UNCHANGED pending
    BY <1>3, <1>6, <2>2, CountChanges
  <2> QED BY <2>1, <2>2
<1>9. ReportKept(i)'
  <2>1. pc'[i] = "rows"
    BY <1>1
  <2> QED BY <1>7, <1>8, <2>1 DEF ReportKept
<1> QED BY <1>5, <1>9 DEF ReportInv

\* As many rows are committed as the import holds.
LEMMA StoredOnCommit ==
  ASSUME TypeOK, Placed, NEW i \in Imports, Commit(i), IsFiniteSet(pending[i])
  PROVE  /\ Cardinality(StoredBy(i)') = Cardinality(pending[i])
         /\ \A j \in Imports \ {i} : StoredBy(j)' = StoredBy(j)
<1> DEFINE Held == {<<i, n>> : n \in pending[i]}
           row == [n \in pending[i] |-> <<i, n>>]
<1>1. stored' = stored \cup Held /\ pc[i] = "flushed"
  BY DEF Commit
<1>2. \A x \in Held : x[1] = i
  OBVIOUS
<1>3. \A x \in stored : x[1] # i
  BY <1>1 DEF Placed
<1>4. StoredBy(i)' = Held
  <2> HIDE DEF Held
  <2> QED BY <1>1, <1>2, <1>3 DEF StoredBy
<1>5. \A j \in Imports \ {i} : StoredBy(j)' = StoredBy(j)
  <2> HIDE DEF Held
  <2> QED BY <1>1, <1>2 DEF StoredBy
<1>6. row \in Bijection(pending[i], Held)
  BY DEF Bijection, Injection, Surjection, IsInjective
<1>7. Cardinality(Held) = Cardinality(pending[i])
  <2> HIDE DEF Held, row
  <2> QED BY <1>6, FS_Bijection DEF ExistsBijection
<1> QED BY <1>4, <1>5, <1>7

\* Every step keeps the reports true.
LEMMA ReportStep ==
  TypeOK /\ Placed /\ LossInv /\ ReportInv /\ [Next]_vars => ReportInv'
<1> SUFFICES ASSUME TypeOK, Placed, LossInv, ReportInv, [Next]_vars
             PROVE  ReportInv'
  OBVIOUS
<1>0. ASSUME NEW i \in Imports, OthersReport(i), ReportKept(i)' PROVE ReportInv'
  BY <1>0 DEF OthersReport, ReportInv, ReportKept
<1>1. ASSUME NEW i \in Imports, Submit(i) PROVE ReportInv'
  <2>1. PICK f \in Files, refused \in Refused :
          /\ file' = [file EXCEPT ![i] = f]
          /\ report' = [report EXCEPT ![i] = Report(f, refused)]
    BY <1>1 DEF Submit
  <2>2. f \in Seq(Rows) /\ refused \in Nat /\ Len(f) \in Nat
    BY BankImportAssumption
  <2>3. OthersReport(i)
    BY <1>1, <2>1 DEF Submit, OthersReport, TypeOK, StoredBy
  <2>4. /\ pc'[i] = "rows" /\ place'[i] = 1 /\ pending'[i] = {}
        /\ file'[i] = f /\ report'[i] = Report(f, refused)
    BY <1>1, <2>1 DEF Submit, LossInv, PassedKept, Placed, TypeOK
  <2>5. ReportKept(i)'
    BY <2>2, <2>4, FS_EmptySet DEF ReportKept, Report
  <2> QED BY <1>0, <2>3, <2>5
<1>2. ASSUME NEW i \in Imports, TurnAway(i) \/ Close(i) PROVE ReportInv'
  <2>1. OthersReport(i)
    BY <1>2 DEF TurnAway, Close, OthersReport, TypeOK, StoredBy
  <2>2. pc'[i] = "refused"
    BY <1>2 DEF TurnAway, Close, TypeOK
  <2> QED BY <1>0, <2>1, <2>2 DEF ReportKept
<1>3. ASSUME NEW i \in Imports, SkipSeen(i) PROVE ReportInv'
  BY <1>3, ReportRow DEF SkipSeen
<1>4. ASSUME NEW i \in Imports, Insert(i) \/ AddWithoutId(i) PROVE ReportInv'
  BY <1>4, ReportRow DEF Insert, AddWithoutId, ToInsert
<1>5. ASSUME NEW i \in Imports, Flush(i) PROVE ReportInv'
  <2>1. OthersReport(i)
    BY <1>5 DEF Flush, OthersReport, TypeOK, StoredBy
  <2>2. pc[i] = "rows" /\ pc'[i] = "flushed" /\ ReportKept(i)
    BY <1>5 DEF Flush, TypeOK, ReportInv
  <2>3. ReportKept(i)'
    BY <1>5, <2>2 DEF Flush, ReportKept
  <2> QED BY <1>0, <2>1, <2>3
<1>6. ASSUME NEW i \in Imports, Commit(i) PROVE ReportInv'
  <2>1. /\ pc[i] = "flushed" /\ pc'[i] = "committed" /\ report' = report
        /\ ReportKept(i) /\ place[i] > Len(file[i])
    BY <1>6 DEF Commit, TypeOK, ReportInv, LossInv, PassedKept
  <2>2. IsFiniteSet(pending[i])
    BY <2>1 DEF ReportKept
  <2>3. OthersReport(i)
    BY <1>6, <2>2, StoredOnCommit DEF Commit, OthersReport, TypeOK
  <2>4. report[i] \in Reports /\ Len(file[i]) \in Nat /\ place[i] \in Nat
    BY DEF TypeOK, Reports
  <2>5. file' = file /\ Cardinality(StoredBy(i)') = Cardinality(pending[i])
    BY <1>6, <2>2, StoredOnCommit DEF Commit
  <2>6. /\ report[i].received = Len(file[i]) + report[i].errors
        /\ report[i].inserted + report[i].skipped = place[i] - 1
        /\ place[i] <= Len(file[i]) + 1 /\ place[i] > Len(file[i])
        /\ report[i].inserted = Cardinality(pending[i])
    BY <2>1 DEF ReportKept
  <2>7. report[i].received =
          report[i].inserted + report[i].skipped + report[i].errors
    BY <2>4, <2>6 DEF Reports
  <2>8. ReportKept(i)'
    BY <2>1, <2>5, <2>6, <2>7 DEF ReportKept
  <2> QED BY <1>0, <2>3, <2>8
<1>7. CASE UNCHANGED vars
  BY <1>7 DEF vars, ReportInv, ReportKept, StoredBy
<1> QED
  BY <1>1, <1>2, <1>3, <1>4, <1>5, <1>6, <1>7
     DEF Next, Work, ImportRows, Overflow, Deadlock, Crash, Finished

\* However imports interleave, wait, deadlock and die, what a committed import
\* reports is what it was given and what it put into the table.
THEOREM ReportsAreTrue == Spec => []ReportIsTrue
<1>1. Init => LossInv /\ ReportInv
  BY DEF Init, LossInv, PassedKept, KeptOnCommit, ReportInv, ReportKept
<1>2. UniqueInv /\ LossInv /\ ReportInv /\ [Next]_vars
        => UniqueInv' /\ LossInv' /\ ReportInv'
  BY TypeStep, PlacedStep, OnceStep, LossStep, ReportStep DEF UniqueInv
<1>3. ReportInv => ReportIsTrue
  BY DEF ReportInv, ReportKept, ReportIsTrue, StoredBy
<1> QED BY <1>1, <1>2, <1>3, InitUnique, PTL DEF Spec
=============================================================================
