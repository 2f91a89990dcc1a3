------------------------ MODULE ReconciliationProofs ------------------------
(***************************************************************************)
(* Proofs about Reconciliation for any number of expenses, bank lines and  *)
(* requests.  IInv is inductive: it adds to the checked invariants who     *)
(* holds which lock at which place, and what a request has established by  *)
(* the time it writes.                                                     *)
(***************************************************************************)
EXTENDS Reconciliation, TLAPS

\* Which requests hold which locks.
LockOwner ==
    /\ \A e \in Expenses, r \in Requests : expenseLock[e] = r =>
         target[r] = e /\ pc[r] \in {"lockLine", "decide", "linked", "parked"}
    /\ \A l \in Lines, r \in Requests : lineLock[l] = r =>
         line[r] = l /\ pc[r] \in {"decide", "linked"}
    /\ \A r \in Requests : pc[r] \in {"lockLine", "decide", "linked"} =>
         expenseLock[target[r]] = r
    /\ \A r \in Requests : pc[r] \in {"decide", "linked"} =>
         lineLock[line[r]] = r
    /\ \A r \in Requests : pc[r] = "parked" /\ ParkWrites(r) =>
         expenseLock[target[r]] = r

\* A request names its expense, and its bank line once it is to lock it.
OwnRows ==
    \A r \in Requests :
      /\ pc[r] # "new" => target[r] \in Expenses
      /\ pc[r] \in {"lockExpense", "lockLine", "decide", "linked"} =>
           line[r] \in Lines

\* A row that was locked or loaded exists, and rows do not go away.
RowsExist ==
    \A r \in Requests :
      pc[r] \in {"lockLine", "decide", "linked"} =>
        expenseStatus[target[r]] # "absent"

\* A confirm's copies are the committed values, from the lock to the commit.
FreshCopies ==
    \A r \in Confirms :
      /\ pc[r] \in {"lockLine", "decide", "linked"} =>
           seenStatus[r] = expenseStatus[target[r]]
      /\ pc[r] \in {"decide", "linked"} =>
           seenMatch[r] = matchedExpense[line[r]]

\* A request that is about to commit its link has passed the checks, and its
\* expense is still on no other line.
Checked ==
    \A r \in Requests : pc[r] = "linked" =>
      ~ CheckedConflict(r) /\ ~ LinkedElsewhere(r)

IInv ==
    /\ TypeOK
    /\ LockOwner
    /\ OwnRows
    /\ RowsExist
    /\ FreshCopies
    /\ Checked
    /\ RowsAgree
    /\ OneLinePerExpense

USE DEF Requests

-----------------------------------------------------------------------------
\* Before any expense is recorded or line imported.
LEMMA InitTypeOK == Init => TypeOK /\ OwnRows
  BY ReconciliationAssumption
     DEF Init, TypeOK, OwnRows, MatchStatus, Places, Answers

\* The tables and the sessions keep their shape in every step.
LEMMA TypeStep == TypeOK /\ OwnRows /\ [Next]_vars => TypeOK'
<1> SUFFICES ASSUME TypeOK, OwnRows, [Next]_vars PROVE TypeOK'
  OBVIOUS
<1> USE ReconciliationAssumption
    DEF TypeOK, MatchStatus, Places, Answers, tables, locks, session, GoTo
<1>1. ASSUME NEW e \in Expenses, CreateExpense(e) PROVE TypeOK'
  BY <1>1 DEF CreateExpense
<1>2. ASSUME NEW l \in Lines, ImportLine(l) PROVE TypeOK'
  BY <1>2 DEF ImportLine
<1>3. ASSUME NEW r \in Requests, SubmitConfirm(r) PROVE TypeOK'
  BY <1>3 DEF SubmitConfirm
<1>4. ASSUME NEW r \in Requests, SubmitAuto(r) PROVE TypeOK'
  BY <1>4 DEF SubmitAuto
<1>5. ASSUME NEW r \in Requests, NEW code \in Answers, Refuse(r, code)
      PROVE TypeOK'
  BY <1>5 DEF Refuse, FreeLocks
<1>6. ASSUME NEW r \in Requests, Load(r) PROVE TypeOK'
  BY <1>6, <1>5 DEF Load, OwnRows
<1>7. ASSUME NEW r \in Requests, Pick(r) PROVE TypeOK'
  BY <1>7 DEF Pick, Candidates
<1>8. ASSUME NEW r \in Requests, LockExpense(r) PROVE TypeOK'
  BY <1>8, <1>5 DEF LockExpense, OwnRows
<1>9. ASSUME NEW r \in Requests, LockLine(r) PROVE TypeOK'
  BY <1>9, <1>5 DEF LockLine, OwnRows
<1>10. ASSUME NEW r \in Requests, Decide(r) PROVE TypeOK'
  BY <1>10, <1>5 DEF Decide
<1>11. ASSUME NEW r \in Requests, Park(r) PROVE TypeOK'
  BY <1>11 DEF Park
<1>12. ASSUME NEW r \in Requests, Reply(r) PROVE TypeOK'
  BY <1>12 DEF Reply, Body
<1>13. ASSUME NEW r \in Requests, Commit(r) PROVE TypeOK'
  <2>1. answer' \in [Requests -> Answers]
    BY <1>13 DEF Commit, Body
  <2>2. /\ expenseLock' \in [Expenses -> Requests \cup {NONE}]
        /\ lineLock' \in [Lines -> Requests \cup {NONE}]
    BY <1>13 DEF Commit, FreeLocks
  <2>3. CASE pc[r] = "linked" /\ WriteLink(r)
    BY <1>13, <2>1, <2>2, <2>3 DEF Commit, WriteLink
  <2>4. CASE pc[r] = "parked" /\ WritePark(r)
    BY <1>13, <2>1, <2>2, <2>4 DEF Commit, WritePark
  <2> QED BY <1>13, <2>3, <2>4 DEF Commit
<1>14. ASSUME NEW r \in Requests, Crash(r) PROVE TypeOK'
  BY <1>14 DEF Crash, FreeLocks
<1>15. CASE UNCHANGED vars
  BY <1>15 DEF vars
<1> QED
  BY <1>1, <1>2, <1>3, <1>4, <1>6, <1>7, <1>8, <1>9, <1>10, <1>11, <1>12,
     <1>13, <1>14, <1>15 DEF Next, Handle, Finished

\* A request keeps the expense it named, and gets a line before it locks one.
LEMMA OwnRowsStep == TypeOK /\ OwnRows /\ [Next]_vars => OwnRows'
<1> SUFFICES ASSUME TypeOK, OwnRows, [Next]_vars PROVE OwnRows'
  OBVIOUS
<1> USE DEF TypeOK, OwnRows, tables, locks, session, GoTo
<1>1. ASSUME NEW r \in Requests,
             SubmitConfirm(r) \/ SubmitAuto(r) \/ Pick(r) PROVE OwnRows'
  BY <1>1 DEF SubmitConfirm, SubmitAuto, Pick, Candidates
<1>2. ASSUME NEW r \in Requests, NEW code, Refuse(r, code), pc[r] # "new"
      PROVE OwnRows'
  BY <1>2 DEF Refuse
<1>3. ASSUME NEW r \in Requests, Load(r) \/ LockExpense(r) PROVE OwnRows'
  BY <1>3, <1>2 DEF Load, LockExpense
<1>4. ASSUME NEW r \in Requests, LockLine(r) \/ Decide(r) PROVE OwnRows'
  BY <1>4, <1>2 DEF LockLine, Decide
<1>5. ASSUME NEW r \in Requests, Park(r) \/ Reply(r) \/ Crash(r)
      PROVE OwnRows'
  BY <1>5 DEF Park, Reply, Crash
<1>6. ASSUME NEW r \in Requests, Commit(r) PROVE OwnRows'
  BY <1>6 DEF Commit
<1>7. CASE \/ \E e \in Expenses : CreateExpense(e)
           \/ \E l \in Lines : ImportLine(l)
           \/ UNCHANGED vars
  BY <1>7 DEF CreateExpense, ImportLine, vars
<1> QED
  BY <1>1, <1>3, <1>4, <1>5, <1>6, <1>7 DEF Next, Handle, Finished

\* The tables, the locks and the sessions always have the declared types.
THEOREM TypeCorrect == Spec => []TypeOK
<1> QED BY InitTypeOK, TypeStep, OwnRowsStep, PTL DEF Spec

-----------------------------------------------------------------------------
(* The inductive invariant.  An aborted request (Refuse or Crash) gives its *)
(* locks back and writes nothing.                                          *)

Abort(r) ==
    /\ pc[r] # "new"
    /\ FreeLocks(r)
    /\ GoTo(r, "closed")
    /\ UNCHANGED <<tables, session, committed>>

\* The steps that neither write a table nor move a lock.
Quiet(r) ==
    \/ SubmitConfirm(r) \/ SubmitAuto(r)
    \/ Load(r) /\ expenseStatus[target[r]] # "absent"
    \/ Pick(r)
    \/ Decide(r) /\ ~ CheckedConflict(r) /\ ~ LinkedElsewhere(r)
    \/ Reply(r)

\* Every step is one of eight kinds.
LEMMA StepKinds ==
  ASSUME [Next]_vars
  PROVE  \/ \E e \in Expenses : CreateExpense(e)
         \/ \E l \in Lines : ImportLine(l)
         \/ \E r \in Requests : Quiet(r)
         \/ \E r \in Requests : Abort(r)
         \/ \E r \in Requests :
               LockExpense(r) /\ expenseStatus[target[r]] # "absent"
         \/ \E r \in Requests :
               LockLine(r) /\ lineStatus[line[r]] # "absent"
         \/ \E r \in Requests : Park(r)
         \/ \E r \in Requests : Commit(r)
         \/ UNCHANGED vars
<1>1. ASSUME NEW r \in Requests, NEW code, Refuse(r, code), pc[r] # "new"
      PROVE  Abort(r)
  BY <1>1 DEF Refuse, Abort
<1>2. ASSUME NEW r \in Requests, Crash(r) PROVE Abort(r)
  BY <1>2 DEF Crash, Abort
<1>3. ASSUME NEW r \in Requests, Load(r)  PROVE Quiet(r) \/ Abort(r)
  BY <1>1, <1>3 DEF Load, Quiet
<1>4. ASSUME NEW r \in Requests, Decide(r) PROVE Quiet(r) \/ Abort(r)
  BY <1>1, <1>4 DEF Decide, Quiet
<1>5. ASSUME NEW r \in Requests, LockExpense(r)
      PROVE  Abort(r) \/ expenseStatus[target[r]] # "absent"
  BY <1>1, <1>5 DEF LockExpense
<1>6. ASSUME NEW r \in Requests, LockLine(r)
      PROVE  Abort(r) \/ lineStatus[line[r]] # "absent"
  BY <1>1, <1>6 DEF LockLine
<1> QED
  BY <1>2, <1>3, <1>4, <1>5, <1>6 DEF Next, Handle, Finished, Quiet

\* A lock is held by the request whose place says so, and by no other.
LEMMA LockOwnerStep ==
  TypeOK /\ OwnRows /\ LockOwner /\ [Next]_vars => LockOwner'
<1> SUFFICES ASSUME TypeOK, OwnRows, LockOwner, [Next]_vars PROVE LockOwner'
  OBVIOUS
<1> USE ReconciliationAssumption
    DEF TypeOK, OwnRows, LockOwner, ParkWrites, tables, locks, session, GoTo
<1>1. ASSUME NEW e \in Expenses, CreateExpense(e) PROVE LockOwner'
  BY <1>1 DEF CreateExpense
<1>2. ASSUME NEW l \in Lines, ImportLine(l) PROVE LockOwner'
  BY <1>2 DEF ImportLine
<1>3. ASSUME NEW r \in Requests, Quiet(r) PROVE LockOwner'
  BY <1>3 DEF Quiet, SubmitConfirm, SubmitAuto, Load, Pick, Decide, Reply
<1>4. ASSUME NEW r \in Requests, Abort(r) PROVE LockOwner'
  BY <1>4 DEF Abort, FreeLocks
<1>5. ASSUME NEW r \in Requests, LockExpense(r),
             expenseStatus[target[r]] # "absent" PROVE LockOwner'
  BY <1>5 DEF LockExpense
<1>6. ASSUME NEW r \in Requests, LockLine(r),
             lineStatus[line[r]] # "absent" PROVE LockOwner'
  BY <1>6 DEF LockLine
<1>7. ASSUME NEW r \in Requests, Park(r) PROVE LockOwner'
  BY <1>7 DEF Park
<1>8. ASSUME NEW r \in Requests, Commit(r) PROVE LockOwner'
  BY <1>8 DEF Commit, FreeLocks
<1>9. CASE UNCHANGED vars
  BY <1>9 DEF vars
<1> QED
  BY StepKinds, <1>1, <1>2, <1>3, <1>4, <1>5, <1>6, <1>7, <1>8, <1>9

\* No request changes a row that another one has locked.
LEMMA WritesUnderLock ==
  ASSUME TypeOK, OwnRows, LockOwner, NEW r \in Requests, Commit(r),
         NEW q \in Requests \ {r}
  PROVE  /\ pc[q] \in {"lockLine", "decide", "linked"} =>
              /\ expenseStatus'[target[q]] = expenseStatus[target[q]]
              /\ pc[r] = "linked" => target[r] # target[q]
         /\ pc[q] \in {"decide", "linked"} =>
              matchedExpense'[line[q]] = matchedExpense[line[q]]
<1> USE DEF TypeOK, OwnRows, LockOwner
<1>1. CASE pc[r] = "linked" /\ WriteLink(r)
  BY <1>1 DEF WriteLink
<1>2. CASE pc[r] = "parked" /\ WritePark(r)
  BY <1>2 DEF WritePark
<1> QED BY <1>1, <1>2 DEF Commit

\* What the requests know of their rows survives every step.
LEMMA CopiesStep ==
  TypeOK /\ OwnRows /\ LockOwner /\ RowsExist /\ FreshCopies /\ Checked
    /\ [Next]_vars => RowsExist' /\ FreshCopies' /\ Checked'
<1> DEFINE Known == RowsExist /\ FreshCopies /\ Checked
<1> SUFFICES ASSUME TypeOK, OwnRows, LockOwner, Known, [Next]_vars
             PROVE  Known'
  OBVIOUS
<1> USE ReconciliationAssumption
    DEF TypeOK, OwnRows, RowsExist, FreshCopies, Checked, CheckedConflict,
        LinkedElsewhere, tables, locks, session, GoTo
<1>1. ASSUME NEW e \in Expenses, CreateExpense(e) PROVE Known'
  BY <1>1 DEF CreateExpense
<1>2. ASSUME NEW l \in Lines, ImportLine(l) PROVE Known'
  BY <1>2 DEF ImportLine
<1>3. ASSUME NEW r \in Requests, Quiet(r) PROVE Known'
  BY <1>3 DEF Quiet, SubmitConfirm, SubmitAuto, Load, Pick, Decide, Reply
<1>4. ASSUME NEW r \in Requests, Abort(r) PROVE Known'
  BY <1>4 DEF Abort
<1>5. ASSUME NEW r \in Requests, LockExpense(r),
             expenseStatus[target[r]] # "absent" PROVE Known'
  BY <1>5 DEF LockExpense
<1>6. ASSUME NEW r \in Requests, LockLine(r),
             lineStatus[line[r]] # "absent" PROVE Known'
  BY <1>6 DEF LockLine
<1>7. ASSUME NEW r \in Requests, Park(r) PROVE Known'
  BY <1>7 DEF Park
<1>8. ASSUME NEW r \in Requests, Commit(r) PROVE Known'
  <2>1. pc' = [pc EXCEPT ![r] = "closed"] /\ UNCHANGED session
    BY <1>8 DEF Commit
  <2>2. ASSUME NEW q \in Requests \ {r}
        PROVE  pc'[q] = "linked" =>
                 \A k \in Lines \ {line[q]} : matchedExpense'[k] # target[q]
    <3>1. pc'[q] = "linked" => pc[q] = "linked"
      BY <2>1
    <3>2. CASE pc[r] = "linked" /\ WriteLink(r)
      BY <1>8, <3>1, <3>2, WritesUnderLock DEF WriteLink
    <3>3. CASE pc[r] = "parked" /\ WritePark(r)
      BY <3>1, <3>3 DEF WritePark
    <3> QED BY <1>8, <3>2, <3>3 DEF Commit
  <2> QED BY <1>8, <2>1, <2>2, WritesUnderLock
<1>9. CASE UNCHANGED vars
  BY <1>9 DEF vars
<1> QED
  BY StepKinds, <1>1, <1>2, <1>3, <1>4, <1>5, <1>6, <1>7, <1>8, <1>9

\* Only a commit writes matched_expense_id and bank match_status, apart from
\* the INSERT of a line; only CreateExpense, Park and Commit touch expenses.
LEMMA LinksStep ==
  TypeOK /\ OwnRows /\ Checked /\ RowsAgree /\ OneLinePerExpense
    /\ [Next]_vars => RowsAgree' /\ OneLinePerExpense'
<1> DEFINE Links == RowsAgree /\ OneLinePerExpense
<1> SUFFICES ASSUME TypeOK, OwnRows, Checked, Links, [Next]_vars
             PROVE  Links'
  OBVIOUS
<1> USE ReconciliationAssumption
    DEF TypeOK, OwnRows, Checked, RowsAgree, OneLinePerExpense, tables
<1>1. ASSUME NEW e \in Expenses, CreateExpense(e) PROVE Links'
  BY <1>1 DEF CreateExpense
<1>2. ASSUME NEW l \in Lines, ImportLine(l) PROVE Links'
  BY <1>2 DEF ImportLine
<1>3. ASSUME NEW r \in Requests, UNCHANGED tables PROVE Links'
  BY <1>3
<1>4. ASSUME NEW r \in Requests, Commit(r) PROVE Links'
  <2>1. CASE pc[r] = "linked" /\ WriteLink(r)
    <3>1. \A k \in Lines \ {line[r]} :
            /\ matchedExpense'[k] = matchedExpense[k]
            /\ matchedExpense[k] # target[r]
      BY <2>1 DEF WriteLink, LinkedElsewhere
    <3>2. matchedExpense'[line[r]] = target[r] /\ target[r] # NONE
      BY <2>1 DEF WriteLink
    <3>3. OneLinePerExpense'
      BY <3>1, <3>2
    <3>4. RowsAgree'
      BY <2>1, <3>1, <3>2 DEF WriteLink
    <3> QED BY <3>3, <3>4
  <2>2. CASE pc[r] = "parked" /\ WritePark(r)
    BY <2>2 DEF WritePark
  <2> QED BY <1>4, <2>1, <2>2 DEF Commit
<1>5. CASE UNCHANGED vars
  BY <1>5 DEF vars
<1> QED
  BY StepKinds, <1>1, <1>2, <1>3, <1>4, <1>5
     DEF Quiet, Abort, SubmitConfirm, SubmitAuto, Load, Pick, Decide, Reply,
         LockExpense, LockLine, Park

\* IInv is an invariant of every mix of confirms and auto-matches.
THEOREM Inductive == Spec => []IInv
<1>1. Init => IInv
  <2> SUFFICES ASSUME Init PROVE IInv
    OBVIOUS
  <2>1. TypeOK /\ OwnRows
    BY InitTypeOK
  <2>2. LockOwner /\ RowsExist /\ FreshCopies /\ Checked
    BY ReconciliationAssumption
       DEF Init, LockOwner, RowsExist, FreshCopies, Checked
  <2>3. RowsAgree /\ OneLinePerExpense
    BY DEF Init, RowsAgree, OneLinePerExpense
  <2> QED BY <2>1, <2>2, <2>3 DEF IInv
<1>2. IInv /\ [Next]_vars => IInv'
  BY TypeStep, OwnRowsStep, LockOwnerStep, CopiesStep, LinksStep DEF IInv
<1> QED BY <1>1, <1>2, PTL DEF Spec

-----------------------------------------------------------------------------
(* What follows for every mix of requests                                  *)

\* No two bank lines are ever reconciled with the same expense, and the two
\* rows of a match agree.
THEOREM LinksCorrect == Spec => [](OneLinePerExpense /\ RowsAgree)
<1>1. IInv => OneLinePerExpense /\ RowsAgree
  BY DEF IInv
<1> QED BY <1>1, Inductive, PTL

\* A reviewer's confirm decides and writes on rows that are still as it read
\* them.
THEOREM FreshDecisions == Spec => []ReviewersDecideOnFreshRows
<1>1. IInv => ReviewersDecideOnFreshRows
  BY DEF IInv, FreshCopies, ReviewersDecideOnFreshRows
<1> QED BY <1>1, Inductive, PTL

\* Whoever is waited for has the expense and at most waits for its line or for
\* the unique index, whoever has the line at most for the index, and what the
\* index waits for is a commit: "expense first" rules out deadlock for any
\* number of requests.
THEOREM DeadlockFree == Spec => []WaitChainsEnd
<1>1. IInv => WaitChainsEnd
  <2> SUFFICES ASSUME IInv,
                      NEW a \in Requests, NEW b \in Requests,
                      NEW c \in Requests, NEW d \in Requests,
                      NEW e \in Requests,
                      WaitsFor(a, b), WaitsFor(b, c), WaitsFor(c, d),
                      WaitsFor(d, e)
               PROVE  FALSE
    BY DEF WaitChainsEnd
  <2>1. pc[b] \in {"lockLine", "decide"}
    BY DEF IInv, WaitsFor, LockOwner, OwnRows, TypeOK, Unlinks
  <2>2. pc[c] \in {"decide", "linked"}
    <3>1. pc[b] = "lockLine" => line[b] \in Lines /\ lineLock[line[b]] = c
      BY DEF IInv, WaitsFor, OwnRows
    <3>2. pc[b] = "decide" => pc[c] = "linked"
      BY DEF WaitsFor, Unlinks
    <3> QED BY <2>1, <3>1, <3>2 DEF IInv, LockOwner
  <2>3. pc[d] = "linked"
    BY <2>2 DEF WaitsFor, Unlinks
  <2> QED BY <2>3 DEF WaitsFor
<1> QED BY <1>1, Inductive, PTL

\* A confirm takes no bank line away from another expense.
THEOREM LinksMove == Spec => OnlyAutoMovesALink
<1> DEFINE Moves ==
      \A l \in Lines :
        matchedExpense[l] \notin {NONE, matchedExpense'[l]} =>
          \E r \in Autos : pc[r] = "linked" /\ line[r] = l
                           /\ matchedExpense'[l] = target[r]
<1>1. IInv /\ [Next]_vars => [Moves]_vars
  <2> SUFFICES ASSUME IInv, [Next]_vars, NEW l \in Lines,
                      matchedExpense[l] \notin {NONE, matchedExpense'[l]}
               PROVE  \E r \in Autos : pc[r] = "linked" /\ line[r] = l
                           /\ matchedExpense'[l] = target[r]
    OBVIOUS
  <2>1. PICK r \in Requests : Commit(r)
    BY StepKinds
       DEF CreateExpense, ImportLine, Quiet, SubmitConfirm, SubmitAuto, Load,
           Pick, Decide, Reply, Abort, LockExpense, LockLine, Park, tables, vars
  <2>2. pc[r] = "linked" /\ line[r] = l /\ matchedExpense'[l] = target[r]
    BY <2>1 DEF Commit, WriteLink, WritePark, IInv, TypeOK
  <2>3. r \notin Confirms
    BY <2>2 DEF IInv, FreshCopies, Checked, CheckedConflict
  <2> QED BY <2>2, <2>3
<1> QED BY <1>1, Inductive, PTL DEF Spec, OnlyAutoMovesALink

-----------------------------------------------------------------------------
(* Reviewers alone.  Without auto-matches no session holds a stale copy, so *)
(* the two checks of confirm_match decide for the committed tables.        *)

ReviewersOnly == Autos = {}

RInv ==
    /\ \A r \in Requests : pc[r] \notin {"load", "pick", "park", "parked"}
    /\ \A r \in committed : pc[r] = "closed" /\ line[r] \in Lines
    /\ MatchedIffLinked
    /\ CommittedClaimsStand

\* From the flush of a confirm to its commit its two rows are free in the
\* tables.
LEMMA LinkedRowsFree ==
  ASSUME ReviewersOnly, IInv, RInv, NEW r \in Requests, pc[r] = "linked"
  PROVE  target[r] \in Expenses /\ line[r] \in Lines /\ RowsFree(r)
<1>1. /\ r \in Confirms /\ target[r] \in Expenses /\ line[r] \in Lines
      /\ seenMatch[r] = matchedExpense[line[r]]
      /\ expenseStatus[target[r]] # "matched"
      /\ seenMatch[r] \in {NONE, target[r]}
  BY DEF ReviewersOnly, IInv, OwnRows, FreshCopies, Checked, CheckedConflict
<1>2. \A k \in Lines : matchedExpense[k] # target[r]
  BY <1>1 DEF RInv, MatchedIffLinked
<1> QED BY <1>1, <1>2 DEF RowsFree

\* When a confirm commits, its two rows are free in the tables.
LEMMA BothRowsFree ==
  ASSUME ReviewersOnly, IInv, RInv, NEW r \in Requests, Commit(r)
  PROVE  /\ WriteLink(r) /\ pc[r] = "linked"
         /\ target[r] \in Expenses /\ line[r] \in Lines
         /\ matchedExpense[line[r]] = NONE
         /\ \A k \in Lines : matchedExpense[k] # target[r]
<1>1. WriteLink(r) /\ pc[r] = "linked"
  BY DEF Commit, RInv
<1> QED BY <1>1, LinkedRowsFree DEF RowsFree

\* Without auto-matches every step keeps rows, links and commits in agreement.
LEMMA RInvStep ==
  ASSUME ReviewersOnly, IInv, RInv, [Next]_vars
  PROVE  RInv'
<1> USE DEF RInv, ReviewersOnly, tables, session, GoTo
<1>1. ASSUME NEW r \in Requests, Commit(r) PROVE RInv'
  <2> USE <1>1, BothRowsFree
  <2>1. /\ pc' = [pc EXCEPT ![r] = "closed"]
        /\ committed' = committed \cup {r}
        /\ UNCHANGED session
    BY DEF Commit, WriteLink
  <2>2. /\ matchedExpense' = [matchedExpense EXCEPT ![line[r]] = target[r]]
        /\ expenseStatus' = [expenseStatus EXCEPT ![target[r]] = "matched"]
    BY DEF WriteLink
  <2>3. MatchedIffLinked'
    <3> SUFFICES ASSUME NEW e \in Expenses
                 PROVE  expenseStatus'[e] = "matched"
                          <=> \E l \in Lines : matchedExpense'[l] = e
      BY DEF MatchedIffLinked
    <3>1. CASE e = target[r]
      BY <2>2, <3>1 DEF IInv, TypeOK
    <3>2. CASE e # target[r]
      <4>1. expenseStatus'[e] = expenseStatus[e]
        BY <2>2, <3>2 DEF IInv, TypeOK
      <4>2. \A l \in Lines : matchedExpense'[l] = e <=> matchedExpense[l] = e
        BY ReconciliationAssumption, <2>2, <3>2 DEF IInv, TypeOK
      <4> QED BY <4>1, <4>2 DEF MatchedIffLinked
    <3> QED BY <3>1, <3>2
  <2>4. ASSUME NEW q \in committed
        PROVE  target[q] # target[r] /\ line[q] # line[r]
    <3>1. /\ matchedExpense[line[q]] = target[q] /\ line[q] \in Lines
          /\ target[q] \in Expenses
      BY DEF CommittedClaimsStand, IInv, OwnRows, TypeOK
    <3> QED BY <3>1, ReconciliationAssumption
  <2>5. CommittedClaimsStand'
    BY <2>1, <2>2, <2>4 DEF CommittedClaimsStand, IInv, TypeOK
  <2> QED BY <2>1, <2>3, <2>5 DEF IInv, TypeOK
<1>2. ASSUME NEW r \in Requests, Quiet(r) PROVE RInv'
  BY <1>2 DEF Quiet, SubmitConfirm, SubmitAuto, Load, Pick, Decide, Reply,
              IInv, TypeOK, MatchedIffLinked, CommittedClaimsStand
<1>3. ASSUME NEW r \in Requests, pc[r] # "new", UNCHANGED committed,
             UNCHANGED <<tables, target, line>>,
             \/ GoTo(r, "closed")
             \/ GoTo(r, "lockLine") /\ pc[r] = "lockExpense"
             \/ GoTo(r, "decide") /\ pc[r] = "lockLine"
      PROVE  RInv'
  BY <1>3 DEF IInv, TypeOK, MatchedIffLinked, CommittedClaimsStand
<1>4. CASE \E e \in Expenses : CreateExpense(e)
  BY <1>4 DEF CreateExpense, IInv, TypeOK, RowsAgree, MatchedIffLinked,
              CommittedClaimsStand
<1>5. CASE \/ \E l \in Lines : ImportLine(l)
           \/ UNCHANGED vars
  BY <1>5 DEF ImportLine, vars, MatchedIffLinked, CommittedClaimsStand
<1>6. ASSUME NEW r \in Requests, Park(r) PROVE FALSE
  BY <1>6 DEF Park
<1> QED
  BY StepKinds, <1>1, <1>2, <1>3, <1>4, <1>5, <1>6
     DEF Abort, LockExpense, LockLine

\* Who was told "matched" has linked its rows or is over.
ToldPlaces ==
    \A r \in Requests : answer[r] = "matched" => pc[r] \in {"linked", "closed"}

\* "matched" is an answer to a request that has linked its rows.
LEMMA ToldStep == TypeOK /\ ToldPlaces /\ [Next]_vars => ToldPlaces'
<1> SUFFICES ASSUME TypeOK, ToldPlaces, [Next]_vars PROVE ToldPlaces'
  OBVIOUS
<1> USE DEF TypeOK, ToldPlaces, tables, locks, session, GoTo
<1>1. ASSUME NEW r \in Requests, NEW code, Refuse(r, code) PROVE ToldPlaces'
  BY <1>1 DEF Refuse
<1>2. ASSUME NEW r \in Requests,
             Load(r) \/ LockExpense(r) \/ LockLine(r) \/ Decide(r)
      PROVE ToldPlaces'
  BY <1>1, <1>2 DEF Load, LockExpense, LockLine, Decide
<1>3. ASSUME NEW r \in Requests,
             SubmitConfirm(r) \/ SubmitAuto(r) \/ Pick(r) \/ Park(r) \/ Crash(r)
      PROVE ToldPlaces'
  BY <1>3 DEF SubmitConfirm, SubmitAuto, Pick, Park, Crash
<1>4. ASSUME NEW r \in Requests, Commit(r) PROVE ToldPlaces'
  BY <1>4 DEF Commit
<1>5. CASE \/ \E e \in Expenses : CreateExpense(e)
           \/ \E l \in Lines : ImportLine(l)
           \/ UNCHANGED vars
  BY <1>5 DEF CreateExpense, ImportLine, vars
<1>6. ASSUME NEW r \in Requests, Reply(r) PROVE ToldPlaces'
  BY <1>6 DEF Reply, Body
<1> QED
  BY <1>2, <1>3, <1>4, <1>5, <1>6 DEF Next, Handle, Finished

\* The claims of reviewers stand, and "matched" means linked.
THEOREM ReviewersSafe ==
  ReviewersOnly => (Spec => [](MatchedIffLinked /\ CommittedClaimsStand))
<1> SUFFICES ASSUME ReviewersOnly
             PROVE  Spec => [](MatchedIffLinked /\ CommittedClaimsStand)
  OBVIOUS
<1>1. Init => RInv
  BY ReconciliationAssumption
     DEF Init, RInv, MatchedIffLinked, CommittedClaimsStand
<1>2. IInv /\ RInv /\ [Next]_vars => RInv'
  BY RInvStep
<1>3. RInv => MatchedIffLinked /\ CommittedClaimsStand
  BY DEF RInv
<1> QED BY <1>1, <1>2, <1>3, Inductive, PTL DEF Spec

\* An expense is "matched" exactly when a bank line carries it.
THEOREM MatchedMeansLinked == ReviewersOnly => (Spec => []MatchedIffLinked)
<1> SUFFICES ASSUME ReviewersOnly PROVE Spec => []MatchedIffLinked
  OBVIOUS
<1> QED BY ReviewersSafe, PTL

\* What reviewers were told excludes each other, sent before the commit or
\* after it, and only a lost process or connection takes it back.
THEOREM ToldSafe == ReviewersOnly => (Spec => []ToldClaimsStand)
<1> SUFFICES ASSUME ReviewersOnly PROVE Spec => []ToldClaimsStand
  OBVIOUS
<1>1. Init => ToldPlaces /\ RInv
  BY ReconciliationAssumption
     DEF Init, ToldPlaces, RInv, MatchedIffLinked, CommittedClaimsStand
<1>2. IInv /\ ToldPlaces /\ [Next]_vars => ToldPlaces'
  BY ToldStep DEF IInv
<1>3. IInv /\ RInv /\ [Next]_vars => RInv'
  BY RInvStep
<1>4. IInv /\ RInv /\ ToldPlaces => ToldClaimsStand
  <2> SUFFICES ASSUME IInv, RInv, ToldPlaces PROVE ToldClaimsStand
    OBVIOUS
  <2> DEFINE Counts(r) == answer[r] = "matched" /\ ~ TakenBack(r)
  <2>1. ASSUME NEW r \in Requests, Counts(r)
        PROVE  \/ pc[r] = "linked" /\ target[r] \in Expenses
                                  /\ line[r] \in Lines /\ RowsFree(r)
               \/ pc[r] = "closed" /\ r \in committed
                                  /\ target[r] \in Expenses /\ line[r] \in Lines
                                  /\ matchedExpense[line[r]] = target[r]
    <3>1. CASE pc[r] = "linked"
      BY <3>1, LinkedRowsFree
    <3>2. CASE pc[r] = "closed"
      BY <2>1, <3>2
         DEF TakenBack, RInv, CommittedClaimsStand, IInv, OwnRows
    <3> QED BY <2>1, <3>1, <3>2 DEF ToldPlaces
  <2>2. ASSUME NEW r \in Requests, NEW q \in Requests \ {r},
               Counts(r), Counts(q)
        PROVE  target[q] # target[r] /\ line[q] # line[r]
    <3>1. CASE pc[r] = "linked" /\ pc[q] = "linked"
      BY <3>1 DEF IInv, LockOwner
    <3>2. CASE pc[r] = "linked" /\ pc[q] = "closed"
      BY <2>1, <2>2, <3>2, ReconciliationAssumption DEF RowsFree
    <3>3. CASE pc[r] = "closed" /\ pc[q] = "linked"
      BY <2>1, <2>2, <3>3, ReconciliationAssumption DEF RowsFree
    <3>4. CASE pc[r] = "closed" /\ pc[q] = "closed"
      BY <2>1, <2>2, <3>4 DEF RInv, CommittedClaimsStand
    <3> QED BY <2>1, <2>2, <3>1, <3>2, <3>3, <3>4
  <2>3. ASSUME NEW r \in Requests, Counts(r)
        PROVE  IF pc[r] = "linked" THEN RowsFree(r)
                                   ELSE matchedExpense[line[r]] = target[r]
    BY <2>1, <2>3
  <2> QED BY <2>2, <2>3 DEF ToldClaimsStand
<1> QED BY <1>1, <1>2, <1>3, <1>4, Inductive, PTL DEF Spec

\* Reviewers' confirms implement Matching: the commit of a confirm is the
\* abstract Confirm, every other step leaves the pairs alone.
THEOREM ReviewersImplementMatching ==
  ReviewersOnly => (Spec => ImplementsMatching)
<1> SUFFICES ASSUME ReviewersOnly PROVE Spec => ImplementsMatching
  OBVIOUS
<1> DEFINE linked == {p \in Expenses \X Lines : matchedExpense[p[2]] = p[1]}
<1>1. Init => Promise!Init
  BY ReconciliationAssumption DEF Init, Promise!Init
<1>2. IInv /\ RInv /\ [Next]_vars => [Promise!Next]_linked
  <2> SUFFICES ASSUME IInv, RInv, [Next]_vars
               PROVE  Promise!Next \/ UNCHANGED linked
    OBVIOUS
  <2>1. ASSUME NEW r \in Requests, Commit(r)
        PROVE  Promise!Confirm(target[r], line[r])
    <3> USE <2>1, BothRowsFree
    <3>1. matchedExpense' = [matchedExpense EXCEPT ![line[r]] = target[r]]
      BY DEF WriteLink
    <3>2. \A p \in linked : p[1] # target[r] /\ p[2] # line[r]
      BY ReconciliationAssumption
    <3>3. linked' = linked \cup {<<target[r], line[r]>>}
      <4>1. ASSUME NEW e \in Expenses, NEW l \in Lines
            PROVE  matchedExpense'[l] = e <=>
                     matchedExpense[l] = e \/ (e = target[r] /\ l = line[r])
        BY <3>1, ReconciliationAssumption DEF IInv, TypeOK
      <4> QED BY <4>1
    <3> QED BY <3>2, <3>3 DEF Promise!Confirm
  <2>2. CASE UNCHANGED matchedExpense
    BY <2>2
  <2>3. UNCHANGED matchedExpense \/ \E r \in Requests : Commit(r)
    BY StepKinds
       DEF CreateExpense, ImportLine, Quiet, SubmitConfirm, SubmitAuto, Load,
           Pick, Decide, Reply, Abort, LockExpense, LockLine, Park, tables, vars
  <2>4. ASSUME NEW r \in Requests, Commit(r) PROVE Promise!Next
    <3>1. target[r] \in Expenses /\ line[r] \in Lines
      BY <2>4, BothRowsFree
    <3>2. Promise!Confirm(target[r], line[r])
      BY <2>1, <2>4
    <3> QED BY <3>1, <3>2 DEF Promise!Next, Promise!Confirm
  <2> QED BY <2>2, <2>3, <2>4
<1>3. Init => RInv
  BY ReconciliationAssumption
     DEF Init, RInv, MatchedIffLinked, CommittedClaimsStand
<1>4. IInv /\ RInv /\ [Next]_vars => RInv'
  BY RInvStep
<1> QED
  BY <1>1, <1>2, <1>3, <1>4, Inductive, PTL
     DEF Spec, ImplementsMatching, Promise!Spec
=============================================================================
