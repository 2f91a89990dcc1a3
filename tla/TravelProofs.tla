---------------------------- MODULE TravelProofs ----------------------------
(***************************************************************************)
(* Proofs about Travel for any number of trips and requests.  The invariant *)
(* says who holds the approval's row lock and the uncommitted reference,   *)
(* and what a move or a spend has established at each place.               *)
(***************************************************************************)
EXTENDS Travel, TLAPS

Deciding == {"decide", "sum", "post", "return"}

OwnTrip == \A r \in Requests : pc[r] # "new" => trip[r] \in Trips

\* A move holds its approval's row from the lock to its end.
LockOwner ==
    /\ \A t \in Trips, r \in Moves :
         approvalLock[t] = r => trip[r] = t /\ pc[r] \in Deciding
    /\ \A r \in Moves : pc[r] \in Deciding => approvalLock[trip[r]] = r

Inserted(r) == pc[r] = "return" /\ (r \in Moves => goal[r] = "paid")

\* Whoever has inserted a reference and not committed it is alone with it.
RefOwner ==
    /\ \A t \in Trips, r \in Moves \cup Posts :
         pendingRef[t] = r => trip[r] = t /\ pc[r] = "return"
    /\ \A r \in Moves \cup Posts : Inserted(r) =>
         pendingRef[trip[r]] = r /\ ~ ReferenceTaken(trip[r])

\* A move decides for the approval as it is, and along a legal edge.
MoveChecked ==
    \A r \in Moves :
      /\ pc[r] \in Deciding =>
           seen[r] = approval[trip[r]] /\ seen[r] \in Statuses
      /\ pc[r] \in {"sum", "post", "return"} =>
           goal[r] \in AllowedTransitions(seen[r])
      /\ pc[r] \in {"sum", "post"} => goal[r] = "paid"
      /\ Inserted(r) => ~ CurrencyMismatch(trip[r])

\* Spends stand at their places only, and what was checked stays true.
SpendChecked ==
    /\ \A s \in Spends : pc[s] = "insert" => approval[trip[s]] \in Spendable
    /\ \A s \in expenses : pc[s] = "closed"

\* What a payment is about to record.
PaymentReady ==
    \A r \in Moves :
      /\ pc[r] \in Deciding => dueAtLock[r] \subseteq ExpensesOf(trip[r])
      /\ pc[r] \in {"post"} \/ Inserted(r) =>
           dueAtLock[r] \subseteq covers[r] /\ covers[r] \subseteq ExpensesOf(trip[r])

\* Committed entries belong to requests that are over.
EntriesClosed == \A x \in ledger : pc[x.by] = "closed"

TripHasCurrency ==
    \A t \in Trips : approval[t] = "absent" <=> tripCurrency[t] = NONE

IInv ==
    /\ TypeOK /\ OwnTrip
    /\ LockOwner /\ RefOwner
    /\ MoveChecked /\ SpendChecked /\ PaymentReady /\ EntriesClosed
    /\ TripHasCurrency
    /\ PaidIffPosted /\ ReferenceUsedOnce
    /\ SpendAfterApproval /\ PaymentCoversSpend /\ PaymentCurrency

USE DEF Requests

-----------------------------------------------------------------------------
(* Steps, by what they can disturb.                                        *)

\* A move that got its lock, or passed its checks, or inserted its reference.
GotLock(r) == LockApproval(r) /\ approval[trip[r]] # "absent"

Decided(r) ==
    /\ pc[r] = "decide"
    /\ goal[r] \in AllowedTransitions(seen[r])
    /\ GoTo(r, IF goal[r] = "paid" THEN "sum" ELSE "return")
    /\ UNCHANGED <<tables, locks, session>>

Posted(r) ==
    /\ PostPayment(r)
    /\ ~ CurrencyMismatch(trip[r])
    /\ ~ ReferenceTaken(trip[r])

SpendPassed(s) ==
    /\ pc[s] = "check"
    /\ approval[trip[s]] \in Spendable
    /\ GoTo(s, "insert")
    /\ UNCHANGED <<tables, locks, session>>

PostInserted(b) == InsertPost(b) /\ ~ ReferenceTaken(trip[b])

Abort(r) == Refuse(r) /\ pc[r] # "new"

\* The steps, by what they write; each keeps what its name does not mention.
LEMMA StepKinds ==
  ASSUME [Next]_vars
  PROVE  \/ \E t \in Trips : CreateTrip(t)
         \/ \E c \in Codes : CreateAccount(c)
         \/ \E r \in Requests : Abort(r)
         \/ \E r \in Moves : SubmitMove(r) \/ GotLock(r) \/ Decided(r)
                              \/ SumExpenses(r) \/ Posted(r) \/ CommitMove(r)
         \/ \E s \in Spends : SubmitSpend(s) \/ SpendPassed(s) \/ CommitSpend(s)
         \/ \E b \in Posts : SubmitPost(b) \/ PostInserted(b) \/ CommitPost(b)
         \/ UNCHANGED vars
<1>1. ASSUME NEW r \in Requests, Crash(r) PROVE Abort(r)
  BY <1>1 DEF Crash, Abort
<1>2. ASSUME NEW r \in Moves, LockApproval(r) PROVE GotLock(r) \/ Abort(r)
  BY <1>2 DEF LockApproval, GotLock, Abort
<1>3. ASSUME NEW r \in Moves, Decide(r) PROVE Decided(r) \/ Abort(r)
  BY <1>3 DEF Decide, Decided, Abort
<1>4. ASSUME NEW r \in Moves, PostPayment(r) PROVE Posted(r) \/ Abort(r)
  BY <1>4 DEF PostPayment, Posted, Abort
<1>5. ASSUME NEW s \in Spends, CheckTrip(s) PROVE SpendPassed(s) \/ Abort(s)
  BY <1>5 DEF CheckTrip, SpendPassed, Abort
<1>6. ASSUME NEW b \in Posts, InsertPost(b) PROVE PostInserted(b) \/ Abort(b)
  BY <1>6 DEF InsertPost, PostInserted, Abort
<1> QED
  BY <1>1, <1>2, <1>3, <1>4, <1>5, <1>6
     DEF Next, HandleMove, HandleSpend, HandlePost

-----------------------------------------------------------------------------
\* Before the first trip nothing is locked, checked or posted.
LEMMA InitIInv == Init => IInv
<1> SUFFICES ASSUME Init PROVE IInv
  OBVIOUS
<1>1. TypeOK
  BY TravelAssumption DEF Init, TypeOK, Statuses, Places
<1>2. OwnTrip /\ LockOwner /\ RefOwner
  BY TravelAssumption DEF Init, OwnTrip, LockOwner, RefOwner, Deciding, Inserted
<1>3. /\ MoveChecked /\ SpendChecked /\ PaymentReady /\ EntriesClosed
      /\ TripHasCurrency
  BY DEF Init, MoveChecked, SpendChecked, PaymentReady, EntriesClosed,
         TripHasCurrency, Deciding, Inserted
<1>4. /\ PaidIffPosted /\ ReferenceUsedOnce
      /\ SpendAfterApproval /\ PaymentCoversSpend /\ PaymentCurrency
  BY DEF Init, PaidIffPosted, ReferenceUsedOnce, SpendAfterApproval,
         PaymentCoversSpend, PaymentCurrency
<1> QED BY <1>1, <1>2, <1>3, <1>4 DEF IInv

\* The tables, locks and sessions keep their shape.
LEMMA TypeStep ==
  ASSUME TypeOK, OwnTrip, [Next]_vars PROVE TypeOK' /\ OwnTrip'
<1> DEFINE Inv == TypeOK /\ OwnTrip
<1> USE TravelAssumption
    DEF TypeOK, OwnTrip, Statuses, Places, tables, locks, session, GoTo
<1>1. ASSUME NEW t \in Trips, CreateTrip(t) PROVE Inv'
  BY <1>1 DEF CreateTrip
<1>2. ASSUME NEW c \in Codes, CreateAccount(c) PROVE Inv'
  BY <1>2 DEF CreateAccount
<1>3. ASSUME NEW r \in Requests, Abort(r) PROVE Inv'
  BY <1>3 DEF Abort, Refuse, FreeLocks
<1>4. ASSUME NEW r \in Moves, SubmitMove(r) PROVE Inv'
  BY <1>4 DEF SubmitMove
<1>5. ASSUME NEW r \in Moves, GotLock(r) PROVE Inv'
  BY <1>5 DEF GotLock, LockApproval, ExpensesOf
<1>6. ASSUME NEW r \in Moves, Decided(r) PROVE Inv'
  BY <1>6 DEF Decided
<1>7. ASSUME NEW r \in Moves, SumExpenses(r) PROVE Inv'
  BY <1>7 DEF SumExpenses, ExpensesOf
<1>8. ASSUME NEW r \in Moves, Posted(r) PROVE Inv'
  BY <1>8 DEF Posted, PostPayment
<1>9. ASSUME NEW r \in Moves, CommitMove(r) PROVE Inv'
  <2>1. Entry(r, covers[r]) \in [ref : Trips, by : Moves \cup Posts,
                                 covers : SUBSET Spends,
                                 currency : Currencies \cup {NONE}]
    BY <1>9 DEF CommitMove, Entry
  <2>2. /\ approvalLock' \in [Trips -> Moves \cup {NONE}]
        /\ pendingRef' \in [Trips -> Moves \cup Posts \cup {NONE}]
    BY <1>9 DEF CommitMove, FreeLocks
  <2> QED BY <1>9, <2>1, <2>2 DEF CommitMove
<1>10. ASSUME NEW s \in Spends, SubmitSpend(s) PROVE Inv'
  BY <1>10 DEF SubmitSpend
<1>11. ASSUME NEW s \in Spends, SpendPassed(s) PROVE Inv'
  BY <1>11 DEF SpendPassed
<1>12. ASSUME NEW s \in Spends, CommitSpend(s) PROVE Inv'
  BY <1>12 DEF CommitSpend
<1>13. ASSUME NEW b \in Posts, SubmitPost(b) PROVE Inv'
  BY <1>13 DEF SubmitPost
<1>14. ASSUME NEW b \in Posts, PostInserted(b) PROVE Inv'
  BY <1>14 DEF PostInserted, InsertPost
<1>15. ASSUME NEW b \in Posts, CommitPost(b) PROVE Inv'
  BY <1>15 DEF CommitPost, FreeLocks
<1>16. CASE UNCHANGED vars
  BY <1>16 DEF vars
<1> QED
  BY StepKinds, <1>1, <1>2, <1>3, <1>4, <1>5, <1>6, <1>7, <1>8, <1>9, <1>10,
     <1>11, <1>12, <1>13, <1>14, <1>15, <1>16

-----------------------------------------------------------------------------
\* The approval's lock and the uncommitted reference have one owner each.
LEMMA LocksStep ==
  ASSUME TypeOK, OwnTrip, LockOwner, RefOwner, MoveChecked, [Next]_vars
  PROVE  LockOwner' /\ RefOwner'
<1> DEFINE Inv == LockOwner /\ RefOwner
<1> USE TravelAssumption
    DEF TypeOK, OwnTrip, LockOwner, RefOwner, Inserted, ReferenceTaken,
        Deciding, tables, locks, session, GoTo
<1>1. ASSUME NEW t \in Trips, CreateTrip(t) PROVE Inv'
  BY <1>1 DEF CreateTrip
<1>2. ASSUME NEW c \in Codes, CreateAccount(c) PROVE Inv'
  BY <1>2 DEF CreateAccount
<1>3. ASSUME NEW r \in Requests, Abort(r) PROVE Inv'
  BY <1>3 DEF Abort, Refuse, FreeLocks
<1>4. ASSUME NEW r \in Moves, SubmitMove(r) PROVE Inv'
  BY <1>4 DEF SubmitMove
<1>5. ASSUME NEW r \in Moves, GotLock(r) PROVE Inv'
  BY <1>5 DEF GotLock, LockApproval
<1>6. ASSUME NEW r \in Moves, Decided(r) PROVE Inv'
  BY <1>6 DEF Decided
<1>7. ASSUME NEW r \in Moves, SumExpenses(r) PROVE Inv'
  BY <1>7 DEF SumExpenses
<1>8. ASSUME NEW r \in Moves, Posted(r) PROVE Inv'
  BY <1>8 DEF Posted, PostPayment, MoveChecked
<1>9. ASSUME NEW r \in Moves, CommitMove(r) PROVE Inv'
  <2>1. LockOwner'
    BY <1>9 DEF CommitMove, FreeLocks
  <2>2. ASSUME NEW q \in Moves \cup Posts, Inserted(q)'
        PROVE  (pendingRef[trip[q]] = q /\ ~ ReferenceTaken(trip[q]))'
    <3>1. q # r /\ Inserted(q) /\ pendingRef'[trip[q]] = q
      BY <1>9, <2>2 DEF CommitMove, FreeLocks
    <3>2. goal[r] = "paid" => trip[q] # trip[r]
      BY <1>9, <3>1 DEF CommitMove
    <3> QED BY <1>9, <3>1, <3>2 DEF CommitMove, Entry
  <2> QED BY <1>9, <2>1, <2>2 DEF CommitMove, FreeLocks
<1>10. ASSUME NEW s \in Spends, SubmitSpend(s) \/ SpendPassed(s) \/ CommitSpend(s)
       PROVE Inv'
  BY <1>10 DEF SubmitSpend, SpendPassed, CommitSpend
<1>11. ASSUME NEW b \in Posts, SubmitPost(b) PROVE Inv'
  BY <1>11 DEF SubmitPost
<1>12. ASSUME NEW b \in Posts, PostInserted(b) PROVE Inv'
  BY <1>12 DEF PostInserted, InsertPost
<1>13. ASSUME NEW b \in Posts, CommitPost(b) PROVE Inv'
  BY <1>13 DEF CommitPost, FreeLocks
<1>14. CASE UNCHANGED vars
  BY <1>14 DEF vars
<1> QED
  BY StepKinds, <1>1, <1>2, <1>3, <1>4, <1>5, <1>6, <1>7, <1>8, <1>9, <1>10,
     <1>11, <1>12, <1>13, <1>14

\* The approval of another move's trip does not change under its lock, and a
\* trip that can be spent on stays so.
LEMMA CommitMoveEffect ==
  ASSUME IInv, NEW r \in Moves, CommitMove(r)
  PROVE  /\ trip[r] \in Trips
         /\ approval' = [approval EXCEPT ![trip[r]] = goal[r]]
         /\ goal[r] \in AllowedTransitions(approval[trip[r]])
         /\ approval[trip[r]] \in Statuses
         /\ \A q \in Moves \ {r} : pc[q] \in Deciding => trip[q] # trip[r]
         /\ \A t \in Trips : approval[t] \in Spendable => approval'[t] \in Spendable
<1> USE DEF IInv, TypeOK
<1>1. /\ trip[r] \in Trips
      /\ approval' = [approval EXCEPT ![trip[r]] = goal[r]]
      /\ goal[r] \in AllowedTransitions(approval[trip[r]])
      /\ approval[trip[r]] \in Statuses
  BY DEF CommitMove, OwnTrip, MoveChecked, Deciding
<1>2. \A q \in Moves \ {r} : pc[q] \in Deciding => trip[q] # trip[r]
  BY DEF CommitMove, LockOwner, Deciding
<1>3. approval[trip[r]] \in Spendable => goal[r] \in Spendable
  BY <1>1 DEF AllowedTransitions, Spendable
<1> QED BY <1>1, <1>2, <1>3

\* A move's copy is the approval's status, and its checks hold to its commit.
LEMMA MoveCheckedStep ==
  ASSUME IInv, [Next]_vars PROVE MoveChecked' /\ TripHasCurrency'
<1> DEFINE Inv == MoveChecked /\ TripHasCurrency
<1> USE TravelAssumption
    DEF IInv, TypeOK, OwnTrip, MoveChecked, TripHasCurrency, Inserted,
        CurrencyMismatch, Deciding, Statuses, tables, locks, session, GoTo
<1>1. ASSUME NEW t \in Trips, CreateTrip(t) PROVE Inv'
  BY <1>1 DEF CreateTrip
<1>2. ASSUME NEW c \in Codes, CreateAccount(c) PROVE Inv'
  BY <1>2 DEF CreateAccount
<1>3. ASSUME NEW r \in Requests, Abort(r) PROVE Inv'
  BY <1>3 DEF Abort, Refuse
<1>4. ASSUME NEW r \in Moves, SubmitMove(r) PROVE Inv'
  BY <1>4 DEF SubmitMove
<1>5. ASSUME NEW r \in Moves, GotLock(r) PROVE Inv'
  BY <1>5 DEF GotLock, LockApproval
<1>6. ASSUME NEW r \in Moves, Decided(r) PROVE Inv'
  BY <1>6 DEF Decided
<1>7. ASSUME NEW r \in Moves, SumExpenses(r) PROVE Inv'
  BY <1>7 DEF SumExpenses
<1>8. ASSUME NEW r \in Moves, Posted(r) PROVE Inv'
  BY <1>8 DEF Posted, PostPayment
<1>9. ASSUME NEW r \in Moves, CommitMove(r) PROVE Inv'
  <2>1. /\ pc' = [pc EXCEPT ![r] = "closed"]
        /\ UNCHANGED <<tripCurrency, account, session>>
    BY <1>9 DEF CommitMove
  <2>2. goal[r] # "absent" /\ approval[trip[r]] # "absent"
    BY <1>9, CommitMoveEffect
  <2> QED BY <1>9, <2>1, <2>2, CommitMoveEffect
<1>10. ASSUME NEW s \in Spends, SubmitSpend(s) \/ SpendPassed(s) \/ CommitSpend(s)
       PROVE Inv'
  BY <1>10 DEF SubmitSpend, SpendPassed, CommitSpend
<1>11. ASSUME NEW b \in Posts, SubmitPost(b) \/ PostInserted(b) \/ CommitPost(b)
       PROVE Inv'
  BY <1>11 DEF SubmitPost, PostInserted, InsertPost, CommitPost
<1>12. CASE UNCHANGED vars
  BY <1>12 DEF vars
<1> QED
  BY StepKinds, <1>1, <1>2, <1>3, <1>4, <1>5, <1>6, <1>7, <1>8, <1>9, <1>10,
     <1>11, <1>12

\* What create_expense checked without a lock stays true, and the rows it
\* inserts are counted by the payments that come after.
LEMMA SpendStep ==
  ASSUME IInv, [Next]_vars
  PROVE  SpendChecked' /\ SpendAfterApproval' /\ PaymentReady'
<1> DEFINE Inv == SpendChecked /\ SpendAfterApproval /\ PaymentReady
<1> USE TravelAssumption
    DEF IInv, TypeOK, OwnTrip, SpendChecked, SpendAfterApproval, PaymentReady,
        ExpensesOf, Spendable, Inserted, Deciding, tables, locks, session, GoTo
<1>1. ASSUME NEW t \in Trips, CreateTrip(t) PROVE Inv'
  BY <1>1 DEF CreateTrip
<1>2. ASSUME NEW c \in Codes, CreateAccount(c) PROVE Inv'
  BY <1>2 DEF CreateAccount
<1>3. ASSUME NEW r \in Requests, Abort(r) PROVE Inv'
  BY <1>3 DEF Abort, Refuse
<1>4. ASSUME NEW r \in Moves, SubmitMove(r) PROVE Inv'
  BY <1>4 DEF SubmitMove
<1>5. ASSUME NEW r \in Moves, GotLock(r) PROVE Inv'
  BY <1>5 DEF GotLock, LockApproval
<1>6. ASSUME NEW r \in Moves, Decided(r) PROVE Inv'
  BY <1>6 DEF Decided
<1>7. ASSUME NEW r \in Moves, SumExpenses(r) PROVE Inv'
  BY <1>7 DEF SumExpenses
<1>8. ASSUME NEW r \in Moves, Posted(r) PROVE Inv'
  BY <1>8 DEF Posted, PostPayment
<1>9. ASSUME NEW r \in Moves, CommitMove(r) PROVE Inv'
  <2>1. pc' = [pc EXCEPT ![r] = "closed"] /\ UNCHANGED <<expenses, session>>
    BY <1>9 DEF CommitMove
  <2>2. SpendChecked' /\ SpendAfterApproval'
    BY <1>9, <2>1, CommitMoveEffect
  <2>3. PaymentReady'
    BY <2>1
  <2> QED BY <2>2, <2>3
<1>10. ASSUME NEW s \in Spends, SubmitSpend(s) PROVE Inv'
  BY <1>10 DEF SubmitSpend
<1>11. ASSUME NEW s \in Spends, SpendPassed(s) PROVE Inv'
  BY <1>11 DEF SpendPassed
<1>12. ASSUME NEW s \in Spends, CommitSpend(s) PROVE Inv'
  BY <1>12 DEF CommitSpend
<1>13. ASSUME NEW b \in Posts, SubmitPost(b) \/ PostInserted(b) \/ CommitPost(b)
       PROVE Inv'
  BY <1>13 DEF SubmitPost, PostInserted, InsertPost, CommitPost
<1>14. CASE UNCHANGED vars
  BY <1>14 DEF vars
<1> QED
  BY StepKinds, <1>1, <1>2, <1>3, <1>4, <1>5, <1>6, <1>7, <1>8, <1>9, <1>10,
     <1>11, <1>12, <1>13, <1>14

LedgerInv ==
    /\ EntriesClosed /\ PaidIffPosted /\ ReferenceUsedOnce
    /\ PaymentCoversSpend /\ PaymentCurrency

\* While the ledger stands still, expenses are added and fields of running
\* requests change.
LEMMA LedgerStands ==
  ASSUME LedgerInv,
         UNCHANGED <<approval, tripCurrency, account, ledger>>,
         \A x \in ledger : /\ pc'[x.by] = "closed"
                           /\ x.by \in Moves => dueAtLock'[x.by] = dueAtLock[x.by],
         \A s \in expenses : s \in expenses' /\ trip'[s] = trip[s]
  PROVE  LedgerInv'
<1>1. EntriesClosed'
  BY DEF EntriesClosed
<1>2. PaidIffPosted'
  BY DEF LedgerInv, PaidIffPosted
<1>3. ReferenceUsedOnce'
  BY DEF LedgerInv, ReferenceUsedOnce
<1>4. PaymentCurrency'
  BY DEF LedgerInv, PaymentCurrency
<1>5. \A t : ExpensesOf(t) \subseteq ExpensesOf(t)'
  BY DEF ExpensesOf
<1>6. PaymentCoversSpend'
  BY <1>5 DEF LedgerInv, PaymentCoversSpend
<1> QED BY <1>1, <1>2, <1>3, <1>4, <1>6 DEF LedgerInv

\* The ledger and the approvals tell the same story.
LEMMA LedgerStep ==
  ASSUME IInv, [Next]_vars PROVE LedgerInv'
<1> USE TravelAssumption
    DEF IInv, TypeOK, OwnTrip, LedgerInv, EntriesClosed, PaidIffPosted,
        ReferenceUsedOnce, PaymentCoversSpend, PaymentCurrency, ExpensesOf,
        tables, locks, session, GoTo
<1>1. ASSUME UNCHANGED <<approval, tripCurrency, account, ledger>>,
             \A x \in ledger : /\ pc'[x.by] = "closed"
                               /\ x.by \in Moves => dueAtLock'[x.by] = dueAtLock[x.by],
             \A s \in expenses : s \in expenses' /\ trip'[s] = trip[s]
      PROVE  LedgerInv'
  <2>1. LedgerInv
    OBVIOUS
  <2> QED BY <1>1, <2>1, LedgerStands
<1>2. ASSUME NEW t \in Trips, CreateTrip(t) PROVE LedgerInv'
  BY <1>2 DEF CreateTrip, Statuses, TripHasCurrency
<1>3. ASSUME NEW c \in Codes, CreateAccount(c) PROVE LedgerInv'
  <2>1. \A x \in ledger : x.by \in Moves => FALSE
    BY <1>3 DEF CreateAccount, TripHasCurrency
  <2> QED BY <1>3, <2>1 DEF CreateAccount
<1>4. ASSUME NEW r \in Requests, Abort(r) PROVE LedgerInv'
  BY <1>1, <1>4 DEF Abort, Refuse
<1>5. ASSUME NEW r \in Moves, SubmitMove(r) PROVE LedgerInv'
  BY <1>1, <1>5 DEF SubmitMove, SpendChecked
<1>6. ASSUME NEW r \in Moves, GotLock(r) PROVE LedgerInv'
  BY <1>1, <1>6 DEF GotLock, LockApproval
<1>7. ASSUME NEW r \in Moves, Decided(r) \/ SumExpenses(r) \/ Posted(r)
      PROVE LedgerInv'
  BY <1>1, <1>7 DEF Decided, SumExpenses, Posted, PostPayment
<1>8. ASSUME NEW r \in Moves, CommitMove(r) PROVE LedgerInv'
  <2>1. /\ pc' = [pc EXCEPT ![r] = "closed"] /\ pc[r] = "return"
        /\ UNCHANGED <<tripCurrency, account, expenses, session>>
        /\ ledger' = IF goal[r] = "paid" THEN ledger \cup {Entry(r, covers[r])}
                                        ELSE ledger
    BY <1>8 DEF CommitMove
  <2>2. CASE goal[r] = "paid"
    <3>1. ~ ReferenceTaken(trip[r]) /\ ~ CurrencyMismatch(trip[r])
      BY <2>1, <2>2 DEF RefOwner, MoveChecked, Inserted
    <3>2. dueAtLock[r] \subseteq covers[r] /\ covers[r] \subseteq ExpensesOf(trip[r])
      BY <2>1, <2>2 DEF PaymentReady, Inserted
    <3>3. EntriesClosed' /\ ReferenceUsedOnce'
      BY <2>1, <2>2, <3>1 DEF Entry, ReferenceTaken
    <3>4. PaymentCoversSpend' /\ PaymentCurrency'
      BY <2>1, <2>2, <3>1, <3>2 DEF Entry, CurrencyMismatch
    <3>5. PaidIffPosted'
      <4>1. /\ trip[r] \in Trips
            /\ approval' = [approval EXCEPT ![trip[r]] = "paid"]
        BY <1>8, <2>2, CommitMoveEffect
      <4>2. /\ Entry(r, covers[r]).ref = trip[r]
            /\ Entry(r, covers[r]).by = r
        BY DEF Entry
      <4>3. \A t \in Trips :
              (\E x \in ledger' : x.ref = t /\ x.by \in Moves)
                <=> t = trip[r] \/ \E x \in ledger : x.ref = t /\ x.by \in Moves
        BY <2>1, <2>2, <4>2
      <4> QED BY <4>1, <4>3
    <3> QED BY <3>3, <3>4, <3>5
  <2>3. CASE goal[r] # "paid"
    <3>1. approval[trip[r]] # "paid" /\ trip[r] \in Trips
          /\ approval' = [approval EXCEPT ![trip[r]] = goal[r]]
      BY <1>8, CommitMoveEffect DEF AllowedTransitions
    <3> QED BY <2>1, <2>3, <3>1
  <2> QED BY <2>2, <2>3
<1>9. ASSUME NEW s \in Spends, SubmitSpend(s) PROVE LedgerInv'
  BY <1>1, <1>9 DEF SubmitSpend, SpendChecked
<1>10. ASSUME NEW s \in Spends, SpendPassed(s) \/ CommitSpend(s)
       PROVE LedgerInv'
  BY <1>1, <1>10 DEF SpendPassed, CommitSpend
<1>11. ASSUME NEW b \in Posts, SubmitPost(b) PROVE LedgerInv'
  BY <1>1, <1>11 DEF SubmitPost, SpendChecked
<1>12. ASSUME NEW b \in Posts, PostInserted(b) PROVE LedgerInv'
  BY <1>1, <1>12 DEF PostInserted, InsertPost
<1>13. ASSUME NEW b \in Posts, CommitPost(b) PROVE LedgerInv'
  <2>1. ~ ReferenceTaken(trip[b])
    BY <1>13 DEF CommitPost, RefOwner, Inserted
  <2> DEFINE entry ==
        [ref |-> trip[b], by |-> b, covers |-> {}, currency |-> NONE]
  <2>2. /\ ledger' = ledger \cup {entry} /\ pc' = [pc EXCEPT ![b] = "closed"]
        /\ UNCHANGED <<approval, tripCurrency, account, expenses, session>>
    BY <1>13 DEF CommitPost
  <2>3. entry.by = b /\ entry.ref = trip[b] /\ b \notin Moves
    OBVIOUS
  <2> HIDE DEF entry
  <2>4. EntriesClosed' /\ ReferenceUsedOnce'
    BY <2>1, <2>2, <2>3 DEF ReferenceTaken
  <2>5. PaidIffPosted' /\ PaymentCoversSpend' /\ PaymentCurrency'
    BY <2>2, <2>3
  <2> QED BY <2>4, <2>5
<1>14. CASE UNCHANGED vars
  BY <1>14 DEF vars
<1> QED
  BY StepKinds, <1>2, <1>3, <1>4, <1>5, <1>6, <1>7, <1>8, <1>9, <1>10, <1>11,
     <1>12, <1>13, <1>14

\* Whoever moves an approval, spends on the trip or posts an entry: copies
\* under a lock are fresh, and what was checked stays true until its commit.
THEOREM TravelInductive == Spec => []IInv
<1>1. IInv /\ [Next]_vars => IInv'
  BY TypeStep, LocksStep, MoveCheckedStep, SpendStep, LedgerStep
     DEF IInv, LedgerInv
<1> QED BY <1>1, InitIInv, PTL DEF Spec

-----------------------------------------------------------------------------
\* Trips, approvals, accounts, locks and requests keep their types.
THEOREM TypeCorrect == Spec => []TypeOK
<1>1. IInv => TypeOK
  BY DEF IInv
<1> QED BY <1>1, TravelInductive, PTL

\* An approval is paid exactly when a payment stands in the ledger.
THEOREM PaidOnce == Spec => []PaidIffPosted
<1>1. IInv => PaidIffPosted
  BY DEF IInv
<1> QED BY <1>1, TravelInductive, PTL

\* Payments and journal entries of clients never share a reference.
THEOREM ReferencesUnique == Spec => []ReferenceUsedOnce
<1>1. IInv => ReferenceUsedOnce
  BY DEF IInv
<1> QED BY <1>1, TravelInductive, PTL

\* Expenses hang on approved or paid trips only, although create_expense
\* reads the approval without a lock: the spendable statuses are never left.
THEOREM SpendsAreApproved == Spec => []SpendAfterApproval
<1>1. IInv => SpendAfterApproval
  BY DEF IInv
<1> QED BY <1>1, TravelInductive, PTL

\* A payment covers what its trip had spent when the payment got the lock.
THEOREM PaymentsCover == Spec => [](PaymentCoversSpend /\ PaymentCurrency)
<1>1. IInv => PaymentCoversSpend /\ PaymentCurrency
  BY DEF IInv
<1> QED BY <1>1, TravelInductive, PTL

\* What two reviewers commit one after the other is always a legal path.
THEOREM LegalMoves == Spec => OnlyLegalMoves
<1> DEFINE Legal ==
      \A t \in Trips : approval'[t] # approval[t] =>
        IF approval[t] = "absent" THEN approval'[t] = "pending"
        ELSE approval'[t] \in AllowedTransitions(approval[t])
<1>1. IInv /\ [Next]_vars => [Legal]_vars
  <2> SUFFICES ASSUME IInv, [Next]_vars PROVE Legal
    OBVIOUS
  <2>1. CASE \E r \in Moves : CommitMove(r)
    BY <2>1, CommitMoveEffect DEF Statuses, IInv, TypeOK
  <2>2. CASE \E t \in Trips : CreateTrip(t)
    BY <2>2 DEF CreateTrip, IInv, TypeOK
  <2>3. CASE UNCHANGED approval
    BY <2>3
  <2> QED
    BY StepKinds, <2>1, <2>2, <2>3
       DEF CreateAccount, Abort, Refuse, SubmitMove, GotLock, LockApproval,
           Decided, SumExpenses, Posted, PostPayment, SubmitSpend, SpendPassed,
           CommitSpend, SubmitPost, PostInserted, InsertPost, CommitPost,
           tables, vars
<1> QED BY <1>1, TravelInductive, PTL DEF Spec, OnlyLegalMoves

-----------------------------------------------------------------------------
\* A step that commits nothing shows the abstract specification nothing: an
\* expense that is recorded keeps its trip.
LEMMA NothingCommitted ==
  ASSUME UNCHANGED <<approval, expenses, ledger>>,
         \A s \in expenses : trip'[s] = trip[s]
  PROVE  UNCHANGED <<approval, Spent, Payments>>
<1>1. Spent' = Spent
  BY DEF Spent
<1>2. Payments' = Payments
  BY DEF Payments
<1> QED BY <1>1, <1>2

\* A move that does not pay decides a pending approval.
LEMMA VerdictIsDecide ==
  ASSUME IInv, NEW r \in Moves, CommitMove(r), goal[r] # "paid"
  PROVE  Promise!Decide(trip[r])
<1>1. /\ approval' = [approval EXCEPT ![trip[r]] = goal[r]]
      /\ goal[r] \in AllowedTransitions(approval[trip[r]])
  BY CommitMoveEffect
<1>2. approval[trip[r]] = "pending" /\ goal[r] \in {"approved", "rejected"}
  BY <1>1 DEF AllowedTransitions
<1>3. UNCHANGED <<Spent, Payments>>
  BY DEF CommitMove, Spent, Payments, session
<1> QED BY <1>1, <1>2, <1>3 DEF Promise!Decide

\* A move that pays pays an approved trip, for the first time and for
\* expenses of that trip.
LEMMA PaymentIsPay ==
  ASSUME IInv, NEW r \in Moves, CommitMove(r), goal[r] = "paid"
  PROVE  Promise!Pay(trip[r])
<1>1. /\ trip[r] \in Trips
      /\ approval' = [approval EXCEPT ![trip[r]] = "paid"]
      /\ approval[trip[r]] = "approved"
  BY CommitMoveEffect DEF AllowedTransitions
<1>2. /\ pc[r] = "return"
      /\ ledger' = ledger \cup {Entry(r, covers[r])}
      /\ UNCHANGED <<expenses, trip>>
  BY DEF CommitMove, session
<1>3. ~ ReferenceTaken(trip[r]) /\ covers[r] \subseteq ExpensesOf(trip[r])
  BY <1>2 DEF IInv, RefOwner, PaymentReady, Inserted
<1>4. \A p \in Payments : p.trip # trip[r]
  BY <1>3 DEF Payments, ReferenceTaken
<1>5. covers[r] \in SUBSET Promise!SpentOn(trip[r])
  BY <1>3 DEF Promise!SpentOn, Spent, ExpensesOf, IInv, TypeOK
<1>6. Payments' = Payments \cup {[trip |-> trip[r], covers |-> covers[r]]}
  <2>1. /\ Entry(r, covers[r]).by = r
        /\ Entry(r, covers[r]).ref = trip[r]
        /\ Entry(r, covers[r]).covers = covers[r]
    BY DEF Entry
  <2> QED BY <1>2, <2>1 DEF Payments
<1>7. Spent' = Spent
  BY <1>2 DEF Spent
<1> QED BY <1>1, <1>4, <1>5, <1>6, <1>7 DEF Promise!Pay

\* An expense is recorded once, on a trip that is approved or paid.
LEMMA ExpenseIsSpend ==
  ASSUME IInv, NEW s \in Spends, CommitSpend(s)
  PROVE  trip[s] \in Trips /\ Promise!Spend(trip[s], s)
<1>1. /\ pc[s] = "insert" /\ expenses' = expenses \cup {s}
      /\ UNCHANGED <<approval, ledger, trip>>
  BY DEF CommitSpend, session
<1>2. trip[s] \in Trips /\ approval[trip[s]] \in {"approved", "paid"}
  BY <1>1 DEF IInv, OwnTrip, SpendChecked, Spendable
<1>3. s \notin expenses
  BY <1>1 DEF IInv, SpendChecked
<1>4. \A u \in Trips : <<u, s>> \notin Spent
  BY <1>3 DEF Spent
<1>5. Spent' = Spent \cup {<<trip[s], s>>} /\ Payments' = Payments
  BY <1>1 DEF Spent, Payments
<1> QED BY <1>1, <1>2, <1>4, <1>5 DEF Promise!Spend

\* Every commit is one step of the abstract specification, and everything
\* else is none.
LEMMA ReimbursementStep ==
  ASSUME IInv, [Next]_vars
  PROVE  Promise!Next \/ UNCHANGED <<approval, Spent, Payments>>
<1> DEFINE Goal == Promise!Next \/ UNCHANGED <<approval, Spent, Payments>>
<1>1. \A r \in Requests : pc[r] = "new" => r \notin expenses
  BY DEF IInv, SpendChecked
<1>2. ASSUME NEW t \in Trips, CreateTrip(t) PROVE Goal
  <2>1. UNCHANGED <<Spent, Payments>>
    BY <1>2 DEF CreateTrip, session, Spent, Payments
  <2>2. Promise!Open(t)
    BY <1>2, <2>1 DEF CreateTrip, Promise!Open
  <2> QED BY <2>2 DEF Promise!Next
<1>3. ASSUME NEW r \in Moves, CommitMove(r) PROVE Goal
  BY <1>3, VerdictIsDecide, PaymentIsPay, CommitMoveEffect DEF Promise!Next
<1>4. ASSUME NEW s \in Spends, CommitSpend(s) PROVE Goal
  BY <1>4, ExpenseIsSpend DEF Promise!Next
<1>5. ASSUME NEW b \in Posts, CommitPost(b) PROVE Goal
  <2>1. UNCHANGED <<approval, expenses, trip>>
    BY <1>5 DEF CommitPost, session
  <2>2. Spent' = Spent
    BY <2>1 DEF Spent
  <2>3. {y \in ledger' : y.by \in Moves} = {y \in ledger : y.by \in Moves}
    BY <1>5, TravelAssumption DEF CommitPost
  <2> QED BY <2>1, <2>2, <2>3 DEF Payments
<1>6. ASSUME NEW r \in Requests, SubmitMove(r) \/ SubmitSpend(r) \/ SubmitPost(r)
      PROVE  Goal
  <2>1. UNCHANGED <<approval, expenses, ledger>>
    BY <1>6 DEF SubmitMove, SubmitSpend, SubmitPost, tables
  <2>2. \A s \in expenses : trip'[s] = trip[s]
    BY <1>1, <1>6 DEF SubmitMove, SubmitSpend, SubmitPost, IInv, TypeOK
  <2> QED BY <2>1, <2>2, NothingCommitted
<1>7. ASSUME UNCHANGED <<approval, expenses, ledger, trip>> PROVE Goal
  BY <1>7, NothingCommitted
<1> QED
  BY StepKinds, <1>2, <1>3, <1>4, <1>5, <1>6, <1>7
     DEF CreateAccount, Abort, Refuse, GotLock, LockApproval, Decided,
         SumExpenses, Posted, PostPayment, SpendPassed, PostInserted,
         InsertPost, tables, session, vars

\* Trips are reimbursed as Reimbursement.tla promises, for any number of
\* trips, reviewers, expenses and journal entries under a payment's reference.
THEOREM TravelImplementsReimbursement == Spec => ImplementsReimbursement
<1>1. Init => Promise!Init
  BY DEF Init, Promise!Init, Spent, Payments
<1>2. IInv /\ [Next]_vars => [Promise!Next]_(Promise!reimbursement)
  BY ReimbursementStep DEF Promise!reimbursement
<1> QED BY <1>1, <1>2, TravelInductive, PTL
        DEF Spec, ImplementsReimbursement, Promise!Spec
=============================================================================
