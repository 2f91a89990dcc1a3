------------------------------- MODULE Travel -------------------------------
(***************************************************************************)
(* Trips, their approval and their reimbursement                           *)
(* (src/reckonflow/services/travel.py, with the ledger posting of          *)
(* services/ledger.py), on PostgreSQL, READ COMMITTED.  Reviewers move     *)
(* approvals, employees attach expenses, a bookkeeper opens accounts and   *)
(* posts journal entries of his own.                                       *)
(*                                                                         *)
(* Amounts are abstracted by what they add up: a payment records the set   *)
(* of expenses its SUM saw, and the empty set stands for the estimate.     *)
(* That a response may leave before the commit is Reconciliation's         *)
(* subject; here a request ends with its commit.                           *)
(***************************************************************************)
EXTENDS FiniteSets

CONSTANTS
    Trips,           \* ids of travel_requests rows, and of their approvals
    Moves,           \* POST /approvals/{id}/transition calls
    Spends,          \* POST /expenses calls that name a trip
    Posts,           \* POST /ledger/transactions calls with a PAY-... reference
    Currencies,
    NONE

Requests == Moves \cup Spends \cup Posts

ASSUME TravelAssumption ==
    /\ Moves \cap Spends = {} /\ Moves \cap Posts = {} /\ Spends \cap Posts = {}
    /\ NONE \notin Trips \cup Requests \cup Currencies

VARIABLES
    approval,        \* approvals.status, "absent" before the trip exists
    tripCurrency,    \* travel_requests.currency
    account,         \* accounts.currency of CASH and TRAVEL
    expenses,        \* the Spends whose expenses row is committed
    ledger,          \* committed transactions: their PAY- reference, the request
                     \* that posted it, what it covers, its currency
    approvalLock,    \* the request that holds the approval's row lock
    pendingRef,      \* the request with an uncommitted row of that reference
    pc,
    trip,            \* the trip a request is about
    goal,            \* a move's target status
    seen,            \* a move's copy of the approval's status
    covers,          \* the expenses a payment's SUM added up
    dueAtLock        \* history: the trip's expenses when the move got its lock

tables == <<approval, tripCurrency, account, expenses, ledger>>
locks == <<approvalLock, pendingRef>>
session == <<trip, goal, seen, covers, dueAtLock>>
vars == <<tables, locks, pc, session>>

Statuses == {"pending", "approved", "rejected", "paid"}
Codes == {"CASH", "TRAVEL"}
Places == {"new", "lock", "decide", "sum", "post", "check", "insert",
           "return", "closed"}

\* The reviewer decides once, and only what was approved is paid.
AllowedWithRevoke(status) ==
    CASE status = "pending" -> {"approved", "rejected"}
      [] status = "approved" -> {"paid", "rejected"}
      [] OTHER -> {}

AllowedTransitions(status) ==
    CASE status = "pending" -> {"approved", "rejected"}
      [] status = "approved" -> {"paid"}
      [] OTHER -> {}

Spendable == {"approved", "paid"}

ExpensesOf(t) == {s \in expenses : trip[s] = t}

Init ==
    /\ approval = [t \in Trips |-> "absent"]
    /\ tripCurrency = [t \in Trips |-> NONE]
    /\ account = [c \in Codes |-> NONE]
    /\ expenses = {}
    /\ ledger = {}
    /\ approvalLock = [t \in Trips |-> NONE]
    /\ pendingRef = [t \in Trips |-> NONE]
    /\ pc = [r \in Requests |-> "new"]
    /\ trip = [r \in Requests |-> NONE]
    /\ goal = [r \in Moves |-> "paid"]
    /\ seen = [r \in Moves |-> "absent"]
    /\ covers = [r \in Moves |-> {}]
    /\ dueAtLock = [r \in Moves |-> {}]

-----------------------------------------------------------------------------
GoTo(r, place) == pc' = [pc EXCEPT ![r] = place]

FreeLocks(r) ==
    /\ approvalLock' = [t \in Trips |->
                          IF approvalLock[t] = r THEN NONE ELSE approvalLock[t]]
    /\ pendingRef' = [t \in Trips |->
                          IF pendingRef[t] = r THEN NONE ELSE pendingRef[t]]

\* An error, or a lost connection, ends the request; the database rolls back.
Refuse(r) ==
    /\ FreeLocks(r)
    /\ GoTo(r, "closed")
    /\ UNCHANGED <<tables, session>>

Crash(r) ==
    /\ pc[r] \notin {"new", "closed"}
    /\ Refuse(r)

\* The request and its pending approval are one unit of work.
CreateTripAsDraft(t) ==
    /\ approval[t] = "absent"
    /\ approval' = [approval EXCEPT ![t] = "draft"]
    /\ \E c \in Currencies : tripCurrency' = [tripCurrency EXCEPT ![t] = c]
    /\ UNCHANGED <<account, expenses, ledger, locks, pc, session>>

CreateTrip(t) ==
    /\ approval[t] = "absent"
    /\ approval' = [approval EXCEPT ![t] = "pending"]
    /\ \E c \in Currencies : tripCurrency' = [tripCurrency EXCEPT ![t] = c]
    /\ UNCHANGED <<account, expenses, ledger, locks, pc, session>>

\* A code that is taken is a 409; an account keeps its currency.
CreateAccount(code) ==
    /\ account[code] = NONE
    /\ \E c \in Currencies : account' = [account EXCEPT ![code] = c]
    /\ UNCHANGED <<approval, tripCurrency, expenses, ledger, locks, pc, session>>

-----------------------------------------------------------------------------
(* transition_approval                                                     *)

SubmitMove(r) ==
    /\ pc[r] = "new"
    /\ \E t \in Trips, g \in {"approved", "rejected", "paid"} :
         /\ trip' = [trip EXCEPT ![r] = t]
         /\ goal' = [goal EXCEPT ![r] = g]
    /\ GoTo(r, "lock")
    /\ UNCHANGED <<tables, locks, seen, covers, dueAtLock>>

LockApprovalUnlocked(r) ==
    /\ pc[r] = "lock"
    /\ approval[trip[r]] # "absent"
    /\ seen' = [seen EXCEPT ![r] = approval[trip[r]]]
    /\ dueAtLock' = [dueAtLock EXCEPT ![r] = ExpensesOf(trip[r])]
    /\ GoTo(r, "decide")
    /\ UNCHANGED <<tables, locks, trip, goal, covers>>

\* SELECT ... FOR UPDATE; an unknown approval is a 404.
LockApproval(r) ==
    /\ pc[r] = "lock"
    /\ IF approval[trip[r]] = "absent"
       THEN Refuse(r)
       ELSE /\ approvalLock[trip[r]] = NONE
            /\ approvalLock' = [approvalLock EXCEPT ![trip[r]] = r]
            /\ seen' = [seen EXCEPT ![r] = approval[trip[r]]]
            /\ dueAtLock' = [dueAtLock EXCEPT ![r] = ExpensesOf(trip[r])]
            /\ GoTo(r, "decide")
            /\ UNCHANGED <<tables, pendingRef, trip, goal, covers>>

\* An illegal move is a 409; a payment first has to find its two accounts.
Decide(r) ==
    /\ pc[r] = "decide"
    /\ IF goal[r] \notin AllowedTransitions(seen[r])
            \/ (goal[r] = "paid" /\ \E c \in Codes : account[c] = NONE)
       THEN Refuse(r)
       ELSE /\ GoTo(r, IF goal[r] = "paid" THEN "sum" ELSE "return")
            /\ UNCHANGED <<tables, locks, session>>

SumForgotten(r) ==
    /\ pc[r] = "sum"
    /\ GoTo(r, "post")
    /\ UNCHANGED <<tables, locks, session>>

\* SELECT SUM(amount): no lock keeps further expenses out.
SumExpenses(r) ==
    /\ pc[r] = "sum"
    /\ covers' = [covers EXCEPT ![r] = ExpensesOf(trip[r])]
    /\ GoTo(r, "post")
    /\ UNCHANGED <<tables, locks, trip, goal, seen, dueAtLock>>

CurrencyMismatch(t) == \E c \in Codes : account[c] # tripCurrency[t]

ReferenceTaken(t) == \E x \in ledger : x.ref = t

\* create_balanced_transaction: a currency mismatch is a 422, a reference that
\* is taken a 500; one that another transaction is inserting is waited for.
PostPayment(r) ==
    /\ pc[r] = "post"
    /\ IF CurrencyMismatch(trip[r]) \/ ReferenceTaken(trip[r])
       THEN Refuse(r)
       ELSE /\ pendingRef[trip[r]] = NONE
            /\ pendingRef' = [pendingRef EXCEPT ![trip[r]] = r]
            /\ GoTo(r, "return")
            /\ UNCHANGED <<tables, approvalLock, session>>

Entry(r, covered) ==
    [ref |-> trip[r], by |-> r, covers |-> covered, currency |-> tripCurrency[trip[r]]]

CommitMoveWithoutEntry(r) ==
    /\ pc[r] = "return"
    /\ approval' = [approval EXCEPT ![trip[r]] = goal[r]]
    /\ FreeLocks(r)
    /\ GoTo(r, "closed")
    /\ UNCHANGED <<tripCurrency, account, expenses, ledger, session>>

\* The ledger entries and the new status become visible together.
CommitMove(r) ==
    /\ pc[r] = "return"
    /\ approval' = [approval EXCEPT ![trip[r]] = goal[r]]
    /\ ledger' = IF goal[r] = "paid" THEN ledger \cup {Entry(r, covers[r])}
                                     ELSE ledger
    /\ FreeLocks(r)
    /\ GoTo(r, "closed")
    /\ UNCHANGED <<tripCurrency, account, expenses, session>>

-----------------------------------------------------------------------------
(* create_expense                                                          *)

SubmitSpend(s) ==
    /\ pc[s] = "new"
    /\ \E t \in Trips : trip' = [trip EXCEPT ![s] = t]
    /\ GoTo(s, "check")
    /\ UNCHANGED <<tables, locks, goal, seen, covers, dueAtLock>>

\* The trip is read without a lock: an unknown or undecided trip, or another
\* currency than the trip's, is refused.
CheckTrip(s) ==
    /\ pc[s] = "check"
    /\ \/ /\ approval[trip[s]] \in Spendable
          /\ GoTo(s, "insert")
          /\ UNCHANGED <<tables, locks, session>>
       \/ Refuse(s)

CommitSpend(s) ==
    /\ pc[s] = "insert"
    /\ expenses' = expenses \cup {s}
    /\ GoTo(s, "closed")
    /\ UNCHANGED <<approval, tripCurrency, account, ledger, locks, session>>

-----------------------------------------------------------------------------
(* A journal entry posted through the API under a reference of the form    *)
(* PAY-<approval id>, which nothing reserves.                              *)

SubmitPost(b) ==
    /\ pc[b] = "new"
    /\ \E t \in Trips : trip' = [trip EXCEPT ![b] = t]
    /\ GoTo(b, "insert")
    /\ UNCHANGED <<tables, locks, goal, seen, covers, dueAtLock>>

InsertPost(b) ==
    /\ pc[b] = "insert"
    /\ IF ReferenceTaken(trip[b])
       THEN Refuse(b)
       ELSE /\ pendingRef[trip[b]] = NONE
            /\ pendingRef' = [pendingRef EXCEPT ![trip[b]] = b]
            /\ GoTo(b, "return")
            /\ UNCHANGED <<tables, approvalLock, session>>

\* The accounts it uses are none of this module's.
CommitPost(b) ==
    /\ pc[b] = "return"
    /\ ledger' = ledger \cup
         {[ref |-> trip[b], by |-> b, covers |-> {}, currency |-> NONE]}
    /\ FreeLocks(b)
    /\ GoTo(b, "closed")
    /\ UNCHANGED <<approval, tripCurrency, account, expenses, session>>

-----------------------------------------------------------------------------
HandleMove(r) ==
    \/ LockApproval(r) \/ Decide(r) \/ SumExpenses(r) \/ PostPayment(r)
    \/ CommitMove(r)

HandleSpend(s) == CheckTrip(s) \/ CommitSpend(s)

HandlePost(b) == InsertPost(b) \/ CommitPost(b)

Next ==
    \/ \E t \in Trips : CreateTrip(t)
    \/ \E c \in Codes : CreateAccount(c)
    \/ \E r \in Moves : SubmitMove(r) \/ HandleMove(r) \/ Crash(r)
    \/ \E s \in Spends : SubmitSpend(s) \/ HandleSpend(s) \/ Crash(s)
    \/ \E b \in Posts : SubmitPost(b) \/ HandlePost(b) \/ Crash(b)
    \/ (\A r \in Requests : pc[r] = "closed") /\ UNCHANGED vars

Spec == Init /\ [][Next]_vars

-----------------------------------------------------------------------------
(* Properties                                                              *)

TypeOK ==
    /\ approval \in [Trips -> Statuses \cup {"absent"}]
    /\ tripCurrency \in [Trips -> Currencies \cup {NONE}]
    /\ account \in [Codes -> Currencies \cup {NONE}]
    /\ expenses \subseteq Spends
    /\ ledger \subseteq [ref : Trips, by : Moves \cup Posts,
                         covers : SUBSET Spends,
                         currency : Currencies \cup {NONE}]
    /\ approvalLock \in [Trips -> Moves \cup {NONE}]
    /\ pendingRef \in [Trips -> Moves \cup Posts \cup {NONE}]
    /\ pc \in [Requests -> Places]
    /\ trip \in [Requests -> Trips \cup {NONE}]
    /\ goal \in [Moves -> {"approved", "rejected", "paid"}]
    /\ seen \in [Moves -> Statuses \cup {"absent"}]
    /\ covers \in [Moves -> SUBSET Spends]
    /\ dueAtLock \in [Moves -> SUBSET Spends]

\* "Two reviewers cannot both succeed from the same starting state": what is
\* committed is always one legal edge from what was committed before, so
\* nobody's decision is overwritten and nothing is paid that was rejected.
OnlyLegalMoves ==
    [][\A t \in Trips : approval'[t] # approval[t] =>
         IF approval[t] = "absent" THEN approval'[t] = "pending"
         ELSE approval'[t] \in AllowedTransitions(approval[t])]_vars

\* A trip is paid exactly when a payment for it stands in the ledger, under
\* every interleaving and crash: no status without money, no money without
\* status.
PaidIffPosted ==
    \A t \in Trips :
      approval[t] = "paid" <=> \E x \in ledger : x.ref = t /\ x.by \in Moves

\* The reference of a payment is used once: no second payment, and no payment
\* beside a journal entry that took its reference first.
ReferenceUsedOnce ==
    \A x, y \in ledger : x.ref = y.ref => x = y

\* The unlocked check of create_expense is safe: an expense is only ever
\* attached to a trip that is approved or paid, however old the check is.
SpendAfterApproval ==
    \A s \in expenses : approval[trip[s]] \in Spendable

\* A payment covers every expense that was committed when its request got the
\* approval, and nothing that is not an expense of its trip.  What it leaves
\* out was attached later.
PaymentCoversSpend ==
    \A x \in ledger : x.by \in Moves =>
      dueAtLock[x.by] \subseteq x.covers /\ x.covers \subseteq ExpensesOf(x.ref)

\* A payment is posted in the currency of its trip and of both accounts.
PaymentCurrency ==
    \A x \in ledger : x.by \in Moves =>
      /\ x.currency = tripCurrency[x.ref]
      /\ \A c \in Codes : account[c] = x.currency

Spent == {<<trip[s], s>> : s \in expenses}
Payments == {[trip |-> x.ref, covers |-> x.covers] : x \in {y \in ledger : y.by \in Moves}}

Promise == INSTANCE Reimbursement WITH
    Expenses <- Spends, status <- approval, spent <- Spent, payments <- Payments

\* Reviewers, payments and expenses that overlap, wait or die commit what
\* Reimbursement.tla promises: a trip is decided once, spent on only when it
\* was approved, and paid once, together with its status.
ImplementsReimbursement == Promise!Spec
=============================================================================
