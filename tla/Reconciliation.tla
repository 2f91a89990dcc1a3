--------------------------- MODULE Reconciliation ---------------------------
(***************************************************************************)
(* Confirming and auto-matching expenses against bank lines                *)
(* (src/reckonflow/services/reconciliation.py) on PostgreSQL, READ         *)
(* COMMITTED.  A request is one HTTP call with its own session and         *)
(* transaction: the tables below hold what is committed, a request holds   *)
(* the row locks it took and the copies its session read.                  *)
(*                                                                         *)
(* The session's identity map: a row the session already holds is NOT      *)
(* refreshed by a later SELECT ... FOR UPDATE of the same row, so an       *)
(* auto-match keeps what its suggestion phase read, while a reviewer's     *)
(* confirm reads each row for the first time under the lock.               *)
(***************************************************************************)
CONSTANTS
    Expenses, Lines,    \* the ids of the expenses and bank_transactions rows
    Confirms,           \* reviewers' POST /expenses/{id}/match calls
    Autos,              \* POST /expenses/{id}/auto-match calls
    ReplyFirst,         \* TRUE: get_db's commit runs after the response is
                        \* sent, which is what the installed FastAPI does
    NONE

Requests == Confirms \cup Autos

ASSUME ReconciliationAssumption ==
    /\ Confirms \cap Autos = {}
    /\ NONE \notin Expenses \cup Lines \cup Requests
    /\ ReplyFirst \in BOOLEAN

VARIABLES
    expenseStatus,      \* expenses.match_status, "absent" before the INSERT
    lineStatus,         \* bank_transactions.match_status
    matchedExpense,     \* bank_transactions.matched_expense_id
    expenseLock,        \* the request that holds the row lock, or NONE
    lineLock,
    pc,                 \* where the request's handler stands
    target,             \* the request's expense
    line,               \* the request's bank line, once it has one
    seenStatus,         \* its session's copy of target's match_status
    seenMatch,          \* its session's copy of line's matched_expense_id
    answer,             \* the response the client got
    committed           \* history: requests whose link has been committed

tables == <<expenseStatus, lineStatus, matchedExpense>>
locks == <<expenseLock, lineLock>>
session == <<target, line, seenStatus, seenMatch>>
vars == <<tables, locks, pc, session, answer, committed>>

MatchStatus == {"unmatched", "pending_review", "matched"}
OpenStatuses == {"unmatched", "pending_review"}
Answers == {"none", "matched", "pending_review",
            "not_found", "conflict", "server_error"}
Places == {"new", "load", "pick", "lockExpense", "lockLine", "decide",
           "park", "linked", "parked", "closed"}

Init ==
    /\ expenseStatus = [e \in Expenses |-> "absent"]
    /\ lineStatus = [l \in Lines |-> "absent"]
    /\ matchedExpense = [l \in Lines |-> NONE]
    /\ expenseLock = [e \in Expenses |-> NONE]
    /\ lineLock = [l \in Lines |-> NONE]
    /\ pc = [r \in Requests |-> "new"]
    /\ target = [r \in Requests |-> NONE]
    /\ line = [r \in Requests |-> NONE]
    /\ seenStatus = [r \in Requests |-> "absent"]
    /\ seenMatch = [r \in Requests |-> NONE]
    /\ answer = [r \in Requests |-> "none"]
    /\ committed = {}

-----------------------------------------------------------------------------
(* Rows appear: an expense is recorded, a statement is imported.           *)

CreateExpense(e) ==
    /\ expenseStatus[e] = "absent"
    /\ expenseStatus' = [expenseStatus EXCEPT ![e] = "unmatched"]
    /\ UNCHANGED <<lineStatus, matchedExpense, locks, pc, session, answer,
                   committed>>

ImportLine(l) ==
    /\ lineStatus[l] = "absent"
    /\ lineStatus' = [lineStatus EXCEPT ![l] = "unmatched"]
    /\ UNCHANGED <<expenseStatus, matchedExpense, locks, pc, session, answer,
                   committed>>

-----------------------------------------------------------------------------
(* Steps shared by both kinds of request.                                  *)

GoTo(r, place) == pc' = [pc EXCEPT ![r] = place]

FreeLocks(r) ==
    /\ expenseLock' = [e \in Expenses |->
                         IF expenseLock[e] = r THEN NONE ELSE expenseLock[e]]
    /\ lineLock' = [l \in Lines |->
                         IF lineLock[l] = r THEN NONE ELSE lineLock[l]]

RefuseKeepingLocks(r, code) ==
    /\ GoTo(r, "closed")
    /\ answer' = [answer EXCEPT ![r] = code]
    /\ UNCHANGED <<tables, locks, session, committed>>

\* The handler raises: get_db rolls back, the error handler answers.
Refuse(r, code) ==
    /\ FreeLocks(r)
    /\ GoTo(r, "closed")
    /\ answer' = [answer EXCEPT ![r] = code]
    /\ UNCHANGED <<tables, session, committed>>

\* The process dies or loses its database connection: PostgreSQL rolls the
\* transaction back.
Crash(r) ==
    /\ pc[r] \notin {"new", "closed"}
    /\ FreeLocks(r)
    /\ GoTo(r, "closed")
    /\ UNCHANGED <<tables, session, answer, committed>>

-----------------------------------------------------------------------------
(* A reviewer's confirm and the first half of an auto-match.               *)

SubmitConfirm(r) ==
    /\ r \in Confirms
    /\ pc[r] = "new"
    /\ \E e \in Expenses, l \in Lines :
         /\ target' = [target EXCEPT ![r] = e]
         /\ line' = [line EXCEPT ![r] = l]
    /\ GoTo(r, "lockExpense")
    /\ UNCHANGED <<tables, locks, seenStatus, seenMatch, answer, committed>>

SubmitAuto(r) ==
    /\ r \in Autos
    /\ pc[r] = "new"
    /\ \E e \in Expenses : target' = [target EXCEPT ![r] = e]
    /\ GoTo(r, "load")
    /\ UNCHANGED <<tables, locks, line, seenStatus, seenMatch, answer,
                   committed>>

\* suggest_matches reads the expense without a lock.
Load(r) ==
    /\ pc[r] = "load"
    /\ IF expenseStatus[target[r]] = "absent"
       THEN Refuse(r, "not_found")
       ELSE /\ seenStatus' =
                 [seenStatus EXCEPT ![r] = expenseStatus[target[r]]]
            /\ GoTo(r, "pick")
            /\ UNCHANGED <<tables, locks, target, line, seenMatch, answer,
                           committed>>

\* The prefilter's SELECT.  Currency, date and amount, and the scores that
\* rank the survivors, are left to the choice Pick makes.
Candidates ==
    {l \in Lines : matchedExpense[l] = NONE /\ lineStatus[l] \in OpenStatuses}

\* Exactly one candidate clears every gate and is claimed, or none is safe.
Pick(r) ==
    /\ pc[r] = "pick"
    /\ \/ \E l \in Candidates :
            /\ line' = [line EXCEPT ![r] = l]
            /\ seenMatch' = [seenMatch EXCEPT ![r] = matchedExpense[l]]
            /\ GoTo(r, "lockExpense")
       \/ /\ GoTo(r, "park")
          /\ UNCHANGED <<line, seenMatch>>
    /\ UNCHANGED <<tables, locks, target, seenStatus, answer, committed>>

-----------------------------------------------------------------------------
(* confirm_match                                                           *)

LockExpenseUnlocked(r) ==
    /\ pc[r] = "lockExpense"
    /\ expenseStatus[target[r]] # "absent"
    /\ seenStatus' = [seenStatus EXCEPT ![r] =
                        IF r \in Autos THEN @ ELSE expenseStatus[target[r]]]
    /\ GoTo(r, "lockLine")
    /\ UNCHANGED <<tables, locks, target, line, seenMatch, answer, committed>>

\* SELECT ... FOR UPDATE on the expense; only a session that has not read the
\* row yet takes over what it finds.
LockExpense(r) ==
    /\ pc[r] = "lockExpense"
    /\ IF expenseStatus[target[r]] = "absent"
       THEN Refuse(r, "not_found")
       ELSE /\ expenseLock[target[r]] = NONE
            /\ expenseLock' = [expenseLock EXCEPT ![target[r]] = r]
            /\ seenStatus' = [seenStatus EXCEPT ![r] =
                        IF r \in Autos THEN @ ELSE expenseStatus[target[r]]]
            /\ GoTo(r, "lockLine")
            /\ UNCHANGED <<tables, lineLock, target, line, seenMatch, answer,
                           committed>>

LockLineEarly(r) ==
    /\ pc[r] \in {"lockExpense", "lockLine"}
    /\ lineStatus[line[r]] # "absent"
    /\ lineLock[line[r]] \in (IF pc[r] = "lockLine" THEN {NONE, r} ELSE {NONE})
    /\ lineLock' = [lineLock EXCEPT ![line[r]] = r]
    /\ seenMatch' = [seenMatch EXCEPT ![r] =
                        IF r \in Autos THEN @ ELSE matchedExpense[line[r]]]
    /\ GoTo(r, IF pc[r] = "lockLine" THEN "decide" ELSE pc[r])
    /\ UNCHANGED <<tables, expenseLock, target, line, seenStatus, answer,
                   committed>>

LockLineUnlocked(r) ==
    /\ pc[r] = "lockLine"
    /\ lineStatus[line[r]] # "absent"
    /\ seenMatch' = [seenMatch EXCEPT ![r] =
                        IF r \in Autos THEN @ ELSE matchedExpense[line[r]]]
    /\ GoTo(r, "decide")
    /\ UNCHANGED <<tables, locks, target, line, seenStatus, answer, committed>>

\* SELECT ... FOR UPDATE on the bank line, after the expense.
LockLine(r) ==
    /\ pc[r] = "lockLine"
    /\ IF lineStatus[line[r]] = "absent"
       THEN Refuse(r, "not_found")
       ELSE /\ lineLock[line[r]] = NONE
            /\ lineLock' = [lineLock EXCEPT ![line[r]] = r]
            /\ seenMatch' = [seenMatch EXCEPT ![r] =
                        IF r \in Autos THEN @ ELSE matchedExpense[line[r]]]
            /\ GoTo(r, "decide")
            /\ UNCHANGED <<tables, expenseLock, target, line, seenStatus,
                           answer, committed>>

\* UNIQUE (matched_expense_id): another line already carries the expense.
\* Whoever gives a line the same expense holds the expense's lock, so no
\* uncommitted value can be in the way; but q's uncommitted UPDATE may be
\* taking the expense from that line, and then the index waits for q.
LinkedElsewhere(r) ==
    \E k \in Lines \ {line[r]} : matchedExpense[k] = target[r]

Unlinks(q, r) ==
    /\ pc[q] = "linked"
    /\ line[q] # line[r]
    /\ matchedExpense[line[q]] = target[r]

OnlyLineConflict(r) == seenMatch[r] \notin {NONE, target[r]}

CheckedConflict(r) ==
    \/ seenMatch[r] \notin {NONE, target[r]}
    \/ seenStatus[r] = "matched"

DecideWithoutUnique(r) ==
    /\ pc[r] = "decide"
    /\ IF CheckedConflict(r)
       THEN Refuse(r, "conflict")
       ELSE /\ GoTo(r, "linked")
            /\ UNCHANGED <<tables, locks, session, answer, committed>>

\* The two conflict checks on the session's copies, then the flush.
Decide(r) ==
    /\ pc[r] = "decide"
    /\ IF CheckedConflict(r)
       THEN Refuse(r, "conflict")
       ELSE IF LinkedElsewhere(r)
       THEN /\ \A q \in Requests : ~Unlinks(q, r)
            /\ Refuse(r, "server_error")
       ELSE /\ GoTo(r, "linked")
            /\ UNCHANGED <<tables, locks, session, answer, committed>>

-----------------------------------------------------------------------------
(* flag_for_review: no lock of its own and no look at the current status;  *)
(* the UPDATE is only issued, and only locks, when the session's copy of   *)
(* the status is another one.                                              *)

ParkWrites(r) == seenStatus[r] # "pending_review"

Park(r) ==
    /\ pc[r] = "park"
    /\ GoTo(r, "parked")
    /\ IF ParkWrites(r)
       THEN /\ expenseLock[target[r]] = NONE
            /\ expenseLock' = [expenseLock EXCEPT ![target[r]] = r]
       ELSE UNCHANGED expenseLock
    /\ UNCHANGED <<tables, lineLock, session, answer, committed>>

-----------------------------------------------------------------------------
(* The end of the request: the 200 and get_db's commit.                    *)

Body(r) == IF pc[r] = "linked" THEN "matched" ELSE "pending_review"

Reply(r) ==
    /\ ReplyFirst
    /\ pc[r] \in {"linked", "parked"}
    /\ answer[r] = "none"
    /\ answer' = [answer EXCEPT ![r] = Body(r)]
    /\ UNCHANGED <<tables, locks, pc, session, committed>>

WriteLinkForgettingExpense(r) ==
    /\ matchedExpense' = [matchedExpense EXCEPT ![line[r]] = target[r]]
    /\ lineStatus' = [lineStatus EXCEPT ![line[r]] = "matched"]
    /\ committed' = committed \cup {r}
    /\ UNCHANGED expenseStatus

WriteLink(r) ==
    /\ matchedExpense' = [matchedExpense EXCEPT ![line[r]] = target[r]]
    /\ lineStatus' = [lineStatus EXCEPT ![line[r]] = "matched"]
    /\ expenseStatus' = [expenseStatus EXCEPT ![target[r]] = "matched"]
    /\ committed' = committed \cup {r}

WriteParkMisspelt(r) ==
    /\ expenseStatus' = [expenseStatus EXCEPT ![target[r]] = "parked"]
    /\ UNCHANGED <<lineStatus, matchedExpense, committed>>

WritePark(r) ==
    /\ expenseStatus' = IF ParkWrites(r)
                        THEN [expenseStatus EXCEPT ![target[r]] = "pending_review"]
                        ELSE expenseStatus
    /\ UNCHANGED <<lineStatus, matchedExpense, committed>>

Commit(r) ==
    /\ \/ pc[r] = "linked" /\ WriteLink(r)
       \/ pc[r] = "parked" /\ WritePark(r)
    /\ ReplyFirst => answer[r] # "none"
    /\ answer' = [answer EXCEPT ![r] = Body(r)]
    /\ FreeLocks(r)
    /\ GoTo(r, "closed")
    /\ UNCHANGED session

-----------------------------------------------------------------------------
Handle(r) ==
    \/ Load(r) \/ Pick(r)
    \/ LockExpense(r) \/ LockLine(r) \/ Decide(r)
    \/ Park(r)
    \/ Reply(r) \/ Commit(r)

Finished ==
    /\ \A r \in Requests : pc[r] = "closed"
    /\ UNCHANGED vars

Next ==
    \/ \E e \in Expenses : CreateExpense(e)
    \/ \E l \in Lines : ImportLine(l)
    \/ \E r \in Requests :
         SubmitConfirm(r) \/ SubmitAuto(r) \/ Handle(r) \/ Crash(r)
    \/ Finished

\* A submitted request is driven to its end by the event loop; PostgreSQL
\* hands a freed row lock to a waiter.
Fairness == \A r \in Requests : WF_vars(Handle(r))

Spec == Init /\ [][Next]_vars

FairSpec == Spec /\ Fairness

-----------------------------------------------------------------------------
(* Properties of every mix of confirms and auto-matches                    *)

TypeOK ==
    /\ expenseStatus \in [Expenses -> MatchStatus \cup {"absent"}]
    /\ lineStatus \in [Lines -> MatchStatus \cup {"absent"}]
    /\ matchedExpense \in [Lines -> Expenses \cup {NONE}]
    /\ expenseLock \in [Expenses -> Requests \cup {NONE}]
    /\ lineLock \in [Lines -> Requests \cup {NONE}]
    /\ pc \in [Requests -> Places]
    /\ target \in [Requests -> Expenses \cup {NONE}]
    /\ line \in [Requests -> Lines \cup {NONE}]
    /\ seenStatus \in [Requests -> MatchStatus \cup {"absent"}]
    /\ seenMatch \in [Requests -> Expenses \cup {NONE}]
    /\ answer \in [Requests -> Answers]
    /\ committed \subseteq Requests

\* However confirms and auto-matches interleave, no two bank lines end up
\* reconciled with the same expense: the row locks and the UNIQUE constraint
\* on matched_expense_id together, for neither stops it alone.
OneLinePerExpense ==
    \A k, l \in Lines :
      matchedExpense[k] = matchedExpense[l] /\ k # l => matchedExpense[k] = NONE

\* The two rows of a match never tell different stories to the prefilter and
\* to the reviewer queue: a line is "matched" exactly when it carries an
\* expense, and that expense has left "unmatched".
RowsAgree ==
    \A l \in Lines :
      /\ (matchedExpense[l] # NONE) <=> (lineStatus[l] = "matched")
      /\ matchedExpense[l] # NONE =>
           expenseStatus[matchedExpense[l]] \in {"matched", "pending_review"}

\* What confirm_match's checks looked at still holds when it writes: between
\* a reviewer's check and its commit nobody changes either row.
ReviewersDecideOnFreshRows ==
    \A r \in Confirms :
      pc[r] \in {"decide", "linked"} =>
        /\ seenStatus[r] = expenseStatus[target[r]]
        /\ seenMatch[r] = matchedExpense[line[r]]

WaitsFor(r, q) ==
    \/ /\ \/ pc[r] = "lockExpense" /\ expenseStatus[target[r]] # "absent"
          \/ pc[r] = "park" /\ ParkWrites(r)
       /\ expenseLock[target[r]] = q
    \/ /\ pc[r] = "lockLine" /\ lineStatus[line[r]] # "absent"
       /\ lineLock[line[r]] = q
    \/ pc[r] = "decide" /\ ~CheckedConflict(r) /\ Unlinks(q, r)

\* No deadlock ("expense first"): a wait ends in a request that runs, after at
\* most two other waiting requests: one for the expense, one for the line, one
\* for the unique index.  A cycle of waits would give chains of any length.
WaitChainsEnd ==
    \A a, b \in Requests : WaitsFor(a, b) =>
      \A c \in Requests : WaitsFor(b, c) =>
        \A d \in Requests : WaitsFor(c, d) =>
          \A e \in Requests : ~WaitsFor(d, e)

\* A link is never cleared, and a reviewer's confirm never takes a bank line
\* from the expense it was reconciled with; only an auto-match may do that.
OnlyAutoMovesALink ==
    [][\A l \in Lines :
         matchedExpense[l] \notin {NONE, matchedExpense'[l]} =>
           \E r \in Autos : pc[r] = "linked" /\ line[r] = l
                            /\ matchedExpense'[l] = target[r]]_vars

\* Every request that was submitted is over at some point: no lost wake-up, no
\* lock kept by a request that was refused.
EveryRequestEnds ==
    \A r \in Requests : pc[r] # "new" ~> pc[r] = "closed"

-----------------------------------------------------------------------------
(* Properties of reviewers' confirms alone (Autos = {})                    *)

\* An expense is "matched" exactly when some bank line carries it.
MatchedIffLinked ==
    \A e \in Expenses :
      expenseStatus[e] = "matched" <=> \E l \in Lines : matchedExpense[l] = e

\* Every confirm that was committed still stands, and no other confirm of the
\* same expense or the same line was ever committed: the docstring's "one
\* payment ends up reconciled twice" does not happen.
CommittedClaimsStand ==
    \A r \in committed :
      /\ matchedExpense[line[r]] = target[r]
      /\ \A q \in committed :
           target[q] = target[r] \/ line[q] = line[r] => q = r

\* The request ended without its commit: the process died or the connection
\* was lost, with ReplyFirst perhaps after the client was told "matched".
TakenBack(r) == pc[r] = "closed" /\ r \notin committed

\* The rows r is about to write are free in the tables.
RowsFree(r) ==
    /\ matchedExpense[line[r]] = NONE
    /\ \A l \in Lines : matchedExpense[l] # target[r]

\* The response is sent before the commit, so a lost connection can take
\* "matched" back.  Nothing else can: what a client was told is in the tables,
\* or its rows stay free for its commit, and nobody else is told the same of
\* either row until it is certain that the commit does not come.
ToldClaimsStand ==
    \A r \in Requests : answer[r] = "matched" /\ ~ TakenBack(r) =>
      /\ IF pc[r] = "linked" THEN RowsFree(r)
                            ELSE matchedExpense[line[r]] = target[r]
      /\ \A q \in Requests \ {r} : answer[q] = "matched" /\ ~ TakenBack(q) =>
           target[q] # target[r] /\ line[q] # line[r]

Promise == INSTANCE Matching WITH
    pairs <- {p \in Expenses \X Lines : matchedExpense[p[2]] = p[1]}

\* Reviewers' confirms implement the one-to-one matching of Matching.tla.
ImplementsMatching == Promise!Spec

-----------------------------------------------------------------------------
(* What the documentation says and auto-match breaks                       *)

\* "Without a lock both read unmatched, both write, and one payment ends up
\* reconciled twice": with the locks, no bank line is committed to two
\* expenses.
NoPaymentReconciledTwice ==
    \A r, q \in committed : line[r] = line[q] => target[r] = target[q]

\* "A second confirm on the same rows returns 409."
SecondConfirmRefused ==
    \A r, q \in committed \cap Confirms :
      target[r] = target[q] /\ line[r] = line[q] => r = q
=============================================================================
