# A formal model of ReckonFlow

ReckonFlow is an HTTP service (FastAPI, PostgreSQL through async SQLAlchemy, Redis, an ARQ
worker) for business trips: requests and approvals, expenses, receipts whose text an AI
extractor reads, bank statements, matching expenses with bank lines, and a double-entry ledger
that records reimbursements. These modules model what runs concurrently in it, TLC checks them
on small instances, and TLAPS proves the main results for every size.

Paths below are relative to `src/reckonflow/` in the repository unless they begin with `docs/`
or `tests/`.

## Inventory

| component | state it keeps | operations | what is hard about it | what makes it correct |
|---|---|---|---|---|
| reconciliation (`services/reconciliation.py`) | `expenses.match_status`, `bank_transactions.match_status`, `matched_expense_id`; row locks; the session's copies | confirm, auto-match, suggest, park for review | two row locks and a UNIQUE index; an auto-match decides on rows it read before the locks | one line per expense and one expense per line, the two rows agree, a committed match stands, and what a client was told stands unless its own commit is lost, no deadlock |
| ranking (`services/reconciliation.py` 58-298, `scripts/run_matching_evals.py`) | none: one SELECT's rows and scores | prefilter, score, fuse, gate | ranks forget distances; ties are broken by the order of the statement; the list is cut after two | a matched row is not beaten by another one in every signal; a clear winner is matched; no guess between equal rows |
| travel and approvals (`services/travel.py`) | `travel_requests`, `approvals.status` | create a trip, approve, reject, mark paid | two reviewers on one approval; a payment that reads expenses while others are recorded | only legal moves, paid exactly when the ledger has the payment |
| expenses (`services/travel.py`) | `expenses` | record, with or without a trip | the trip's approval is read without a lock | no expense on a trip that is not approved |
| ledger (`services/ledger.py`, `schemas/ledger.py`, `alembic/versions/001`, `004`) | `accounts`, `ledger_transactions`, `ledger_entries` (append-only) | open an account, post, reverse, balance | the unique reference; checks on exact decimals, columns of four places, a trigger over all currencies | a reference is used once, stored entries balance per currency, what was posted can be reversed |
| idempotency (`api/middleware/idempotency.py`) | one Redis key per (method, path, key) | claim, read, delete, store, replay | every Redis command is a step of its own, may fail or lose its reply; fails open | a handler runs once, replays are of the same body, a failing command costs the protection of its own request only |
| receipts (`api/v1/receipts.py`, `worker_queue.py`, `worker.py`, `tasks/receipts.py`, `services/receipts.py`) | `receipts.status`, `extracted_json`, `extraction_runs`, the unique `receipts.expense_id`, the ARQ job, files | upload, enqueue, extract in three commits, poll | a row and a file with no common commit; two uploads for one expense; enqueue before the commit; retries, crashes, timeouts; job and background task for one receipt | a committed receipt has its bytes, an extraction is not taken back, polling ends, the audit trail is right |
| rate limit (`api/middleware/rate_limit.py`) | a Redis counter per client, and a deque per client and process | count, refuse | INCR and EXPIRE are two commands that may fail after they were executed; refused requests count too; the fallback is per process | in any 60 seconds a bounded number of requests gets through, with Redis and without; a refused client comes back |
| bank import (`services/bank.py`) | `bank_transactions` rows, unique `external_id` | import a CSV | concurrent imports of overlapping files: an INSERT waits for the other transaction, and two can wait for each other | each statement line once, a skipped row is really there, the report is true, every import ends |
| API key (`api/deps.py`), request id, health, metrics, `main.py` | none | | | |
| extractors (`ai/`), schemas, money, embeddings, config | none | | decimal and text processing | |

Interaction: a request passes request-id, rate-limit and idempotency middleware (`main.py`),
then a route whose service works in one session (`core/db.py:get_db`), which commits when the
route has returned and rolls back when it raised. Expenses, approvals, bank lines, receipts and
the ledger meet in the database; uploads and the worker meet in the queue and in `receipts`.

## Modules

* `Matching` is the abstract promise of confirming: a growing one-to-one set of pairs of an
  expense and a bank line.
* `Reconciliation` is the detailed specification of confirms and auto-matches.
  `MCReconciliation` adds TLC's symmetry, `ReconciliationProofs` the proofs.
* `Reimbursement` is the abstract promise about a trip's money: decided once, spent on only when
  approved, paid once and together with its status.
* `Travel` models trips, approvals, expenses on trips, and the payment with its ledger posting, and
  implements `Reimbursement`; `MCTravel`, `TravelProofs`.
* `Once` is the abstract promise of an Idempotency-Key: run once, keep the response, replay it, until
  the key is forgotten or something breaks.
* `Idempotency` models the middleware for one key and implements `Once`; `MCIdempotency`,
  `IdempotencyProofs`.
* `Receipts` models one receipt from upload to extraction; `ReceiptsProofs`.
* `BankImport` models concurrent uploads of bank statements; `MCBankImport` has the files,
  `BankImportProofs` the proofs.
* `RateLimit` models the middleware for one client; `MCRateLimit`, `RateLimitProofs`.
* `Ranking` is the choice that `Reconciliation` leaves open in `Pick`: prefilter, signals, rank
  fusion, gates, and the evaluation script that measures them. `MCRanking` has the bank rows.
* `Ledger` is the arithmetic of posting: schema, service, columns, CHECKs, trigger, balances.
* `MCRules` puts `Ranking` and `Ledger` side by side, two sets of rules without concurrency, to
  check both for all small inputs in one run; `RulesProofs` has the proofs about both.
* `Sums` is a library of proved lemmas about finite sums. Balances, the lines of a transaction, the
  scores of a ranking and what a window let through are all sums over finite sets.

A few operators are named after a mistake (`LockLineEarly`, `ClaimWithoutNX`, ...). No
next-state relation uses them. They are variants of the operator that follows them, which the
project puts in its place to see that a property notices.

### Conventions shared by the modules

A request is a constant and `pc[r]` is the place its handler has reached. A database table holds
what is *committed*: a request's own uncommitted writes are what its place implies, and the
commit action writes them all at once (READ COMMITTED, PostgreSQL). `Refuse` is an exception:
rollback, locks freed, the error answered. `Crash` is a process or connection that dies: rollback.
Where FOR UPDATE makes a request wait, the action has the lock as an enabling condition. SQLite,
which the unit tests use, has one writer and none of these interleavings.

`ReplyFirst` says whether `get_db` commits after the response has been sent. The installed
FastAPI (`uv.lock`: 0.141.1) runs the exit code of a `yield` dependency after the response and
its background tasks; `pyproject.toml` also admits versions that run it before. The theorems hold
for both values. `reconcile_reviewers` and `idempotency`, whose properties are about what a client
was told, run with TRUE. There a commit that fails, or a crash between the response and the commit,
takes back what the client was told, and an idempotency entry goes on replaying the lost answer:
"the same key yields the same effect and body" (`api/middleware/idempotency.py` 6-7) is not true
then. `ToldClaimsStand` says what is left of an answer. With TRUE and `receipt_queue = "inline"`, the default
setting, the background task always runs before the commit that would show it its receipt; the runs
of `Receipts` use FALSE, so that what they find does not rest on this.

Two faults are modelled nowhere. A COMMIT that was executed and whose reply was lost: a request whose
connection breaks has rolled back. In `Receipts` that leaves out an extraction that is committed
(`tasks/receipts.py` 90) and then marked failed by the handler of the lost reply (98-102). And a Redis
client that repeats a command by itself: whether redis-py (`uv.lock`: 8.1.0) does so with the defaults of
`core/redis.py` cannot be seen in this repository. A command here is executed once at most.

### Reconciliation

| code | model |
|---|---|
| `create_expense`, `_insert_postgres` | `CreateExpense`, `ImportLine` |
| `confirm_match` 310-326, the two SELECT ... FOR UPDATE | `LockExpense`, `LockLine`: a session that already holds the row (an auto-match) keeps its copies `seenStatus`, `seenMatch` |
| 328-339, the checks and the flush | `Decide`: conflict (409), a duplicate `matched_expense_id` (IntegrityError, 500), or go on; the index waits for a transaction that is taking the expense from its other line (`Unlinks`) |
| `suggest_matches`, `auto_reconcile` 351-373 | `Load`, `Candidates`, `Pick`. Which candidate is auto-matchable is a choice here; `Ranking` says which it is |
| `flag_for_review` | `Park`, `WritePark`: SQLAlchemy issues an UPDATE only when the session's copy differs |
| response, `get_db` | `Reply`, `Commit` |

The SELECT of the candidates and the choice among them are one step, `Pick`; there is no `await`
between the SELECT's result and the choice. `SUGGESTED` is a status nothing in the code writes and
is left out.

### Travel

| code | model |
|---|---|
| `create_travel_request`, `create_account` | `CreateTrip` (trip and pending approval in one commit), `CreateAccount` (CASH, TRAVEL) |
| `transition_approval` | `SubmitMove`, `LockApproval`, `Decide`, `CommitMove` |
| `_post_payment_ledger`, `create_balanced_transaction` | `SumExpenses`, `PostPayment` |
| `create_expense` for a trip | `SubmitSpend`, `CheckTrip`, `CommitSpend` |
| `POST /ledger/transactions` under a reference `PAY-<id>` | `SubmitPost`, `InsertPost`, `CommitPost` |

A payment's amount is the set of expenses its SUM added up; expenses are positive (checked by the
schema and by a CHECK), so the empty set is exactly the fallback to the estimate. `pendingRef` is
the uncommitted row of a reference in the unique index, on which another INSERT waits.
`dueAtLock` is a history variable.

### Idempotency

`entry` is the Redis value of one key: free, a claim, a stored response named by the request that
made it, or what no version in the repository writes and `_handle_existing` provides for all the
same: a claim without a body (`Legacy`), a value that cannot be replayed (`Corrupt`, which may
still name a body, and then is a 409 for any other one), JSON that is no object (`Alien`, an
AttributeError and so a 500). It starts free or as one of these three. A stored response *without*
a fingerprint, which line 174 would replay for any body, is not among them: nothing in the
repository says that there was a version that stored one.

| code | model |
|---|---|
| `dispatch` 81-97 | `Submit` |
| `SET ... NX`, first and second attempt | `Claim`; `ClaimFails` is the `except` branch, also when Redis executed the command and the reply was lost |
| `_handle_existing` | `Read`, `ReadFails`, `Delete`: GET and DEL are two commands; `Unreplayable` is its `None` |
| `call_next`, the route | `Run`: the route answers with its transaction refused or open, or raises and leaves the claim |
| `get_db` | `EndTransaction`: committed or lost; a failure becomes a 500 when the commit precedes the response |
| `_capture`, `_store`, `_rebuild` | `Store`, once the response has reached the middleware (`Answered`); `Reply` for a request that failed open, which stores nothing |

`Crash` leaves the claim in Redis. `Expire` is the TTL of whatever the key holds; it waits for the
requests that run under the key, because the TTL is a day and a request takes seconds, so a handler
that outlives it is outside the model. `ran`, `unshielded` and `trouble` are history
variables: who has run the handler since the key was last free, whose first claim failed, and
whether a Redis command has failed or the key held something unreadable. Faults need no configuration of their own: a
property that fails when Redis does says `trouble = {}`, or which trouble it excludes.

### Receipts

| code | model |
|---|---|
| `upload_receipt` 70-97: 415, 413, 404 | `TurnAway` |
| `store_upload` 52-62, the SELECT for another receipt | `CheckExpense` (409 when there is one) |
| 64-80, the flush and its IntegrityError | `InsertRow`: waits for a rival's uncommitted row, refuses when that stays |
| 82-88, `write_bytes` | `WriteBytes`, or a disk that refuses |
| `enqueue_extract`, the response, the background task, `get_db` | `Enqueue`, `Respond`, `AfterBackground`, `CommitUpload` |
| who runs an extraction and what becomes of it | `StartJob`, `StartBackground`, `End` |
| the lines of `run_extraction` between its commits | `Read`, `MarkProcessing`, `Extract`, `Save`, `MarkFailed`, `LogRun`, `Leave` |

`slot` is the entry of the unique index on `receipts.expense_id` that this upload wants. Every
other upload for the expense is `RivalUpload`: it inserts, and commits or is undone, at any time.
`file` is whether this upload's bytes are on disk, which no rollback takes away; each upload has a
file name of its own. An upload that names no expense starts with `slot = "none"`.

ARQ is external: a job has
`MaxTries` tries, a job whose worker died is tried again, and `RetryOnRaise` says whether one that
raised is (ADR 007 says so; the locked arq 0.25 retries only `Retry` and cancellation).
`CrashUpload`, `CrashWorker` and `TimeoutJob` are the faults, and `LostReplies` lets a queue reply be
lost after Redis took the job, so that the job and the background task both run.

### BankImport

| code | model |
|---|---|
| `upload_bank_csv`, `import_csv` 61-84 | `Submit`: a file is the sequence of its validated rows; refused rows are only counted. `TurnAway`: too large (413), or no header (an empty report); nothing is inserted |
| 112-114 | `SkipSeen` |
| 118-140, `INSERT ... ON CONFLICT DO NOTHING RETURNING id` | `Insert`, which waits (`WaitsFor`) while another open transaction has the id |
| 141-143, `session.add` | `AddWithoutId` |
| an amount NUMERIC(15, 4) does not hold | `Overflow`, at the row's INSERT or at the flush |
| 145, `get_db` | `Flush`, `Commit`, `Close` |
| PostgreSQL's deadlock detector | `Deadlock`: one import of a cycle of waits is ended |

A row of the table is named by its import and its place in that file, so that two rows with one
`external_id` would be two members of `stored`. `pending` holds what an import has inserted and
not committed. Rows without an id are put into `pending` where `session.add` is called; they are
sent with the flush, and since nothing conflicts with them the moment does not matter.

### RateLimit

| code | model |
|---|---|
| `dispatch` | `Arrive` (a connection sends its next request), `LetThrough`, `Leave` |
| 94-98, INCR, and EXPIRE when it returned 1 | `Incr`, `Expire`: two steps |
| 99-103, the `except` branch | `IncrFails`, `ExpireFails`: the command may have been executed, and `_check_memory` decides |
| `_check_memory` | `CheckMemory`, `Fresh`: a deque per process, old entries dropped first |
| process restart, the TTL | `Crash`, `Tick` |

Time is counted in ticks, `Window` of which are the 60 seconds. `served` and `recent` are history:
how many requests the key has let through in its present life, and how many got through at each
age. Two counts are capped by a constant: `count` and `served` at `Limit + 1` (past the limit the
code compares and does nothing else with the number), `recent` at `RecentCap`, one above the
largest bound a property asks for. `trouble` records that a command failed or a process died;
each property says which trouble it survives.

### Ranking

`Plausible` is `_prefilter`'s statement, `AmountDate`, `FuzzySignal` and `EmbeddingSignal` the
three signals of `_score`, `Rank`, `Fused` and `Ranked` are `_fuse`, `AutoMatchable` the two gates,
`Suggest` and `Decide` what `auto_reconcile` makes of it. What the texts say is data: a wording has
its fuzzy score and its cosine. The code computes in binary floating point and the model in exact
fractions: `Whole` is the unit of a score, a multiple of every `k + rank`, so that `Share` is a
whole number; two signals that are equal as fractions and differ in the
last bit as floats are ties here and not there.
The order of the statement (its `booking_date`, and for equal dates whatever PostgreSQL returns) is
any order that respects the dates. `EvalPrefilter` and `EvalFused` are the evaluation script's own
copies of the same ranking, and `EvalPlace` is a row's place in its sorted list, ties included.

Three facts are worth knowing that no property states. The "ambiguity margin" of
`docs/phases/05-reconciliation.md` 19-20 does not exist: a row whose fused score is close or equal to the
runner-up's is matched as long as the runner-up misses a gate (`services/reconciliation.py` 365-366 says
that the gates are compared and not the gap), where that page sends the expense to `pending_review`. The threshold of 0.72 is never what stops a
row: with `k = 60` a row in the last place of all rankings still has more than 0.72 of the best
score while the list is shorter than about 25 rows. The minimal fuzzy score does the work.
`or -1.0` (265) takes a cosine of exactly 0.0 for a missing one and ranks it behind all negative
ones; the script does not, and `EvalMeasuresService` leaves such statements out.

### Ledger

`SchemaAccepts`, `ServiceAccepts`, `RowAccepted` and `TriggerPasses` are the four places that may
refuse a transaction, in their order, and `Column` what NUMERIC(15, 4) makes of an amount. Amounts
count in tenths of the column's unit, so that there are some which round. `Callers` are HTTP, which
passes the schema, and code that calls the service directly (`_post_payment_ledger`, the seed
script). `PostReversal` is the correction that the append-only trigger of migration 004 asks for.
`AccountBalance` is `account_balance`. The unique reference is in `Travel`.

## Runs

| run | instance | what it shows |
|---|---|---|
| `reconcile_mixed` | 2 expenses, 2 lines, 2 confirms, 2 auto-matches | with stale auto-matches the lock order and the UNIQUE index still give: one line per expense, both rows agree, reviewers decide on fresh rows, no deadlock, only an auto-match takes a line away |
| `reconcile_reviewers` | 2 expenses, 2 lines, 3 confirms, fair | reviewers alone get all that `confirm_match` promises, implement `Matching`; answered before their commits, they lose an answer only with their own commit; every submitted request ends |
| `reconcile_stolen_line` | 1 confirm, 1 auto-match | **violated**: one bank line is committed to two expenses |
| `reconcile_second_confirm` | 2 confirms, 1 auto-match | **violated**: a second confirm of the same rows succeeds |
| `travel` | 1 trip, 3 moves, 1 expense, 1 journal entry, 2 currencies | `Reimbursement` is implemented: decided once, spent on when approved, paid once with its status; status and money stay together, expenses are approved, payments complete |
| `idempotency` | 3 requests, 2 bodies, failing Redis, crashes, perhaps an unreadable or older entry | `Once` is implemented: while nothing is wrong the handler runs once and retries are told its answer; a stored answer stays in spite of failing commands; a failing command costs the protection of its own request only; replays match the body whatever is wrong |
| `receipts_one_runner` | a rival upload, full disks, 3 tries, crashes, timeouts | a committed receipt has its bytes and its expense, an extraction stays, status, JSON and trail agree |
| `receipts_early_job` | 3 tries, no faults, fair | **violated**: the receipt stays `uploaded` |
| `bank_import` | 3 uploads, 5 files over 2 ids, fair | ids stored once, nothing lost, true reports, every import ends in spite of deadlocks |
| `rate_limit` | 2 connections, 2 processes, limit 2, window 2, failing Redis, crashes, fair | what gets through in any 60 seconds is bounded with Redis and without it, a refused client comes back |
| `rules` | statements of up to 4 of 12 rows; ledgers of up to 3 of 12 drafts and their reversals | which row an automatic match takes and when it must take one, the evaluation's list is the service's, the books balance and can be corrected |
| `ranking_twins` | statements of up to 3 rows | **violated**: one of two identical rows is matched |

### What the violated runs show

1. *Stale auto-match* (`services/reconciliation.py:328`). `suggest_matches` loads the candidate
   rows, so they are in the session's identity map when `confirm_match` locks them, and a SELECT
   ... FOR UPDATE without `populate_existing` does not refresh them. A reviewer's commit between
   the two is not seen; the line is taken from the reviewer's expense, which stays `matched`
   without a line. The other direction, two lines for one expense, is stopped by the UNIQUE index
   alone (a 500), as `OneLinePerExpense` and its mutant show.
2. *Parked although matched* (`:347`). `flag_for_review` does not look at the status it
   overwrites. After a confirm, an auto-match of the same expense finds no candidate and reopens
   it; `CheckedConflict` then lets the same confirm through again.
3. *Early job* (`api/v1/receipts.py:101`). The job is queued before the receipt is committed.
   The worker finds no row, raises, and its tries are used up.
4. *Twins* (`services/reconciliation.py:357`). `auto_reconcile` asks for two suggestions. Equal rows
   have adjacent ranks A, A' in each ranking, so a row B that is ahead in one and behind in another
   may end between them: A, B, A'. B misses the fuzzy gate, A' is cut off, and A is matched for no
   reason but the order of the statement. The real `_fuse`, given these three rows, ranks them so.
   With two rows left by the prefilter nothing is cut off.

Weaknesses that are no runs of their own; the properties name them as their limits:

* *Unreadable entry* (`api/middleware/idempotency.py:168`): GET and DEL are two commands, and the
  second request's DEL may remove the first one's fresh claim, so that both run (`Once` is `broken` from
  the start, and `ShieldedRunOnce` leaves such a key out).
* *Lost commit* (`core/db.py:38`): an answer, and its replays, may be of a transaction that was lost.
* *Two runners* (`worker_queue.py:72`): a queue reply that is lost makes `enqueue_extract` answer
  `inline` beside the job; the check "already extracted" and the UPDATE to `processing` are not
  atomic, and `extracted` goes back to `processing` (`receipts_one_runner` has `LostReplies = FALSE`).
* *Stuck counter* (`api/middleware/rate_limit.py:94`): a process that dies between INCR and EXPIRE, or an
  EXPIRE that fails, leaves a counter that never expires: the client stays blocked once it is over the
  limit, and `Retry-After: 60` is not true. `CounterHasTTL` and `BlockedClientReturns` hold until then.
* *Late expense* (`services/travel.py:182`): an expense committed while the payment runs is in neither
  this payment nor a later one. `PaymentCoversSpend` is about those that were there at the lock.
* *Trips that cannot be paid* (`services/travel.py:194`, `services/ledger.py:95`): a journal entry has the
  payment's reference already, or the trip has another currency than the two accounts. Status and
  ledger still agree (`PaidIffPosted`).
* *One bad row* (`services/bank.py:120`): an amount that validation accepts and the column does not ends the
  whole import (`Overflow`), although lines 3-5 of the file say that it should not.

### Bounds

Requests are one-shot, so a run with *n* requests has all interleavings of *n* calls, each with
every choice of rows. Two rows of each kind let requests meet on both, one or none. A conflict of
two requests over shared rows needs two; a third shows a cycle through a request that waits, and
that a refused request leaves nothing behind; the fourth in `reconcile_mixed` gives two stale
auto-matches beside two fresh confirms. One trip is enough for `Travel`: trips share nothing but
the two accounts, whose currency is chosen freely. A key of `Idempotency` and a receipt of
`Receipts` share nothing with others. `MaxTries = 3` is the code's default.
The files of `MCBankImport` list both ids in both orders, repeat an id, have rows without one and
rows that overflow; two ids make a cycle of waits, and the third import is one that waits beside
it. `Refused = {1}`: how many rows validation refuses is only added to two counts. Symmetry is used only
in runs without liveness properties.

`Limit = 2` and `Window = 2`: a window has a beginning and an end, a counter a first request, a last
and one too many, and two windows can be straddled. Two connections end at two processes, so both
share the counter and neither shares a deque. `Ranking`'s twelve rows are the same payment, a day
earlier and later, with a fee, with other words, with words that just miss the minimal fuzzy score
or just reach it, without an embedding, and outside each bound of the prefilter; four rows are two more than the cut-off, and three are the least
in which a row can stand between twins. `Whole` is the least
common multiple of the `k + rank` there are. `Ledger`'s drafts include those that round away, that differ once
rounded, in one currency and in two that cancel each other, and one for each reason to refuse;
`MaxPosted = 3` is a posting, its reversal and another one, and `MaxAmount = 10` puts the column's
width within reach.  The proofs have no bounds.

Deadlock is checked in every passing run: a state where nothing can happen is one where every
request is over (`Finished`, `Over`), or TLC reports it.

### Fairness

`EveryRequestEnds` assumes weak fairness of each request's handler: the event loop runs a
coroutine that can go on, and PostgreSQL gives a freed row lock to a waiter. Weak fairness is
enough although a lock is handed around, because a request is one-shot and cannot take a lock
again. With auto-matches in the instance the liveness graph takes too long; there `WaitChainsEnd`,
proved as `DeadlockFree`, says that no cycle of waits forms, which is all that could keep a request. Clients are not fair: nobody has to submit. `PollingEnds` assumes the same of the upload,
the worker's poll loop and the extraction; the run has no crash or timeout, so the receipt that is
never extracted is not due to one. It is violated with the fairness, not for lack of it. `EveryImportEnds` assumes weak
fairness of each import's work: the event loop runs it, PostgreSQL wakes an INSERT whose blocker
is over, and its deadlock detector ends a cycle of waits after `deadlock_timeout`. The property is
about the order of the rows: with `WaitsFor`'s cycles an import that is not the victim goes on
because the victim's rows are rolled back.

`BlockedClientReturns` assumes that time goes on (`Tick`) and that a request's commands, when they do
not fail, are answered: the Redis client has a timeout of two seconds. Neither the client's arrivals
nor failures nor crashes are fair. In `Receipts` the upload's first step and the rivals are not fair.

## Proofs

All proofs are of the specifications as TLC checks them, for any sets of rows, requests, trips and
bodies. They assume the `ASSUME`s of the modules (the kinds of requests are disjoint, NONE is none
of the values) and, where stated, a hypothesis on a constant.

* **ReconciliationProofs.** `IInv` adds to `OneLinePerExpense` and `RowsAgree`: who holds which
  lock at which place (`LockOwner`), that a reviewer's copies equal the rows from the lock to the
  commit (`FreshCopies`), and that a request about to commit has passed its checks and its expense
  is on no other line (`Checked`). It is needed because the invariants speak of committed rows while
  the checks were made some steps earlier: the locks carry them over. `StepKinds` reduces the
  actions to those that write, lock, free or do neither; `WritesUnderLock` is the heart.
  `DeadlockFree` follows from `IInv` alone: whoever has the expense waits at most for the line or the
  index, whoever has the line at most for the index, and the index waits for a request that
  only has to commit. With `ReviewersOnly` (no auto-matches) `RInv` proves `MatchedIffLinked` and
  `CommittedClaimsStand`, and with it that every commit is a step of `Matching`. A client that was told
  "matched" is committed, waits for its commit or has lost it (`ToldPlaces`). While it waits it holds both
  locks, so the two rows stay free (`LinkedRowsFree`), and no second request that holds them can be told the same:
  `ToldSafe`, for both values of `ReplyFirst`.
* **TravelProofs.** `IInv` says that a move's copy of the status is the status while it holds the
  approval's lock, that its goal is a legal edge from it, that whoever inserted a reference is alone
  with it, and that a checked expense stays allowed because no legal edge leaves
  `{approved, paid}`. From it: `PaidOnce`, `SpendsAreApproved`, `PaymentsCover`, `LegalMoves`.
  `TravelImplementsReimbursement` maps each commit to one abstract step: a move to `Decide` or, when
  it pays, to `Pay`; a recorded expense to `Spend`; a new trip to `Open`. Whatever commits nothing, and
  a client's journal entry under a payment's reference, maps to none. `Pay` is never asked for a trip that is
  paid because `RefOwner` says that the reference is free, `Spend` never for a trip that is not
  approved because of `SpendChecked`, although each was looked up some steps before.
* **IdempotencyProofs.** `RunsOnce`: as long as nothing is wrong (`HealthyInv`), the entry names
  the one request that has run (`OneHolder`). `AnswerKept` (`ReadableInv`): unless the key started
  unreadable, a request between claim and store still has the key, even while others fail open
  (`Holds`). `FaultsStayTheirOwn` (`ShieldInv`): unless the key started unreadable, a request whose first claim
  did not fail runs only while the entry is its own claim or its own response, a failed claim may have
  been executed only where the key was free, and who fails open stores nothing. `RightReplays` needs nothing.
  `MiddlewareImplementsOnce` maps the steps to those of `Once`: a handler's run to `Run`, a store to `Keep`, a
  GET that replays to `Replay`, the TTL to `Forget`, everything else to none, and the first trouble to the
  end of the promise. It needs that a client is answered once, although a handler's response may
  be made before its commit (`OneAnswer`), and that who stores has run (`StoredRan`).
* **ReceiptsProofs.** With `LostReplies = FALSE` there is one runner (`OneRunner`), an attempt
  under way has a receipt that is not extracted, and a success is in the trail only when the
  receipt is extracted (`AttemptOpen`, `SuccessExtracted`): `FinalWithOneRunner`, `StatusAgrees`,
  `LoggedOnce`. `RowThenBytes` says at which place of the upload the row has its expense and the
  bytes are written; with `RowCommitted` it gives `FilesKept`. All for any `MaxTries`, with or
  without faults, and for both values of `ReplyFirst`.
* **BankImportProofs.** `IdsStoredOnce`: an import's uncommitted rows are places it has passed
  (`Placed`), and no two rows that are stored or uncommitted have one id (`LiveOnce`); the wait in
  `Insert` keeps it so, and `Commit` moves rows from one kind to the other. `ImportsLoseNothing`: by
  `PassedKept`, each row an open import has passed is among its own uncommitted rows or its id is in
  the table, so a skipped id cannot vanish with another import's rollback. `ReportsAreTrue`: by
  `ReportKept`, an open import has counted each row it passed once, and as inserted exactly the
  rows it holds; the commit stores that many, because nothing under its name was there before.
* **RateLimitProofs.** `IInv`: one request at most is between INCR and EXPIRE, and only while the
  counter is fresh (`OneExpirer`); without a key there is no TTL (`NoKeyNoTTL`); the requests let
  through are among those counted (`ServedCounted`). It gives `LifeWithinLimit`, whatever fails or
  dies, and `CountersEnd`. `TypeCorrect` includes that no deque outgrows the limit.

  `LimitIsShared` and `OutageIsCapped` bound what a whole window lets through, which no step
  limits by itself: a window may straddle two lives of the key, and an outage. They follow from
  `Charged`. It speaks of every interval up to the window, because in a tick the last *k* ticks
  become the last *k + 1*: what got through in them is at most one limit for the key before this
  one, this key's count, and what the deques remember of those ticks. Its second part says that
  what is younger than the present TTL leaves room for was not charged to the key before; without it a
  key that ends could hand on more than one limit. `OldestFirst` makes it sound that a deque drops
  its first entries, and `NoFallback` says that the deques are empty until Redis has failed. A
  deque that is lost in a crash after a failure breaks `Charged`, so it excludes that combination,
  as the two properties do.
* **RulesProofs**, ledger. `Sound` says of each stored transaction what the database made sure of
  (one side per row, the trigger's one sum) and, of one posted over HTTP, what the schema did:
  amounts that the columns need not round, balanced in each currency. `LedgerInvariance` keeps it
  through postings and reversals. `BooksBalanced`: a transaction's excesses sum to zero, each entry
  belongs to exactly one account (`SumParts`), and the sum over accounts of the sums over
  transactions is the sum the other way round (`SumSwap`). `AlwaysReversible`: a stored amount is
  read back as it was written, and swapping the sides swaps the two sums.
* **RulesProofs**, ranking. `RankingIInv`: the suggestions are the first two of `Ranked`, and a
  row that is matched passed the gates while the next one did not. `Rank` counts the rows ahead, so
  a row that beats another in a signal has the smaller rank there (the rows ahead of it are among those
  ahead of the other, and it is one more) and with it the larger `Share`; a row better in every
  signal therefore has the larger sum: `BestIsChosen`. A row that beats all others is first in every ranking
  (`RankOfBest`), so its score is the best possible one, which reaches any threshold up to 100 %
  (`WinnersScore`), and the runner-up, if there is one, misses the fuzzy gate: `WinnerMatched`. `EvaluationIsTrue` shows
  signal by signal that the script's ranks are the service's, and that its order is, ties included.
* **Sums.** The library's induction on finite sets is about an operator, which none of the provers
  can instantiate; `SetInduction` is about a *family of subsets* instead: one that contains the
  empty set, and with a set the set with one more element, contains every finite set. `SumUnfold`
  and `SumRecursion` unfold the fold of the community modules by one element; from there come the
  sum with an element more or less, of two functions, over the parts of a partition, over a
  product in either order, after a renaming, and under a bound.

Stated by a theorem and by no run: `OnlyLegalMoves` (`LegalMoves`), which
`ImplementsReimbursement` implies, `HandlerRunsOnce` (`RunsOnce`), which `ImplementsOnce`
implies, `ReferencesUnique` (`ReferenceUsedOnce`), `PaymentCurrency` (part of
`PaymentsCover`), `RowsAgree` (part of `LinksCorrect`), `LifeLimit` (`LifeWithinLimit`), `ChargeInv`
(`Accounted`).

Every invariant and every action property that a passing run checks is proved. Only
model-checked: `EveryRequestEnds`, `EveryImportEnds`, `BlockedClientReturns` and `PollingEnds`
(liveness under fairness is outside the prover's reach), and that the four properties of the
violated runs fail, for which one behaviour is enough.

## Not modelled

* CSV parsing, and `_insert_sqlite_safe`, which only SQLite uses.
* Authentication, request ids, health, metrics, logging: no state a property is about.
* Extractors: an extractor is its outcome. `groq_provider.py` retries a rate-limited call inside one
  attempt; prompts, JSON parsing and the stub's regular expressions are text processing.
* Embeddings and the texts' similarities: numbers the ranking is given.
* `_resolve_storage_path`, which keeps a file inside the storage directory.
* Loss of Redis data other than by the TTL. Several clients of the rate limit, several idempotency
  keys, several receipts: they share nothing.
* Reads (list, get, suggestions for display): they change nothing.
* Migrations as such. Of 001 and 004 the CHECKs and triggers of the ledger are modelled.
* SQLite's behaviour, which only tests use; the seed script and the extraction evaluation.

## Plan

1. Done: `Matching`, `Reconciliation`, `Travel`, `Idempotency`, `Receipts`, `BankImport`: money that is
   matched twice or paid twice first, then what retries and queues may do to it. Then `RateLimit`,
   `Ranking`, `Ledger`, and the files and the unique expense of `Receipts`.
2. `Gateway`: rate limit, idempotency and a handler with its commit composed; a retried payment is
   posted once end to end, as an instance of `Idempotency`'s and `Travel`'s promises.
3. Abstract specifications: "run once, then replay" implemented by `Idempotency` (done: `Once`),
   the promise about a trip's money by `Travel` (done: `Reimbursement`), one-to-one matching by
   `Reconciliation` (done: `Matching`). Open: the promise of an upload, that a committed receipt is
   extracted at most once by one runner, as a specification of its own.
4. Done: proofs of the sums: the books' balance for any ledger, the two limits of a straddled
   window, the ranking, the reports of imports.
5. The retries of the Groq client inside one attempt, against `job_timeout`.
