------------------------------ MODULE Receipts ------------------------------
(***************************************************************************)
(* One receipt: its upload (src/reckonflow/api/v1/receipts.py), the queue  *)
(* it goes through (worker_queue.py) and its extraction                    *)
(* (tasks/receipts.py), by the ARQ worker, by a background task of the     *)
(* upload, or by both.  Receipts share no rows or jobs; the one thing two   *)
(* uploads can want is the same expense, so the other uploads for it are   *)
(* one rival here.                                                         *)
(*                                                                         *)
(* ARQ itself is external: a job is tried MaxTries times, a job whose      *)
(* worker died is given to another one, and RetryOnRaise says whether a    *)
(* job that raised is tried again.                                         *)
(***************************************************************************)
EXTENDS Naturals

CONSTANTS
    Queue,           \* settings.receipt_queue: "arq" or "inline"
    MaxTries,        \* settings.receipt_job_max_tries
    RetryOnRaise,
    Faults,          \* TRUE: processes die, jobs time out
    LostReplies,     \* TRUE: enqueue_job may raise after Redis took the job
    ReplyFirst       \* TRUE: get_db commits after the response and its
                     \* background tasks

ASSUME ReceiptsAssumption ==
    /\ Queue \in {"arq", "inline"}
    /\ MaxTries \in Nat \ {0}
    /\ RetryOnRaise \in BOOLEAN /\ Faults \in BOOLEAN
    /\ LostReplies \in BOOLEAN /\ ReplyFirst \in BOOLEAN

Runners == {"arq", "inline"}

VARIABLES
    status,          \* receipts.status, "absent" before the upload's commit
    slot,            \* the unique index at this upload's expense: "none" when
                     \* it names no expense, else "free", or whose entry it
                     \* has, uncommitted ("ours", "rival") or for good ("mine",
                     \* "taken")
    file,            \* whether there are bytes on disk
    json,            \* whether receipts.extracted_json is set
    log,             \* the extraction_runs rows
    upload,          \* where the upload request stands
    scheduled,       \* whether the upload added the background task
    job,             \* the ARQ job: "none", "queued", "running" or "over"
    tries,           \* its job_try
    pc,              \* where a runner's run_extraction stands
    seen             \* the status its session holds

storeVars == <<slot, file>>
uploadVars == <<upload, scheduled, storeVars>>
queueVars == <<job, tries>>
rowVars == <<status, json>>
vars == <<rowVars, log, uploadVars, queueVars, pc, seen>>

ReceiptStatus == {"uploaded", "processing", "extracted", "failed"}

Init ==
    /\ status = "absent"
    /\ slot \in {"none", "free"}
    /\ file = FALSE
    /\ json = FALSE
    /\ log = {}
    /\ upload = "new"
    /\ scheduled = FALSE
    /\ job = "none"
    /\ tries = 0
    /\ pc = [r \in Runners |-> "idle"]
    /\ seen = [r \in Runners |-> "absent"]

GoTo(r, place) == pc' = [pc EXCEPT ![r] = place]

-----------------------------------------------------------------------------
(* The upload                                                              *)

\* Another upload for the same expense is inserted, and commits or is undone.
RivalUpload ==
    /\ \/ slot = "free" /\ slot' = "rival"
       \/ slot = "rival" /\ slot' \in {"taken", "free"}
    /\ UNCHANGED <<rowVars, log, file, upload, scheduled, queueVars, pc, seen>>

Elsewhere == <<rowVars, log, scheduled, queueVars, pc, seen>>

\* The wrong type, too large, an unknown expense: 415, 413, 404.
TurnAway ==
    /\ upload = "new"
    /\ upload' = "refused"
    /\ UNCHANGED <<Elsewhere, storeVars>>

CheckExpenseWritingFirst ==
    /\ upload = "new"
    /\ file' = TRUE
    /\ upload' = IF slot = "taken" THEN "refused" ELSE "insert"
    /\ UNCHANGED <<Elsewhere, slot>>

\* store_upload: an expense that has a receipt is a 409.
CheckExpense ==
    /\ upload = "new"
    /\ upload' = IF slot = "taken" THEN "refused" ELSE "insert"
    /\ UNCHANGED <<Elsewhere, storeVars>>

\* The flush waits for the rival's uncommitted row; if that stays, the unique
\* index refuses this one, a 409 too.
InsertRow ==
    /\ upload = "insert"
    /\ slot # "rival"
    /\ IF slot = "taken"
       THEN upload' = "refused" /\ UNCHANGED slot
       ELSE /\ upload' = "write"
            /\ slot' = IF slot = "none" THEN slot ELSE "ours"
    /\ UNCHANGED <<Elsewhere, file>>

Released == IF slot = "ours" THEN "free" ELSE slot

\* The bytes; when the disk refuses, the row is rolled back, and part of them
\* may be left.
WriteBytes ==
    /\ upload = "write"
    /\ \/ upload' = "stored" /\ file' = TRUE /\ UNCHANGED slot
       \/ upload' = "over" /\ file' \in BOOLEAN /\ slot' = Released
    /\ UNCHANGED Elsewhere

\* enqueue_extract, before the commit: the job is queued, or the extraction
\* falls back to a background task of this request.
Enqueue ==
    /\ upload = "stored"
    /\ \/ /\ Queue = "arq"
          /\ job' = "queued"
          /\ scheduled' \in {FALSE, LostReplies}
       \/ /\ scheduled' = TRUE
          /\ UNCHANGED job
    /\ upload' = IF ReplyFirst THEN "respond" ELSE "commit"
    /\ UNCHANGED <<rowVars, log, tries, pc, seen, storeVars>>

\* The response, and the background task that follows it.
Respond ==
    /\ upload = "respond"
    /\ upload' = "background"
    /\ UNCHANGED <<Elsewhere, storeVars>>

BackgroundDone == scheduled => pc["inline"] = "over"

AfterBackground ==
    /\ upload = "background"
    /\ BackgroundDone
    /\ upload' = IF ReplyFirst THEN "commit" ELSE "over"
    /\ UNCHANGED <<Elsewhere, storeVars>>

CommitUpload ==
    /\ upload = "commit"
    /\ status' = "uploaded"
    /\ slot' = IF slot = "ours" THEN "mine" ELSE slot
    /\ upload' = IF ReplyFirst THEN "over" ELSE "respond"
    /\ UNCHANGED <<json, file, log, scheduled, queueVars, pc, seen>>

\* The process dies, and its background task with it; PostgreSQL rolls back,
\* the disk does not.
CrashUpload ==
    /\ Faults
    /\ upload \notin {"new", "refused", "over"}
    /\ upload' = "over"
    /\ slot' = Released
    /\ GoTo("inline", "over")
    /\ UNCHANGED <<rowVars, file, log, scheduled, queueVars, seen>>

-----------------------------------------------------------------------------
(* Who runs an extraction                                                  *)

StartJob ==
    /\ job = "queued"
    /\ pc["arq"] = "idle"
    /\ IF tries < MaxTries
       THEN /\ job' = "running"
            /\ tries' = tries + 1
            /\ GoTo("arq", "read")
       ELSE /\ job' = "over"
            /\ UNCHANGED <<tries, pc>>
    /\ UNCHANGED <<rowVars, log, uploadVars, seen>>

StartBackground ==
    /\ upload = "background"
    /\ scheduled
    /\ pc["inline"] = "idle"
    /\ GoTo("inline", "read")
    /\ UNCHANGED <<rowVars, log, uploadVars, queueVars, seen>>

\* run_extraction returns, or raises when reraise is set (the ARQ job).
End(r, raised) ==
    /\ GoTo(r, IF r = "arq" THEN "idle" ELSE "over")
    /\ job' = IF r = "inline" THEN job
              ELSE IF raised /\ RetryOnRaise THEN "queued" ELSE "over"
    /\ UNCHANGED tries

\* The worker dies or drops its connection: the job goes to another one.
CrashWorker ==
    /\ Faults
    /\ job = "running"
    /\ job' = "queued"
    /\ GoTo("arq", "idle")
    /\ UNCHANGED <<rowVars, log, uploadVars, tries, seen>>

\* job_timeout cancels the job while the model answers: no handler of
\* run_extraction catches that.
TimeoutJob ==
    /\ Faults
    /\ pc["arq"] = "extract"
    /\ End("arq", TRUE)
    /\ UNCHANGED <<rowVars, log, uploadVars, seen>>

-----------------------------------------------------------------------------
(* run_extraction                                                          *)

ReadWithoutSkip(r) ==
    /\ pc[r] = "read"
    /\ IF status = "absent"
       THEN /\ End(r, TRUE)
            /\ UNCHANGED seen
       ELSE /\ GoTo(r, "mark")
            /\ seen' = [seen EXCEPT ![r] = status]
            /\ UNCHANGED queueVars
    /\ UNCHANGED <<rowVars, log, uploadVars>>

\* A receipt that is not there raises; one that is extracted is left alone.
Read(r) ==
    /\ pc[r] = "read"
    /\ IF status \in {"absent", "extracted"}
       THEN /\ End(r, status = "absent")
            /\ UNCHANGED seen
       ELSE /\ GoTo(r, "mark")
            /\ seen' = [seen EXCEPT ![r] = status]
            /\ UNCHANGED queueVars
    /\ UNCHANGED <<rowVars, log, uploadVars>>

\* mark_processing and its commit: an UPDATE only when the session's copy has
\* another status.
MarkProcessing(r) ==
    /\ pc[r] = "mark"
    /\ status' = IF seen[r] = "processing" THEN status ELSE "processing"
    /\ seen' = [seen EXCEPT ![r] = "processing"]
    /\ GoTo(r, "extract")
    /\ UNCHANGED <<json, log, uploadVars, queueVars>>

\* read_text and the extractor's answer: a result, or an exception, also when
\* there are no bytes to read.
Extract(r) ==
    /\ pc[r] = "extract"
    /\ \/ file /\ GoTo(r, "save")
       \/ GoTo(r, "fail")
    /\ UNCHANGED <<rowVars, log, uploadVars, queueVars, seen>>

Row(r, outcome) ==
    [by |-> r, try |-> IF r = "arq" THEN tries ELSE 1, outcome |-> outcome]

SaveKeepingFlush(r) ==
    /\ pc[r] = "save"
    /\ json' = TRUE
    /\ \/ /\ status' = "extracted"
          /\ GoTo(r, "logSuccess")
       \/ /\ GoTo(r, "fail")
          /\ UNCHANGED status
    /\ UNCHANGED <<log, uploadVars, queueVars, seen>>

\* save_extraction and its commit, or a rollback when either raises.
Save(r) ==
    /\ pc[r] = "save"
    /\ \/ /\ status' = "extracted"
          /\ json' = TRUE
          /\ GoTo(r, "logSuccess")
       \/ /\ GoTo(r, "fail")
          /\ UNCHANGED rowVars
    /\ UNCHANGED <<log, uploadVars, queueVars, seen>>

MarkFailedMisspelt(r) ==
    /\ pc[r] = "fail"
    /\ status' = "error"
    /\ GoTo(r, "logFailed")
    /\ UNCHANGED <<json, log, uploadVars, queueVars, seen>>

\* mark_failed reads the row again after the rollback; extracted_json stays.
MarkFailed(r) ==
    /\ pc[r] = "fail"
    /\ status' = "failed"
    /\ GoTo(r, "logFailed")
    /\ UNCHANGED <<json, log, uploadVars, queueVars, seen>>

\* The attempt's own row, committed before run_extraction is left.
LogRun(r) ==
    /\ \/ /\ pc[r] = "logSuccess"
          /\ log' = log \cup {Row(r, "success")}
          /\ GoTo(r, "return")
       \/ /\ pc[r] = "logFailed"
          /\ log' = log \cup {Row(r, "failed")}
          /\ GoTo(r, "raise")
    /\ UNCHANGED <<rowVars, uploadVars, queueVars, seen>>

Leave(r) ==
    /\ pc[r] \in {"return", "raise"}
    /\ End(r, pc[r] = "raise")
    /\ UNCHANGED <<rowVars, log, uploadVars, seen>>

RunExtraction(r) ==
    \/ Read(r) \/ MarkProcessing(r) \/ Extract(r) \/ Save(r) \/ MarkFailed(r)
    \/ LogRun(r) \/ Leave(r)

-----------------------------------------------------------------------------
HandleUpload ==
    InsertRow \/ WriteBytes \/ Enqueue \/ Respond \/ AfterBackground \/ CommitUpload

Over ==
    /\ upload \in {"refused", "over"} /\ job \in {"none", "over"}
    /\ pc["inline"] \in {"idle", "over"}
    /\ UNCHANGED vars

Next ==
    \/ TurnAway \/ CheckExpense \/ HandleUpload \/ CrashUpload \/ RivalUpload
    \/ StartJob \/ StartBackground \/ CrashWorker \/ TimeoutJob
    \/ \E r \in Runners : RunExtraction(r)
    \/ Over

\* The web process drives the upload and its background task, the worker
\* polls its queue and drives its job.
Fairness ==
    /\ WF_vars(HandleUpload)
    /\ WF_vars(StartJob) /\ WF_vars(StartBackground)
    /\ \A r \in Runners : WF_vars(RunExtraction(r))

Spec == Init /\ [][Next]_vars

FairSpec == Spec /\ Fairness

-----------------------------------------------------------------------------
(* Properties                                                              *)

TypeOK ==
    /\ status \in ReceiptStatus \cup {"absent"}
    /\ json \in BOOLEAN
    /\ log \subseteq [by : Runners, try : 1 .. MaxTries,
                      outcome : {"success", "failed"}]
    /\ slot \in {"none", "free", "ours", "rival", "mine", "taken"}
    /\ file \in BOOLEAN
    /\ upload \in {"new", "insert", "write", "stored", "respond", "background",
                   "commit", "refused", "over"}
    /\ scheduled \in BOOLEAN
    /\ job \in {"none", "queued", "running", "over"}
    /\ tries \in 0 .. MaxTries
    /\ pc \in [Runners -> {"idle", "read", "mark", "extract", "save", "fail",
                           "logSuccess", "logFailed", "return", "raise", "over"}]
    /\ seen \in [Runners -> ReceiptStatus \cup {"absent"}]

\* "Insert the row, then write bytes so a failed flush leaves no orphan": a
\* receipt that can be polled has its bytes and its expense for itself, and an
\* upload that was refused for another one's receipt has written nothing.
\* A crash or a disk that is full may leave bytes without a row.
RowsHaveFiles ==
    /\ status # "absent" => file /\ slot \in {"none", "mine"}
    /\ upload = "refused" => ~ file /\ status = "absent"

\* "Already-extracted rows no-op": no later attempt, retry or duplicate takes
\* an extraction back.
ExtractedIsFinal == [][status = "extracted" => status' = "extracted"]_vars

\* The status that the client polls and the extraction it then fetches agree:
\* a receipt is "extracted" exactly when its JSON is there, however attempts
\* fail, time out and are tried again.
ExtractedIffJson == status = "extracted" <=> json

\* The audit trail names one successful attempt at most, although a job that
\* had succeeded may be tried again when its worker died.
OneSuccessLogged ==
    \A x, y \in log : x.outcome = "success" /\ y.outcome = "success" => x = y

\* "Poll this until status becomes extracted or failed": a receipt the client
\* was told to poll does get there.
PollingEnds == status = "uploaded" ~> status \in {"extracted", "failed"}
=============================================================================
