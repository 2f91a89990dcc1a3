--------------------------- MODULE ReceiptsProofs ---------------------------
(***************************************************************************)
(* Proofs about Receipts for any number of tries, when enqueue_job raises  *)
(* only if Redis did not take the job: then one runner exists at a time.   *)
(***************************************************************************)
EXTENDS Receipts, TLAPS

Attempting == {"mark", "extract", "save", "fail"}

\* The upload chose one runner, and a runner runs only when it was chosen.
OneRunner ==
    /\ upload \in {"new", "insert", "write", "stored", "refused"} =>
         job = "none" /\ ~ scheduled
    /\ job # "none" => ~ scheduled
    /\ pc["arq"] # "idle" => job = "running" /\ tries # 0
    /\ pc["arq"] # "over"
    /\ pc["inline"] \notin {"idle", "over"} => scheduled

\* The row is there once the upload has committed.
RowCommitted ==
    /\ upload \in {"new", "insert", "write", "stored", "commit", "refused"} =>
         status = "absent"
    /\ ReplyFirst /\ upload \in {"respond", "background"} => status = "absent"

\* The bytes are written after the row was flushed, which gave the upload its
\* expense, and before the row is committed.
RowThenBytes ==
    /\ upload \in {"new", "insert", "refused"} => ~ file
    /\ upload \in {"write", "stored", "commit"} => slot \in {"none", "ours"}
    /\ upload \in {"stored", "respond", "background", "commit"} => file
    /\ ReplyFirst /\ upload \in {"respond", "background"} =>
         slot \in {"none", "ours"}

\* An attempt that is under way has an unfinished receipt before it, and the
\* trail knows of a success only when the receipt is extracted.
AttemptOpen ==
    \A r \in Runners :
      /\ pc[r] \in Attempting => status \notin {"absent", "extracted"}
      /\ pc[r] = "logSuccess" =>
           /\ status = "extracted"
           /\ \A x \in log : x.outcome # "success"

SuccessExtracted == \A x \in log : x.outcome = "success" => status = "extracted"

IInv ==
    /\ TypeOK /\ OneRunner /\ RowCommitted /\ AttemptOpen /\ SuccessExtracted
    /\ ExtractedIffJson /\ OneSuccessLogged /\ RowThenBytes /\ RowsHaveFiles

ReceiptStep ==
    status = "extracted" => status' = "extracted"

\* Before the upload there is no row, no job and no run.
LEMMA InitIInv == Init => IInv
<1> SUFFICES ASSUME Init PROVE IInv
  OBVIOUS
<1>1. TypeOK
  <2>1. tries \in 0 .. MaxTries
    BY ReceiptsAssumption DEF Init
  <2>2. log \subseteq [by : Runners, try : 1 .. MaxTries,
                      outcome : {"success", "failed"}]
    BY DEF Init
  <2>3. json \in BOOLEAN /\ scheduled \in BOOLEAN
    BY DEF Init
  <2> QED BY <2>1, <2>2, <2>3 DEF Init, TypeOK, Runners, ReceiptStatus
<1>2. OneRunner /\ RowCommitted /\ AttemptOpen
  BY DEF Init, OneRunner, RowCommitted, AttemptOpen, Attempting, Runners
<1>3. SuccessExtracted /\ ExtractedIffJson /\ OneSuccessLogged
  BY DEF Init, SuccessExtracted, ExtractedIffJson, OneSuccessLogged
<1>4. RowThenBytes /\ RowsHaveFiles
  BY DEF Init, RowThenBytes, RowsHaveFiles
<1> QED BY <1>1, <1>2, <1>3, <1>4 DEF IInv

\* The steps of the upload and of the queue touch no attempt that goes on.
LEMMA OutsideStep ==
  ASSUME LostReplies = FALSE, IInv,
         \/ RivalUpload \/ TurnAway \/ CheckExpense \/ HandleUpload
         \/ CrashUpload \/ StartJob \/ StartBackground \/ CrashWorker
         \/ TimeoutJob
  PROVE  IInv' /\ ReceiptStep
<1> USE ReceiptsAssumption
    DEF IInv, TypeOK, OneRunner, RowCommitted, AttemptOpen, SuccessExtracted,
        ExtractedIffJson, OneSuccessLogged, ReceiptStep, Attempting, Runners,
        ReceiptStatus, GoTo, rowVars, uploadVars, storeVars, queueVars,
        RowThenBytes, RowsHaveFiles
<1>1. CASE RivalUpload
  BY <1>1 DEF RivalUpload
<1>2. CASE TurnAway
  BY <1>2 DEF TurnAway, Elsewhere
<1>3. CASE CheckExpense
  BY <1>3 DEF CheckExpense, Elsewhere
<1>4. CASE InsertRow
  BY <1>4 DEF InsertRow, Elsewhere
<1>5. CASE WriteBytes
  BY <1>5 DEF WriteBytes, Elsewhere, Released
<1>6. CASE Enqueue
  BY <1>6 DEF Enqueue
<1>7. CASE Respond
  BY <1>7 DEF Respond, Elsewhere
<1>8. CASE AfterBackground
  BY <1>8 DEF AfterBackground, Elsewhere
<1>9. CASE CommitUpload
  BY <1>9 DEF CommitUpload
<1>10. CASE CrashUpload
  BY <1>10 DEF CrashUpload, Released
<1>11. CASE StartJob
  BY <1>11 DEF StartJob
<1>12. CASE StartBackground
  BY <1>12 DEF StartBackground
<1>13. CASE CrashWorker
  BY <1>13 DEF CrashWorker
<1>14. CASE TimeoutJob
  BY <1>14 DEF TimeoutJob, End
<1> QED
  BY <1>1, <1>2, <1>3, <1>4, <1>5, <1>6, <1>7,
     <1>8, <1>9, <1>10, <1>11, <1>12, <1>13, <1>14 DEF HandleUpload

\* An attempt works on an unfinished receipt, alone.
LEMMA AttemptStep ==
  ASSUME IInv, NEW r \in Runners, RunExtraction(r) PROVE IInv' /\ ReceiptStep
<1> USE ReceiptsAssumption
    DEF IInv, TypeOK, OneRunner, RowCommitted, AttemptOpen, SuccessExtracted,
        ExtractedIffJson, OneSuccessLogged, ReceiptStep, Attempting, Runners,
        ReceiptStatus, GoTo, rowVars, uploadVars, storeVars, queueVars,
        RowThenBytes, RowsHaveFiles
<1>1. CASE Read(r)
  BY <1>1 DEF Read, End
<1>2. CASE MarkProcessing(r)
  BY <1>2 DEF MarkProcessing
<1>3. CASE Extract(r)
  BY <1>3 DEF Extract
<1>4. CASE Save(r)
  <2>1. \A q \in Runners \ {r} : pc[q] \notin Attempting
    BY <1>4 DEF Save
  <2>2. TypeOK' /\ OneRunner' /\ RowCommitted'
    <3>1. pc' \in {[pc EXCEPT ![r] = "logSuccess"], [pc EXCEPT ![r] = "fail"]}
      BY <1>4 DEF Save
    <3>2. TypeOK'
      <4>1. pc' \in [Runners -> {"idle", "read", "mark", "extract", "save", "fail",
                                 "logSuccess", "logFailed", "return", "raise",
                                 "over"}]
        BY <3>1
      <4>2. status' \in ReceiptStatus \cup {"absent"} /\ json' \in BOOLEAN
        BY <1>4 DEF Save
      <4>3. UNCHANGED <<log, uploadVars, queueVars, seen>>
        BY <1>4 DEF Save
      <4> QED BY <4>1, <4>2, <4>3
    <3>3. OneRunner'
      BY <1>4, <3>1 DEF Save
    <3>4. RowCommitted'
      BY <1>4 DEF Save
    <3> QED BY <3>2, <3>3, <3>4
  <2>3. AttemptOpen' /\ SuccessExtracted'
    BY <1>4, <2>1 DEF Save
  <2>4. ExtractedIffJson' /\ OneSuccessLogged' /\ ReceiptStep
    BY <1>4 DEF Save
  <2>5. RowThenBytes' /\ RowsHaveFiles'
    BY <1>4 DEF Save
  <2> QED BY <2>2, <2>3, <2>4, <2>5
<1>5. CASE MarkFailed(r)
  BY <1>5 DEF MarkFailed
<1>6. CASE LogRun(r)
  <2> DEFINE row == Row(r, IF pc[r] = "logSuccess" THEN "success" ELSE "failed")
  <2>1. /\ pc[r] \in {"logSuccess", "logFailed"}
        /\ log' = log \cup {row}
        /\ pc' = [pc EXCEPT ![r] = IF pc[r] = "logSuccess" THEN "return" ELSE "raise"]
        /\ UNCHANGED <<rowVars, uploadVars, queueVars, seen>>
    BY <1>6 DEF LogRun
  <2>2. /\ row \in [by : Runners, try : 1 .. MaxTries, outcome : {"success", "failed"}]
        /\ row.outcome = "success" <=> pc[r] = "logSuccess"
    BY <2>1 DEF Row
  <2> HIDE DEF row
  <2>3. TypeOK' /\ OneRunner' /\ RowCommitted'
    BY <2>1, <2>2
  <2>4. pc[r] = "logSuccess" =>
          \A q \in Runners \ {r} : pc[q] # "logSuccess"
    BY <2>1
  <2>5. AttemptOpen'
    BY <2>1, <2>2, <2>4
  <2>6. SuccessExtracted' /\ ExtractedIffJson' /\ OneSuccessLogged' /\ ReceiptStep
    BY <2>1, <2>2
  <2>7. RowThenBytes' /\ RowsHaveFiles'
    BY <2>1
  <2> QED BY <2>3, <2>5, <2>6, <2>7
<1>7. CASE Leave(r)
  BY <1>7 DEF Leave, End
<1> QED
  BY <1>1, <1>2, <1>3, <1>4, <1>5, <1>6, <1>7 DEF RunExtraction

\* With one runner every step keeps the invariant, and takes no extraction
\* back.
LEMMA StepIInv ==
  ASSUME LostReplies = FALSE
  PROVE  IInv /\ [Next]_vars => IInv' /\ [ReceiptStep]_vars
<1> SUFFICES ASSUME IInv, [Next]_vars PROVE IInv' /\ ReceiptStep
  OBVIOUS
<1>1. CASE UNCHANGED vars
  BY <1>1 DEF vars, IInv, TypeOK, OneRunner, RowCommitted, AttemptOpen,
              SuccessExtracted, ExtractedIffJson, OneSuccessLogged, ReceiptStep,
              RowThenBytes, RowsHaveFiles, rowVars, uploadVars, storeVars,
              queueVars
<1> QED
  BY <1>1, OutsideStep, AttemptStep DEF Next, Over

\* An extraction is never taken back while a receipt has one runner, for any
\* number of tries, crashes and timeouts.
THEOREM FinalWithOneRunner ==
  ASSUME LostReplies = FALSE PROVE Spec => ExtractedIsFinal
<1> QED BY InitIInv, StepIInv, PTL DEF Spec, ExtractedIsFinal, ReceiptStep

\* IInv holds in every state while the queue loses no reply.
THEOREM Invariance ==
  ASSUME LostReplies = FALSE PROVE Spec => []IInv
<1> QED BY InitIInv, StepIInv, PTL DEF Spec

\* The receipt, the job and the runner keep their types.
THEOREM TypeCorrect ==
  ASSUME LostReplies = FALSE PROVE Spec => []TypeOK
<1>1. IInv => TypeOK
  BY DEF IInv
<1> QED BY <1>1, Invariance, PTL

\* A committed receipt has its bytes and its expense, whatever rivals it had.
THEOREM FilesKept ==
  ASSUME LostReplies = FALSE PROVE Spec => []RowsHaveFiles
<1>1. IInv => RowsHaveFiles
  BY DEF IInv
<1> QED BY <1>1, Invariance, PTL

\* The polled status and the stored JSON agree.
THEOREM StatusAgrees ==
  ASSUME LostReplies = FALSE PROVE Spec => []ExtractedIffJson
<1>1. IInv => ExtractedIffJson
  BY DEF IInv
<1> QED BY <1>1, Invariance, PTL

\* The audit trail has one success at most, however often a worker dies.
THEOREM LoggedOnce ==
  ASSUME LostReplies = FALSE PROVE Spec => []OneSuccessLogged
<1>1. IInv => OneSuccessLogged
  BY DEF IInv
<1> QED BY <1>1, Invariance, PTL
=============================================================================
