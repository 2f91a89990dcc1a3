-------------------------- MODULE IdempotencyProofs --------------------------
(***************************************************************************)
(* Proofs about Idempotency for any number of requests and bodies.         *)
(***************************************************************************)
EXTENDS Idempotency, TLAPS

\* Whatever the key holds at the start is an entry.
LEMMA InitType == Init => TypeOK
  BY DEF Init, TypeOK, Places, TxStates, Answers, Value, Free, Legacy, Corrupt,
         Alien

\* Every step keeps the types.
LEMMA TypeStep == TypeOK /\ [Next]_vars => TypeOK'
<1> SUFFICES ASSUME TypeOK, [Next]_vars PROVE TypeOK'
  OBVIOUS
<1> USE DEF TypeOK, Places, TxStates, Answers, Value, GoTo, Answer,
            Unreplayable, RedisFails
<1>1. ASSUME NEW r \in Requests, Submit(r) PROVE TypeOK'
  BY <1>1 DEF Submit
<1>2. ASSUME NEW r \in Requests, Claim(r) PROVE TypeOK'
  <2>1. CASE entry = Free
    BY <1>2, <2>1 DEF Claim, Claimed
  <2>2. CASE entry # Free
    BY <1>2, <2>2 DEF Claim
  <2> QED BY <2>1, <2>2
<1>3. ASSUME NEW r \in Requests, ClaimFails(r) PROVE TypeOK'
  <2>1. entry' = entry \/ entry' = Claimed(r)
    BY <1>3 DEF ClaimFails
  <2>2. pc' \in [Requests -> Places] /\ answer' \in [Requests -> Answers]
    BY <1>3 DEF ClaimFails
  <2> QED BY <1>3, <2>1, <2>2 DEF ClaimFails, Claimed
<1>4. ASSUME NEW r \in Requests, Read(r) PROVE TypeOK'
  BY <1>4 DEF Read
<1>5. ASSUME NEW r \in Requests, ReadFails(r) PROVE TypeOK'
  BY <1>5 DEF ReadFails
<1>6. ASSUME NEW r \in Requests, Delete(r) PROVE TypeOK'
  <2>1. pc' \in [Requests -> Places] /\ answer' \in [Requests -> Answers]
    BY <1>6 DEF Delete
  <2>2. entry' \in [state : {"free", "corrupt", "alien", "in_progress", "done"},
                    body : Bodies \cup {NONE}, by : Requests \cup {NONE}]
    BY <1>6 DEF Delete, Free
  <2>3. UNCHANGED <<body, tx, ran, unshielded>> /\ trouble' \subseteq {"fault", "corrupt"}
    BY <1>6 DEF Delete
  <2> QED BY <2>1, <2>2, <2>3
<1>7. ASSUME NEW r \in Requests, Run(r) PROVE TypeOK'
  <2>1. pc' \in [Requests -> Places] /\ tx' \in [Requests -> TxStates]
    BY <1>7 DEF Run
  <2>2. answer' \in [Requests -> Answers]
    BY <1>7 DEF Run
  <2> QED BY <1>7, <2>1, <2>2 DEF Run
<1>8. ASSUME NEW r \in Requests, EndTransaction(r) PROVE TypeOK'
  <2>1. tx' \in [Requests -> TxStates]
    BY <1>8 DEF EndTransaction
  <2>2. pc' \in [Requests -> Places] /\ answer' \in [Requests -> Answers]
    BY <1>8 DEF EndTransaction
  <2> QED BY <1>8, <2>1, <2>2 DEF EndTransaction
<1>9. ASSUME NEW r \in Requests, Store(r) \/ Reply(r) PROVE TypeOK'
  <2>1. entry' = entry \/ entry' = Captured(r)
    BY <1>9 DEF Store, Reply
  <2>2. pc' \in [Requests -> Places] /\ answer' \in [Requests -> Answers]
    BY <1>9 DEF Store, Reply
  <2>3. entry' \in [state : {"free", "corrupt", "alien", "in_progress", "done"},
                    body : Bodies \cup {NONE}, by : Requests \cup {NONE}]
    BY <2>1 DEF Captured
  <2>4. UNCHANGED <<body, tx, ran, unshielded>> /\ trouble' \subseteq {"fault", "corrupt"}
    BY <1>9 DEF Store, Reply
  <2> QED BY <2>2, <2>3, <2>4
<1>10. ASSUME NEW r \in Requests, Crash(r) PROVE TypeOK'
  BY <1>10 DEF Crash
<1>11. CASE Expire
  BY <1>11 DEF Expire, Free
<1>12. CASE UNCHANGED vars
  BY <1>12 DEF vars
<1> QED
  BY <1>1, <1>2, <1>3, <1>4, <1>5, <1>6, <1>7, <1>8, <1>9, <1>10, <1>11, <1>12
     DEF Next, Handle, Finished

\* TypeOK for every number of requests.
THEOREM TypeCorrect == Spec => []TypeOK
  BY InitType, TypeStep, PTL DEF Spec

-----------------------------------------------------------------------------
(* Replays, whatever Redis does.                                           *)

\* The entry carries the body of the request it names, and that request's
\* body does not change any more; a replay is of such a request.
BodiesFixed ==
    /\ entry.state = "done" => entry.by # NONE
    /\ entry.by # NONE =>
         /\ entry.by \in Requests
         /\ pc[entry.by] # "new"
         /\ entry.body = body[entry.by]
    /\ \A r \in Requests : answer[r].kind = "replay" =>
         /\ pc[r] # "new"
         /\ answer[r].from \in Requests
         /\ pc[answer[r].from] # "new"

ReplayInv == TypeOK /\ BodiesFixed /\ ReplaysMatchBody

\* Every step keeps what is stored and replayed with the body it answers.
LEMMA ReplayStep == ReplayInv /\ [Next]_vars => ReplayInv'
<1> SUFFICES ASSUME ReplayInv, [Next]_vars PROVE ReplayInv'
  OBVIOUS
<1>0. TypeOK'
  BY TypeStep DEF ReplayInv
<1> DEFINE Inv == BodiesFixed /\ ReplaysMatchBody
<1> SUFFICES Inv'
  BY <1>0 DEF ReplayInv
<1> USE DEF ReplayInv, TypeOK, BodiesFixed, ReplaysMatchBody, Value, GoTo,
            Answer, Unreplayable, RedisFails
<1>1. ASSUME NEW r \in Requests, Submit(r) PROVE Inv'
  BY <1>1 DEF Submit
<1>2. ASSUME NEW r \in Requests, Claim(r) PROVE Inv'
  BY <1>2 DEF Claim, Claimed
<1>3. ASSUME NEW r \in Requests, ClaimFails(r) PROVE Inv'
  BY <1>3 DEF ClaimFails, Claimed
<1>4. ASSUME NEW r \in Requests, Read(r) PROVE Inv'
  <2>1. pc[r] \in {"read", "reread"} /\ UNCHANGED <<entry, body>>
    BY <1>4 DEF Read
  <2>2. CASE UNCHANGED answer
    BY <1>4, <2>1, <2>2 DEF Read
  <2>3. CASE Answer(r, "conflict", NONE) \/ Answer(r, "server_error", NONE)
    BY <2>1, <2>3
  <2>4. CASE Answer(r, "replay", entry.by)
    BY <1>4, <2>1, <2>4 DEF Read
  <2> QED BY <1>4, <2>2, <2>3, <2>4 DEF Read
<1>5. ASSUME NEW r \in Requests, ReadFails(r) PROVE Inv'
  BY <1>5 DEF ReadFails
<1>6. ASSUME NEW r \in Requests, Delete(r) PROVE Inv'
  BY <1>6 DEF Delete, Free
<1>7. ASSUME NEW r \in Requests, Run(r) PROVE Inv'
  BY <1>7 DEF Run
<1>8. ASSUME NEW r \in Requests, EndTransaction(r) PROVE Inv'
  BY <1>8 DEF EndTransaction
<1>9. ASSUME NEW r \in Requests, Store(r) \/ Reply(r) PROVE Inv'
  <2>1. /\ pc[r] \in {"store", "reply"} /\ UNCHANGED body
        /\ Answer(r, "own", r)
        /\ entry' = entry \/ entry' = Captured(r)
    BY <1>9 DEF Store, Reply
  <2>2. BodiesFixed'
    BY <2>1, IdempotencyAssumption DEF Captured
  <2>3. ReplaysMatchBody'
    BY <2>1
  <2> QED BY <2>2, <2>3
<1>10. ASSUME NEW r \in Requests, Crash(r) PROVE Inv'
  BY <1>10 DEF Crash
<1>11. CASE Expire
  BY <1>11 DEF Expire, Free
<1>12. CASE UNCHANGED vars
  BY <1>12 DEF vars
<1> QED
  BY <1>1, <1>2, <1>3, <1>4, <1>5, <1>6, <1>7, <1>8, <1>9, <1>10, <1>11, <1>12
     DEF Next, Handle, Finished

\* Nobody is given the response to another body: not when Redis commands fail
\* or lose their replies, not when an unreadable entry is cleared.
THEOREM RightReplays == Spec => []ReplaysMatchBody
<1>1. Init => ReplayInv
  <2> SUFFICES ASSUME Init PROVE BodiesFixed /\ ReplaysMatchBody
    BY InitType DEF ReplayInv
  <2> QED
    BY DEF Init, BodiesFixed, ReplaysMatchBody, Value, Free, Legacy, Corrupt,
           Alien
<1>2. ReplayInv => ReplaysMatchBody
  BY DEF ReplayInv
<1> QED BY <1>1, <1>2, ReplayStep, PTL DEF Spec

-----------------------------------------------------------------------------
(* A healthy Redis.                                                        *)

\* The entry names the one request that runs or has run, which is at its
\* handler, at its store, or over.
OneHolder ==
    /\ entry.state # "corrupt"
    /\ \A r \in Requests :
         /\ pc[r] \notin {"bare", "reply", "delete", "redelete"}
         /\ pc[r] = "run" => entry.state = "in_progress" /\ entry.by = r
         /\ pc[r] = "store" => entry.state = "in_progress" /\ entry.by = r
    /\ \A r \in ran : entry.state \in {"in_progress", "done"} /\ entry.by = r

HealthyInv == trouble = {} => OneHolder

\* A step that leaves no trace of trouble has OneHolder before and after it.
LEMMA HolderStep ==
  ASSUME TypeOK, HealthyInv, [Next]_vars PROVE HealthyInv'
<1> SUFFICES ASSUME trouble' = {} PROVE OneHolder'
  BY DEF HealthyInv
<1>0. OneHolder
  <2>1. trouble \subseteq trouble'
    BY DEF Next, Handle, Finished, Submit, Claim, ClaimFails, Read, ReadFails,
           Delete, Run, EndTransaction, Reply, Store, Crash, Expire, RedisFails,
           vars
  <2> QED BY <2>1 DEF HealthyInv
<1> USE <1>0 DEF TypeOK, OneHolder, Value, GoTo, Answer, Unreplayable
<1>1. ASSUME NEW r \in Requests, Submit(r) PROVE OneHolder'
  BY <1>1 DEF Submit
<1>2. ASSUME NEW r \in Requests, Claim(r) PROVE OneHolder'
  <2>1. CASE entry = Free
    BY <1>2, <2>1 DEF Claim, Claimed, Free
  <2>2. CASE entry # Free
    BY <1>2, <2>2 DEF Claim
  <2> QED BY <2>1, <2>2
<1>3. ASSUME NEW r \in Requests, ClaimFails(r) \/ ReadFails(r) \/ Delete(r)
      PROVE OneHolder'
  BY <1>3 DEF ClaimFails, ReadFails, Delete, RedisFails
<1>4. ASSUME NEW r \in Requests, Read(r) PROVE OneHolder'
  BY <1>4 DEF Read, Unreadable
<1>5. ASSUME NEW r \in Requests, Run(r) PROVE OneHolder'
  BY <1>5 DEF Run
<1>6. ASSUME NEW r \in Requests, EndTransaction(r) PROVE OneHolder'
  BY <1>6 DEF EndTransaction
<1>7. ASSUME NEW r \in Requests, Store(r) \/ Reply(r) PROVE OneHolder'
  BY <1>7 DEF Store, Reply, Captured, RedisFails
<1>8. ASSUME NEW r \in Requests, Crash(r) PROVE OneHolder'
  BY <1>8 DEF Crash
<1>9. CASE Expire
  BY <1>9 DEF Expire, Free
<1>10. CASE UNCHANGED vars
  BY <1>10 DEF vars
<1> QED
  BY <1>1, <1>2, <1>3, <1>4, <1>5, <1>6, <1>7, <1>8, <1>9, <1>10
     DEF Next, Handle, Finished

\* With a healthy Redis a handler runs once per key and TTL, for any number of
\* retries, whichever of them crash, raise or answer before they commit.
THEOREM RunsOnce == Spec => []HandlerRunsOnce
<1>1. Init => HealthyInv
  BY DEF Init, HealthyInv, OneHolder, Value, Free, Legacy, Alien
<1>2. TypeOK /\ HealthyInv /\ [Next]_vars => HealthyInv'
  BY HolderStep
<1>3. HealthyInv => HandlerRunsOnce
  BY DEF HealthyInv, OneHolder, HandlerRunsOnce
<1> QED BY <1>1, <1>2, <1>3, TypeCorrect, PTL DEF Spec

\* A request between its claim and its store still holds the key, even when
\* other requests fail open.
Holds ==
    /\ entry.state # "corrupt"
    /\ \A r \in Requests :
         /\ pc[r] \notin {"delete", "redelete"}
         /\ pc[r] \in {"run", "store"} =>
              entry.state = "in_progress" /\ entry.by = r

ReadableInv == "corrupt" \notin trouble => Holds

Keeps ==
    entry.state = "done" /\ "corrupt" \notin trouble =>
      entry' = entry \/ (entry' = Free /\ ran' = {})

\* Every step leaves a claim with its request and a stored answer in place.
LEMMA HoldsStep ==
  ASSUME TypeOK, ReadableInv, [Next]_vars PROVE ReadableInv' /\ Keeps
<1>0. ("corrupt" \in trouble') <=> ("corrupt" \in trouble)
  BY DEF Next, Handle, Finished, Submit, Claim, ClaimFails, Read, ReadFails,
         Delete, Run, EndTransaction, Reply, Store, Crash, Expire, RedisFails,
         vars
<1> SUFFICES ASSUME Holds PROVE Holds' /\ Keeps
  BY <1>0 DEF ReadableInv, Keeps
<1> USE DEF TypeOK, Holds, Keeps, Value, GoTo, Answer, Unreplayable
<1>1. ASSUME NEW r \in Requests, Submit(r) PROVE Holds' /\ Keeps
  BY <1>1 DEF Submit
<1>2. ASSUME NEW r \in Requests, Claim(r) PROVE Holds' /\ Keeps
  <2>1. CASE entry = Free
    BY <1>2, <2>1 DEF Claim, Claimed, Free
  <2>2. CASE entry # Free
    BY <1>2, <2>2 DEF Claim
  <2> QED BY <2>1, <2>2
<1>3. ASSUME NEW r \in Requests, ClaimFails(r) PROVE Holds' /\ Keeps
  BY <1>3 DEF ClaimFails, Claimed, Free
<1>4. ASSUME NEW r \in Requests, Read(r) PROVE Holds' /\ Keeps
  BY <1>4 DEF Read, Unreadable
<1>5. ASSUME NEW r \in Requests, ReadFails(r) \/ Delete(r) PROVE Holds' /\ Keeps
  BY <1>5 DEF ReadFails, Delete
<1>6. ASSUME NEW r \in Requests, Run(r) PROVE Holds' /\ Keeps
  BY <1>6 DEF Run
<1>7. ASSUME NEW r \in Requests, EndTransaction(r) PROVE Holds' /\ Keeps
  BY <1>7 DEF EndTransaction
<1>8. ASSUME NEW r \in Requests, Store(r) \/ Reply(r) PROVE Holds' /\ Keeps
  BY <1>8 DEF Store, Reply, Captured
<1>9. ASSUME NEW r \in Requests, Crash(r) PROVE Holds' /\ Keeps
  BY <1>9 DEF Crash
<1>10. CASE Expire
  BY <1>10 DEF Expire, Free
<1>11. CASE UNCHANGED vars
  BY <1>11 DEF vars
<1> QED
  BY <1>1, <1>2, <1>3, <1>4, <1>5, <1>6, <1>7, <1>8, <1>9, <1>10, <1>11
     DEF Next, Handle, Finished

\* Unless the key held something unreadable, a stored response is what every
\* retry finds until its TTL, even while Redis commands fail.
THEOREM AnswerKept == Spec => StoredAnswerStays
<1>1. Init => ReadableInv
  BY DEF Init, ReadableInv, Holds, Value, Free, Legacy, Alien
<1>2. TypeOK /\ ReadableInv /\ [Next]_vars => ReadableInv'
  BY HoldsStep
<1>3. TypeOK /\ ReadableInv /\ [Next]_vars =>
        [entry.state = "done" /\ "corrupt" \notin trouble =>
           entry' = entry \/ (entry' = Free /\ ran' = {})]_vars
  BY HoldsStep DEF Keeps
<1> QED BY <1>1, <1>2, <1>3, TypeCorrect, PTL DEF Spec, StoredAnswerStays

-----------------------------------------------------------------------------
(* A Redis that fails.                                                     *)

\* The request of a key that has run its handler under it still has the key,
\* and runs without it only if its own first claim failed.
ShieldInv ==
    /\ Holds
    /\ \A r \in Requests : pc[r] \in {"bare", "reply"} => r \in unshielded
    /\ \A r \in ran \ unshielded :
         entry.state \in {"in_progress", "done"} /\ entry.by = r

ReadableShield == "corrupt" \notin trouble => ShieldInv

\* A failing command leaves the claims of the requests it did not hit alone.
LEMMA ShieldStep ==
  ASSUME TypeOK, ReadableShield, [Next]_vars PROVE ReadableShield'
<1>0. "corrupt" \in trouble => "corrupt" \in trouble'
  BY DEF Next, Handle, Finished, Submit, Claim, ClaimFails, Read, ReadFails,
         Delete, Run, EndTransaction, Reply, Store, Crash, Expire, RedisFails,
         vars
<1>1. SUFFICES ASSUME "corrupt" \notin trouble' PROVE ShieldInv'
  BY DEF ReadableShield
<1>2. ShieldInv /\ Holds'
  BY <1>0, <1>1, HoldsStep DEF ReadableShield, ReadableInv, ShieldInv
<1> DEFINE Shield ==
      /\ \A r \in Requests : pc[r] \in {"bare", "reply"} => r \in unshielded
      /\ \A r \in ran \ unshielded :
           entry.state \in {"in_progress", "done"} /\ entry.by = r
<1> SUFFICES Shield'
  BY <1>2 DEF ShieldInv
<1> USE <1>2 DEF TypeOK, ShieldInv, Holds, Value, GoTo, Answer, Unreplayable
<1>3. ASSUME NEW r \in Requests, Submit(r) PROVE Shield'
  BY <1>3 DEF Submit
<1>4. ASSUME NEW r \in Requests, Claim(r) PROVE Shield'
  BY <1>4 DEF Claim, Claimed, Free
<1>5. ASSUME NEW r \in Requests, ClaimFails(r) PROVE Shield'
  BY <1>5 DEF ClaimFails, Claimed, Free
<1>6. ASSUME NEW r \in Requests, Read(r) \/ ReadFails(r) \/ Delete(r)
      PROVE Shield'
  BY <1>6 DEF Read, ReadFails, Delete
<1>7. ASSUME NEW r \in Requests, Run(r) PROVE Shield'
  BY <1>7 DEF Run
<1>8. ASSUME NEW r \in Requests, EndTransaction(r) PROVE Shield'
  BY <1>8 DEF EndTransaction
<1>9. ASSUME NEW r \in Requests, Store(r) \/ Reply(r) PROVE Shield'
  BY <1>9 DEF Store, Reply, Captured
<1>10. ASSUME NEW r \in Requests, Crash(r) PROVE Shield'
  BY <1>10 DEF Crash
<1>11. CASE Expire
  BY <1>11 DEF Expire, Free
<1>12. CASE UNCHANGED vars
  BY <1>12 DEF vars
<1> QED
  BY <1>3, <1>4, <1>5, <1>6, <1>7, <1>8, <1>9, <1>10, <1>11, <1>12
     DEF Next, Handle, Finished

\* However many Redis commands fail, at whatever step, the requests that got
\* through their own first claim run one handler at most per key and TTL.
THEOREM FaultsStayTheirOwn == Spec => []ShieldedRunOnce
<1>1. Init => ReadableShield
  BY DEF Init, ReadableShield, ShieldInv, Holds, Value, Free, Legacy, Alien
<1>2. TypeOK /\ ReadableShield /\ [Next]_vars => ReadableShield'
  BY ShieldStep
<1>3. ReadableShield => ShieldedRunOnce
  BY DEF ReadableShield, ShieldInv, ShieldedRunOnce
<1> QED BY <1>1, <1>2, <1>3, TypeCorrect, PTL DEF Spec

-----------------------------------------------------------------------------
(* Run once, keep, replay: Once.                                           *)

\* A client is answered once, when its request is over; what has not come to
\* the end of its handler has not run.
OneAnswer ==
    \A r \in Requests :
      /\ pc[r] # "closed" => answer[r].from = NONE
      /\ pc[r] \notin {"store", "reply", "closed"} => r \notin ran /\ tx[r] = "none"
      /\ tx[r] = "open" /\ pc[r] = "closed" => ReplyFirst

\* Who is to store its response, and whose response is stored, has run.
StoredRan ==
    /\ \A r \in Requests : pc[r] = "store" => r \in ran
    /\ entry.state = "done" => entry.by \in ran

OnceInv == TypeOK /\ OneAnswer /\ HealthyInv /\ (trouble = {} => StoredRan)

\* Every step answers a client once.
LEMMA AnswerStep == TypeOK /\ OneAnswer /\ [Next]_vars => OneAnswer'
<1> SUFFICES ASSUME TypeOK, OneAnswer, [Next]_vars PROVE OneAnswer'
  OBVIOUS
<1> USE DEF TypeOK, OneAnswer, GoTo, Answer, Unreplayable, Places
<1>1. ASSUME NEW r \in Requests, Submit(r) PROVE OneAnswer'
  BY <1>1 DEF Submit
<1>2. ASSUME NEW r \in Requests, Claim(r) \/ ClaimFails(r) PROVE OneAnswer'
  BY <1>2 DEF Claim, ClaimFails
<1>3. ASSUME NEW r \in Requests, Read(r) PROVE OneAnswer'
  BY <1>3 DEF Read
<1>4. ASSUME NEW r \in Requests, ReadFails(r) \/ Delete(r) PROVE OneAnswer'
  BY <1>4 DEF ReadFails, Delete
<1>5. ASSUME NEW r \in Requests, Run(r) PROVE OneAnswer'
  BY <1>5 DEF Run
<1>6. ASSUME NEW r \in Requests, EndTransaction(r) PROVE OneAnswer'
  BY <1>6 DEF EndTransaction
<1>7. ASSUME NEW r \in Requests, Store(r) \/ Reply(r) PROVE OneAnswer'
  BY <1>7 DEF Store, Reply, Answered
<1>8. ASSUME NEW r \in Requests, Crash(r) PROVE OneAnswer'
  BY <1>8 DEF Crash
<1>9. CASE Expire
  BY <1>9 DEF Expire
<1>10. CASE UNCHANGED vars
  BY <1>10 DEF vars
<1> QED
  BY <1>1, <1>2, <1>3, <1>4, <1>5, <1>6, <1>7, <1>8, <1>9, <1>10
     DEF Next, Handle, Finished

\* Without trouble every step keeps what is stored with who has run.
LEMMA StoredStep ==
  ASSUME OnceInv, [Next]_vars, trouble' = {} PROVE trouble = {} /\ StoredRan'
<1>0. trouble = {} /\ StoredRan /\ OneHolder /\ TypeOK
  <2>1. trouble \subseteq trouble'
    BY DEF Next, Handle, Finished, Submit, Claim, ClaimFails, Read, ReadFails,
           Delete, Run, EndTransaction, Reply, Store, Crash, Expire, RedisFails,
           vars
  <2> QED BY <2>1 DEF OnceInv, HealthyInv
<1> USE <1>0 DEF TypeOK, StoredRan, OneHolder, Value, GoTo, Answer, Unreplayable
<1>1. ASSUME NEW r \in Requests, Submit(r) PROVE StoredRan'
  BY <1>1 DEF Submit
<1>2. ASSUME NEW r \in Requests, Claim(r) PROVE StoredRan'
  BY <1>2 DEF Claim, Claimed
<1>3. ASSUME NEW r \in Requests, ClaimFails(r) \/ ReadFails(r) \/ Delete(r)
      PROVE StoredRan'
  BY <1>3 DEF ClaimFails, ReadFails, Delete, RedisFails
<1>4. ASSUME NEW r \in Requests, Read(r) PROVE StoredRan'
  BY <1>4 DEF Read
<1>5. ASSUME NEW r \in Requests, Run(r) PROVE StoredRan'
  BY <1>5 DEF Run
<1>6. ASSUME NEW r \in Requests, EndTransaction(r) PROVE StoredRan'
  BY <1>6 DEF EndTransaction
<1>7. ASSUME NEW r \in Requests, Store(r) \/ Reply(r) PROVE StoredRan'
  BY <1>7 DEF Store, Reply, Captured, RedisFails
<1>8. ASSUME NEW r \in Requests, Crash(r) PROVE StoredRan'
  BY <1>8 DEF Crash
<1>9. CASE Expire
  BY <1>9 DEF Expire, Free
<1>10. CASE UNCHANGED vars
  BY <1>10 DEF vars
<1> QED
  BY <1>0, <1>1, <1>2, <1>3, <1>4, <1>5, <1>6, <1>7, <1>8, <1>9, <1>10
     DEF Next, Handle, Finished

\* Each step without trouble is one that Once promises, or none of its.
LEMMA PromiseStep ==
  ASSUME OnceInv, [Next]_vars, trouble' = {}
  PROVE  Promise!Promised \/ UNCHANGED <<ran, Kept, Told>>
<1> DEFINE Goal == Promise!Promised \/ UNCHANGED <<ran, Kept, Told>>
<1>0. trouble = {} /\ StoredRan /\ OneHolder /\ TypeOK /\ OneAnswer
  BY StoredStep DEF OnceInv, HealthyInv
<1>1. ASSUME UNCHANGED <<ran, entry, answer>> PROVE Goal
  BY <1>1 DEF Kept, Told
\* A step that gives a client no response.
<1>2. ASSUME NEW r \in Requests, NEW kind, UNCHANGED <<ran, entry>>,
             pc[r] # "closed", Answer(r, kind, NONE) PROVE Goal
  <2>1. Told' = Told
    BY <1>0, <1>2 DEF Answer, Told, TypeOK, OneAnswer
  <2> QED BY <1>2, <2>1 DEF Kept
<1>3. ASSUME NEW r \in Requests, Claim(r) PROVE Goal
  <2>1. UNCHANGED <<ran, answer>>
    BY <1>3 DEF Claim, GoTo
  <2>2. Kept' = Kept
    BY <1>3 DEF Claim, Claimed, Free, Value, Kept
  <2> QED BY <2>1, <2>2 DEF Told
<1>4. ASSUME NEW r \in Requests, Read(r) PROVE Goal
  <2>1. pc[r] \in {"read", "reread"} /\ UNCHANGED <<entry, ran>>
    BY <1>4 DEF Read
  <2>2. CASE UNCHANGED answer
    BY <1>1, <2>1, <2>2
  <2>3. CASE Answer(r, "conflict", NONE) \/ Answer(r, "server_error", NONE)
    BY <1>2, <2>1, <2>3
  <2>4. CASE Answer(r, "replay", entry.by) /\ entry.state = "done"
    <3>1. Kept = entry.by /\ Kept # NONE
      BY <1>0, <2>4, IdempotencyAssumption DEF Kept, StoredRan, TypeOK
    <3>2. Told[r] = NONE
      BY <1>0, <2>1 DEF Told, OneAnswer
    <3>3. Told' = [Told EXCEPT ![r] = Kept]
      BY <1>0, <2>4, <3>1 DEF Answer, Told, TypeOK
    <3>4. Kept' = Kept
      BY <2>1 DEF Kept
    <3>5. Promise!Replay(r)
      BY <2>1, <3>1, <3>2, <3>3, <3>4 DEF Promise!Replay
    <3> QED BY <3>5 DEF Promise!Promised
  <2> QED BY <1>4, <2>2, <2>3, <2>4 DEF Read, Unreplayable, GoTo
<1>5. ASSUME NEW r \in Requests, Run(r) PROVE Goal
  <2>1. pc[r] = "run" /\ ran' = ran \cup {r} /\ UNCHANGED entry
    BY <1>0, <1>5 DEF Run, OneHolder
  <2>2. ran = {}
    BY <1>0, <2>1 DEF OneHolder, OneAnswer
  <2>3. Told' = Told
    BY <1>0, <1>5, <2>1 DEF Run, GoTo, Answer, Told, TypeOK, OneAnswer
  <2>4. Kept' = Kept
    BY <2>1 DEF Kept
  <2>5. Promise!Run(r)
    BY <2>1, <2>2, <2>3, <2>4 DEF Promise!Run
  <2> QED BY <2>5 DEF Promise!Promised
<1>6. ASSUME NEW r \in Requests, EndTransaction(r) PROVE Goal
  <2>1. CASE UNCHANGED answer
    BY <1>1, <1>6, <2>1 DEF EndTransaction
  <2>2. CASE ~ ReplyFirst /\ Answer(r, "server_error", NONE)
    BY <1>0, <1>2, <1>6, <2>2 DEF EndTransaction, OneAnswer
  <2> QED BY <1>6, <2>1, <2>2 DEF EndTransaction
<1>7. ASSUME NEW r \in Requests, Store(r) PROVE Goal
  <2>1. /\ pc[r] = "store" /\ entry' = Captured(r) /\ Answer(r, "own", r)
        /\ UNCHANGED ran
    BY <1>7 DEF Store, RedisFails
  <2>2. ran = {r} /\ entry.state = "in_progress"
    BY <1>0, <2>1 DEF OneHolder, StoredRan
  <2>3. Kept = NONE /\ Kept' = r
    BY <2>1, <2>2 DEF Kept, Captured, Value
  <2>4. Told[r] = NONE /\ Told' = [Told EXCEPT ![r] = r]
    BY <1>0, <2>1 DEF Told, Answer, TypeOK, OneAnswer
  <2>5. Promise!Keep(r)
    BY <2>1, <2>2, <2>3, <2>4 DEF Promise!Keep
  <2> QED BY <2>5 DEF Promise!Promised
<1>8. CASE Expire
  <2>1. ran' = {} /\ Kept' = NONE /\ Told' = Told
    BY <1>8 DEF Expire, Kept, Told, Free, Value
  <2> QED BY <2>1 DEF Promise!Promised, Promise!Forget
<1>9. ASSUME NEW r \in Requests,
             ClaimFails(r) \/ ReadFails(r) \/ Delete(r) \/ Reply(r)
      PROVE  FALSE
  BY <1>0, <1>9 DEF ClaimFails, ReadFails, Delete, Reply, RedisFails, OneHolder
<1>10. ASSUME NEW r \in Requests, Submit(r) \/ Crash(r) PROVE Goal
  BY <1>1, <1>10 DEF Submit, Crash, GoTo
<1>11. CASE UNCHANGED vars
  BY <1>1, <1>11 DEF vars
<1> QED
  BY <1>3, <1>4, <1>5, <1>6, <1>7, <1>8, <1>9, <1>10, <1>11
     DEF Next, Handle, Finished

\* Until something goes wrong in Redis the middleware is run once, keep, replay,
\* for any number of retries, with raising handlers, failing commits and
\* crashes, and whether or not the commit comes before the response.
THEOREM MiddlewareImplementsOnce == Spec => ImplementsOnce
<1>1. Init => OnceInv /\ Promise!Init
  <2> SUFFICES ASSUME Init PROVE OnceInv /\ Promise!Init
    OBVIOUS
  <2>1. OnceInv
    BY InitType DEF Init, OnceInv, OneAnswer, HealthyInv, OneHolder, StoredRan,
                    Value, Free, Legacy, Alien
  <2>2. Promise!Init
    BY DEF Init, Promise!Init, Kept, Told, Value, Free, Legacy, Corrupt, Alien
  <2> QED BY <2>1, <2>2
<1>2. OnceInv /\ [Next]_vars => OnceInv'
  BY TypeStep, AnswerStep, HolderStep, StoredStep DEF OnceInv
<1>3. OnceInv /\ [Next]_vars => [Promise!Next]_(Promise!once)
  <2> SUFFICES ASSUME OnceInv, [Next]_vars
               PROVE  Promise!Next \/ UNCHANGED Promise!once
    OBVIOUS
  <2>1. CASE trouble' # {}
    BY <2>1 DEF Promise!Next
  <2>2. CASE trouble' = {}
    <3>1. trouble = {}
      BY <2>2, StoredStep
    <3>2. CASE Promise!Promised
      BY <2>2, <3>1, <3>2 DEF Promise!Next
    <3>3. CASE UNCHANGED <<ran, Kept, Told>>
      BY <2>2, <3>1, <3>3 DEF Promise!once
    <3> QED BY <2>2, <3>2, <3>3, PromiseStep
  <2> QED BY <2>1, <2>2
<1> QED BY <1>1, <1>2, <1>3, PTL DEF Spec, ImplementsOnce, Promise!Spec
=============================================================================
