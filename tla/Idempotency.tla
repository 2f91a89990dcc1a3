----------------------------- MODULE Idempotency -----------------------------
(***************************************************************************)
(* IdempotencyMiddleware (src/reckonflow/api/middleware/idempotency.py):   *)
(* requests that carry one Idempotency-Key, and the Redis entry of that    *)
(* key.  Keys of other requests never meet this entry.  Every Redis        *)
(* command is a step; between two of them the other requests run.          *)
(*                                                                         *)
(* A response is named by the request whose handler made it, a body by its *)
(* fingerprint.  The entry outlives every request: nothing that holds the  *)
(* key runs for the 24 hours of its TTL.                                   *)
(***************************************************************************)
CONSTANTS
    Requests,        \* POSTs with the same key, method and path
    Bodies,
    ReplyFirst,      \* TRUE: get_db's commit runs after the response is sent
    NONE

ASSUME IdempotencyAssumption ==
    /\ NONE \notin Requests \cup Bodies
    /\ ReplyFirst \in BOOLEAN

VARIABLES
    entry,           \* the value of the key in Redis
    pc,
    body,            \* a request's body
    tx,              \* its handler's database transaction
    answer,          \* what its client got, and whose response that is
    ran,             \* history: the requests that ran their handler since the
                     \* key was last free
    unshielded,      \* history: the requests whose first claim failed, which
                     \* run without the key
    trouble          \* history: "fault" once a Redis command has failed,
                     \* "corrupt" if the key held something unreadable

vars == <<entry, pc, body, tx, answer, ran, unshielded, trouble>>

Value(state, b, r) == [state |-> state, body |-> b, by |-> r]
Free == Value("free", NONE, NONE)
Legacy == Value("in_progress", NONE, NONE)
Corrupt(b) == Value("corrupt", b, NONE)
Alien == Value("alien", NONE, NONE)
Claimed(r) == Value("in_progress", body[r], r)
CapturedMislabelled(r) == Value("stored", body[r], r)
Captured(r) == Value("done", body[r], r)

\* The key is free, or holds what the code no longer writes: the claim of an
\* older version, a JSON value that is no object, or something unreadable,
\* which may still name the body it belongs to.
Init ==
    /\ \/ entry \in {Free, Legacy, Alien} /\ trouble = {}
       \/ /\ \E b \in Bodies \cup {NONE} : entry = Corrupt(b)
          /\ trouble = {"corrupt"}
    /\ pc = [r \in Requests |-> "new"]
    /\ body = [r \in Requests |-> NONE]
    /\ tx = [r \in Requests |-> "none"]
    /\ answer = [r \in Requests |-> [kind |-> "none", from |-> NONE]]
    /\ ran = {}
    /\ unshielded = {}

-----------------------------------------------------------------------------
GoTo(r, place) == pc' = [pc EXCEPT ![r] = place] /\ UNCHANGED answer

Answer(r, kind, from) ==
    /\ pc' = [pc EXCEPT ![r] = "closed"]
    /\ answer' = [answer EXCEPT ![r] = [kind |-> kind, from |-> from]]

RedisFails == trouble' = trouble \cup {"fault"}

Submit(r) ==
    /\ pc[r] = "new"
    /\ \E b \in Bodies : body' = [body EXCEPT ![r] = b]
    /\ GoTo(r, "claim")
    /\ UNCHANGED <<entry, tx, ran, unshielded, trouble>>

ClaimWithoutNX(r) ==
    /\ pc[r] \in {"claim", "reclaim"}
    /\ entry' = Claimed(r)
    /\ GoTo(r, "run")
    /\ UNCHANGED <<body, tx, ran, unshielded, trouble>>

\* SET ... NX EX; the second attempt follows a failed replay.
Claim(r) ==
    /\ pc[r] \in {"claim", "reclaim"}
    /\ IF entry = Free
       THEN /\ entry' = Claimed(r)
            /\ GoTo(r, "run")
       ELSE /\ GoTo(r, IF pc[r] = "claim" THEN "read" ELSE "reread")
            /\ UNCHANGED entry
    /\ UNCHANGED <<body, tx, ran, unshielded, trouble>>

\* The first claim fails open, the second does not.  Redis may have executed
\* the command all the same.
ClaimFails(r) ==
    /\ RedisFails
    /\ \/ UNCHANGED entry
       \/ entry = Free /\ entry' = Claimed(r)
    /\ \/ /\ pc[r] = "claim" /\ GoTo(r, "bare")
          /\ unshielded' = unshielded \cup {r}
       \/ /\ pc[r] = "reclaim" /\ Answer(r, "conflict", NONE)
          /\ UNCHANGED unshielded
    /\ UNCHANGED <<body, tx, ran>>

UnreplayableRunning(r) ==
    IF pc[r] \in {"read", "delete"}
    THEN GoTo(r, "run")
    ELSE Answer(r, "conflict", NONE)

\* _handle_existing returned None.
Unreplayable(r) ==
    IF pc[r] \in {"read", "delete"}
    THEN GoTo(r, "reclaim")
    ELSE Answer(r, "conflict", NONE)

Unreadable(r) ==
    entry.state = "corrupt" /\ entry.body \in {NONE, body[r]}

ReadIgnoringBody(r) ==
    /\ pc[r] \in {"read", "reread"}
    /\ \/ entry = Free /\ Unreplayable(r)
       \/ entry.state = "alien" /\ Answer(r, "server_error", NONE)
       \/ entry.state = "corrupt" /\ GoTo(r, IF pc[r] = "read" THEN "delete" ELSE "redelete")
       \/ entry.state = "in_progress" /\ Answer(r, "conflict", NONE)
       \/ entry.state = "done" /\ Answer(r, "replay", entry.by)
    /\ UNCHANGED <<entry, body, tx, ran, unshielded, trouble>>

\* GET: another body, or a claim without a response, is a 409; a response is
\* replayed; an unreadable entry is to be deleted, unless it names another
\* body.
Read(r) ==
    /\ pc[r] \in {"read", "reread"}
    /\ \/ entry = Free /\ Unreplayable(r)
       \/ entry.state = "alien" /\ Answer(r, "server_error", NONE)
       \/ Unreadable(r) /\ GoTo(r, IF pc[r] = "read" THEN "delete" ELSE "redelete")
       \/ /\ entry.state \in {"corrupt", "in_progress", "done"} /\ ~ Unreadable(r)
          /\ IF entry.body = body[r] /\ entry.state = "done"
             THEN Answer(r, "replay", entry.by)
             ELSE Answer(r, "conflict", NONE)
    /\ UNCHANGED <<entry, body, tx, ran, unshielded, trouble>>

ReadFails(r) ==
    /\ pc[r] \in {"read", "reread"}
    /\ RedisFails
    /\ Unreplayable(r)
    /\ UNCHANGED <<entry, body, tx, ran, unshielded>>

\* DEL, whatever the key holds by now.
Delete(r) ==
    /\ pc[r] \in {"delete", "redelete"}
    /\ \/ entry' = Free /\ UNCHANGED trouble
       \/ RedisFails /\ UNCHANGED entry
    /\ Unreplayable(r)
    /\ UNCHANGED <<body, tx, ran, unshielded>>

-----------------------------------------------------------------------------
(* The route.                                                              *)

\* call_next: the route answers, its transaction refused (a 4xx leaves nothing
\* behind) or still open, or it raises and the claim is left as it is.
Run(r) ==
    /\ pc[r] \in {"run", "bare"}
    /\ ran' = ran \cup {r}
    /\ \/ /\ \E t \in {"refused", "open"} : tx' = [tx EXCEPT ![r] = t]
          /\ GoTo(r, IF pc[r] = "run" THEN "store" ELSE "reply")
       \/ /\ tx' = [tx EXCEPT ![r] = "lost"]
          /\ Answer(r, "server_error", NONE)
    /\ UNCHANGED <<entry, body, unshielded, trouble>>

\* get_db's commit, or its failure, which the client is told of only when the
\* commit comes first.
EndTransaction(r) ==
    /\ tx[r] = "open"
    /\ \/ /\ tx' = [tx EXCEPT ![r] = "committed"]
          /\ UNCHANGED <<pc, answer>>
       \/ /\ tx' = [tx EXCEPT ![r] = "lost"]
          /\ IF ReplyFirst THEN UNCHANGED <<pc, answer>>
                           ELSE Answer(r, "server_error", NONE)
    /\ UNCHANGED <<entry, body, ran, unshielded, trouble>>

\* The response reaches the middleware.
Answered(r) == ReplyFirst \/ tx[r] # "open"

\* A request that failed open stores nothing.
Reply(r) ==
    /\ pc[r] = "reply" /\ Answered(r)
    /\ Answer(r, "own", r)
    /\ UNCHANGED <<entry, body, tx, ran, unshielded, trouble>>

\* SET over the claim, unconditionally; a failure is only logged.
Store(r) ==
    /\ pc[r] = "store" /\ Answered(r)
    /\ \/ entry' = Captured(r) /\ UNCHANGED trouble
       \/ RedisFails /\ UNCHANGED entry
    /\ Answer(r, "own", r)
    /\ UNCHANGED <<body, tx, ran, unshielded>>

Crash(r) ==
    /\ pc[r] \notin {"new", "closed"}
    /\ pc' = [pc EXCEPT ![r] = "closed"]
    /\ tx' = [tx EXCEPT ![r] = IF @ = "open" THEN "lost" ELSE @]
    /\ UNCHANGED <<entry, body, answer, ran, unshielded, trouble>>

\* The TTL of an entry, while no request runs under the key.
Expire ==
    /\ entry # Free
    /\ \A r \in Requests : pc[r] \notin {"run", "store"} /\ tx[r] # "open"
    /\ entry' = Free
    /\ ran' = {}
    /\ UNCHANGED <<pc, body, tx, answer, unshielded, trouble>>

Handle(r) ==
    \/ Claim(r) \/ ClaimFails(r)
    \/ Read(r) \/ ReadFails(r) \/ Delete(r)
    \/ Run(r) \/ EndTransaction(r) \/ Reply(r) \/ Store(r)

Finished ==
    /\ \A r \in Requests : pc[r] = "closed" /\ tx[r] # "open"
    /\ UNCHANGED vars

Next ==
    \/ \E r \in Requests : Submit(r) \/ Handle(r) \/ Crash(r)
    \/ Expire
    \/ Finished

Spec == Init /\ [][Next]_vars

-----------------------------------------------------------------------------
(* Properties                                                              *)

Places == {"new", "claim", "read", "delete", "reclaim", "reread", "redelete",
           "run", "bare", "store", "reply", "closed"}

TxStates == {"none", "refused", "open", "committed", "lost"}

Answers == [kind : {"none", "own", "replay", "conflict", "server_error"},
            from : Requests \cup {NONE}]

TypeOK ==
    /\ entry \in [state : {"free", "corrupt", "alien", "in_progress", "done"},
                  body : Bodies \cup {NONE}, by : Requests \cup {NONE}]
    /\ pc \in [Requests -> Places]
    /\ body \in [Requests -> Bodies \cup {NONE}]
    /\ tx \in [Requests -> TxStates]
    /\ answer \in [Requests -> Answers]
    /\ ran \subseteq Requests
    /\ unshielded \subseteq Requests
    /\ trouble \subseteq {"fault", "corrupt"}

\* "A timed-out POST that the client retries must not double-post money": while
\* the key lives, one request at most runs its handler, however retries,
\* crashes and raising handlers interleave.  It needs a Redis whose commands
\* do not fail and a key that held nothing unreadable: two retries that both
\* GET such a value both DEL it, the second one the first one's new claim.
HandlerRunsOnce == trouble = {} => \A q, r \in ran : q = r

\* A replay is the answer to the same body, even when Redis commands fail or
\* an unreadable entry is cleared away.
ReplaysMatchBody ==
    \A r \in Requests : answer[r].kind = "replay" =>
      body[answer[r].from] = body[r]

\* "Availability wins over retry protection for that moment": a Redis that
\* fails costs the protection of the requests whose own first claim failed and
\* of nobody else.  All the others, the ones whose read, second claim, delete
\* or store failed among them, still run one handler at most while the key
\* lives.  The DEL that clears an unreadable entry is what it has to do without.
ShieldedRunOnce ==
    "corrupt" \notin trouble => \A q, r \in ran \ unshielded : q = r

\* The first stored response is the one every later retry gets: nothing
\* overwrites or deletes it before its TTL, not even requests that failed open.
\* The DEL that clears an unreadable entry is what it has to do without.
StoredAnswerStays ==
    [][entry.state = "done" /\ "corrupt" \notin trouble =>
         entry' = entry \/ (entry' = Free /\ ran' = {})]_vars

Kept == IF entry.state = "done" THEN entry.by ELSE NONE
Told == [r \in Requests |-> answer[r].from]

Promise == INSTANCE Once WITH
    kept <- Kept, told <- Told, broken <- trouble # {}

\* Retries get what Once.tla promises until a Redis command fails: run once,
\* keep the response, replay it, whatever handlers raise and processes die.
ImplementsOnce == Promise!Spec
=============================================================================
