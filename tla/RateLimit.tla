------------------------------ MODULE RateLimit ------------------------------
(***************************************************************************)
(* RateLimitMiddleware (src/reckonflow/api/middleware/rate_limit.py): the  *)
(* requests of one client, the Redis counter of that client, and the       *)
(* deques the server processes fall back to.  Clients share nothing.       *)
(*                                                                         *)
(* Time passes in ticks, Window of which make the 60 seconds.  Each Redis  *)
(* command is a step, may fail, and may have been executed when it does.   *)
(***************************************************************************)
EXTENDS Integers, Sequences, FiniteSets, Functions

CONSTANTS
    Requests,        \* connections of the client, each used again and again
    Processes,       \* instances of the server
    Serving,         \* the instance a connection ends at
    Limit,           \* requests_per_minute
    Window,          \* the 60 seconds, in ticks
    NONE

ASSUME RateLimitAssumption ==
    /\ Limit \in Nat \ {0} /\ Window \in Nat \ {0}
    /\ IsFiniteSet(Processes)
    /\ Serving \in [Requests -> Processes]
    /\ NONE \notin Int

VARIABLES
    count,           \* the counter in Redis, 0 when there is no key
    ttl,             \* ticks the key has left, NONE without a TTL
    hits,            \* per process, the ages of the entries of its deque
    pc,
    served,          \* history: requests the key has let through in its life
    recent,          \* history: by age, all requests let through lately
    trouble          \* history: "fault" once a Redis command has failed,
                     \* "crash" if a process died

redis == <<count, ttl, served>>
vars == <<count, ttl, hits, pc, served, recent, trouble>>

Ages == 0 .. Window - 1

\* More than any property allows in one window; the history counts no further.
RecentCap == (2 + Cardinality(Processes)) * Limit + 1

Upto(cap, n) == IF n < cap THEN n ELSE cap

Init ==
    /\ count = 0 /\ ttl = NONE
    /\ hits = [p \in Processes |-> <<>>]
    /\ pc = [r \in Requests |-> "idle"]
    /\ served = 0
    /\ recent = [a \in Ages |-> 0]
    /\ trouble = {}

-----------------------------------------------------------------------------
Arrive(r) ==
    /\ pc[r] = "idle"
    /\ pc' = [pc EXCEPT ![r] = "incr"]
    /\ UNCHANGED <<redis, hits, recent, trouble>>

Leave(r) == pc' = [pc EXCEPT ![r] = "idle"]

LetThrough == recent' = [recent EXCEPT ![0] = Upto(RecentCap, @ + 1)]

\* Past the limit the exact count makes no difference.
Counted == Upto(Limit + 1, count + 1)

IncrCheckedBeforeCounting(r) ==
    /\ pc[r] = "incr"
    /\ count' = Counted
    /\ IF count = 0
       THEN pc' = [pc EXCEPT ![r] = "expire"] /\ UNCHANGED <<served, recent>>
       ELSE /\ Leave(r)
            /\ IF count <= Limit
               THEN LetThrough /\ served' = Upto(Limit + 1, served + 1)
               ELSE UNCHANGED <<served, recent>>
    /\ UNCHANGED <<ttl, hits, trouble>>

IncrRenewing(r) ==
    /\ pc[r] = "incr"
    /\ count' = Counted
    /\ IF count = 0
       THEN pc' = [pc EXCEPT ![r] = "expire"] /\ UNCHANGED <<ttl, served, recent>>
       ELSE /\ Leave(r)
            /\ ttl' = Window
            /\ IF count' <= Limit
               THEN LetThrough /\ served' = Upto(Limit + 1, served + 1)
               ELSE UNCHANGED <<served, recent>>
    /\ UNCHANGED <<hits, trouble>>

\* INCR, which creates the key; only the first request of a key goes on to
\* EXPIRE, the verdict on the others needs no further command.
Incr(r) ==
    /\ pc[r] = "incr"
    /\ count' = Counted
    /\ IF count = 0
       THEN pc' = [pc EXCEPT ![r] = "expire"] /\ UNCHANGED <<served, recent>>
       ELSE /\ Leave(r)
            /\ IF count' <= Limit
               THEN LetThrough /\ served' = Upto(Limit + 1, served + 1)
               ELSE UNCHANGED <<served, recent>>
    /\ UNCHANGED <<ttl, hits, trouble>>

SetNoTTL == UNCHANGED ttl

SetTTL == ttl' = Window

Expire(r) ==
    /\ pc[r] = "expire"
    /\ SetTTL
    /\ Leave(r)
    /\ LetThrough
    /\ served' = Upto(Limit + 1, served + 1)
    /\ UNCHANGED <<count, hits, trouble>>

\* A deque without the entries older than the window, which are its oldest.
Fresh(window) ==
    LET stale == Cardinality({i \in DOMAIN window : window[i] > Window})
    IN SubSeq(window, stale + 1, Len(window))

CheckMemoryOffByOne(r) ==
    LET p == Serving[r]
        window == Fresh(hits[p])
    IN IF Len(window) > Limit
       THEN hits' = [hits EXCEPT ![p] = window] /\ UNCHANGED recent
       ELSE /\ hits' = [hits EXCEPT ![p] = Append(window, 0)]
            /\ LetThrough

CheckMemoryUnchecked(r) ==
    LetThrough /\ UNCHANGED hits

\* _check_memory: a deque that is full within the window refuses.
CheckMemory(r) ==
    LET p == Serving[r]
        window == Fresh(hits[p])
    IN IF Len(window) >= Limit
       THEN hits' = [hits EXCEPT ![p] = window] /\ UNCHANGED recent
       ELSE /\ hits' = [hits EXCEPT ![p] = Append(window, 0)]
            /\ LetThrough

\* The except branch.  The command may have reached Redis.
IncrFails(r) ==
    /\ pc[r] = "incr"
    /\ \/ UNCHANGED count
       \/ count' = Counted
    /\ CheckMemory(r)
    /\ Leave(r)
    /\ trouble' = trouble \cup {"fault"}
    /\ UNCHANGED <<ttl, served>>

ExpireFails(r) ==
    /\ pc[r] = "expire"
    /\ \/ UNCHANGED ttl
       \/ SetTTL
    /\ CheckMemory(r)
    /\ Leave(r)
    /\ trouble' = trouble \cup {"fault"}
    /\ UNCHANGED <<count, served>>

\* A process dies with its requests and its deques, and is started again.
Crash(p) ==
    /\ pc' = [r \in Requests |-> IF Serving[r] = p THEN "idle" ELSE pc[r]]
    /\ hits' = [hits EXCEPT ![p] = <<>>]
    /\ trouble' = trouble \cup {"crash"}
    /\ UNCHANGED <<redis, recent>>

\* Time passes; Redis deletes the key when its TTL is over.
Tick ==
    /\ IF ttl = 1 THEN count' = 0 /\ ttl' = NONE /\ served' = 0
       ELSE /\ ttl' = IF ttl = NONE THEN NONE ELSE ttl - 1
            /\ UNCHANGED <<count, served>>
    /\ hits' = [p \in Processes |->
                 [i \in DOMAIN hits[p] |-> Upto(Window + 1, hits[p][i] + 1)]]
    /\ recent' = [a \in Ages |-> IF a = 0 THEN 0 ELSE recent[a - 1]]
    /\ UNCHANGED <<pc, trouble>>

Next ==
    \/ \E r \in Requests :
         Arrive(r) \/ Incr(r) \/ Expire(r) \/ IncrFails(r) \/ ExpireFails(r)
    \/ \E p \in Processes : Crash(p)
    \/ Tick

Spec == Init /\ [][Next]_vars

\* Time goes on, and a request whose commands do not fail gets its answers:
\* the client's socket_timeout is two seconds.
Fairness ==
    /\ WF_vars(Tick)
    /\ \A r \in Requests : WF_vars(Incr(r) \/ Expire(r))

FairSpec == Spec /\ Fairness

-----------------------------------------------------------------------------
(* Properties                                                              *)

TypeOK ==
    /\ count \in 0 .. Limit + 1
    /\ ttl \in 1 .. Window \cup {NONE}
    /\ hits \in [Processes -> Seq(0 .. Window + 1)]
    /\ \A p \in Processes : Len(hits[p]) <= Limit
    /\ pc \in [Requests -> {"idle", "incr", "expire"}]
    /\ served \in 0 .. Limit + 1
    /\ recent \in [Ages -> 0 .. RecentCap]
    /\ trouble \subseteq {"fault", "crash"}

RecentTotal == SumFunction(recent)

\* One life of the Redis key lets the limit through and no more, whatever fails
\* and however the requests to it interleave.
LifeLimit == served <= Limit

\* "Shared limits across instances when Redis is healthy": in any 60 seconds,
\* not only in the key's own, all processes together let at most two limits
\* through, the end of one fixed window and the beginning of the next.
SharedLimit ==
    trouble \subseteq {"crash"} => RecentTotal <= 2 * Limit

\* "A cache outage must not remove all request caps": however Redis commands
\* fail, a client gets at most a limit from each process's memory beside the
\* two of the counter.  A process that is restarted forgets what it let through.
OutageCapped ==
    trouble \subseteq {"fault"} =>
      RecentTotal <= (2 + Cardinality(Processes)) * Limit

\* INCR and EXPIRE are two commands: a counter has a TTL, or the request that
\* will set it is on its way.  It needs that request to survive and its EXPIRE
\* to succeed; nothing repairs a counter without a TTL.
CounterHasTTL ==
    trouble = {} =>
      \/ count = 0 \/ ttl # NONE
      \/ \E r \in Requests : pc[r] = "expire"

Blocked == count > Limit /\ trouble = {}

\* "Retry-After: 60": a client that is over the limit is let in again; its
\* refused retries, which INCR too, do not keep the key alive.
BlockedClientReturns == Blocked ~> ~ Blocked
=============================================================================
