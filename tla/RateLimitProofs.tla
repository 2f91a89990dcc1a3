--------------------------- MODULE RateLimitProofs ---------------------------
(***************************************************************************)
(* Proofs about RateLimit for any limit, window, connections and           *)
(* processes, with failing Redis commands and crashes.                     *)
(***************************************************************************)
EXTENDS RateLimit, Sums

Expiring(r) == pc[r] = "expire"

\* Whoever is to send EXPIRE created the key, which has no TTL until then.
OneExpirer ==
    /\ \A q, r \in Requests : Expiring(q) /\ Expiring(r) => q = r
    /\ \A r \in Requests : Expiring(r) => count >= 1 /\ ttl = NONE

\* The TTL goes with the key.
NoKeyNoTTL == count = 0 => ttl = NONE

\* What the key has let through it has counted, and it has also counted the
\* request that is to send EXPIRE.
ServedCounted ==
    /\ served <= count /\ served <= Limit
    /\ \A r \in Requests : Expiring(r) => served < count /\ served < Limit

IInv == TypeOK /\ OneExpirer /\ NoKeyNoTTL /\ ServedCounted /\ CounterHasTTL

-----------------------------------------------------------------------------
(* The helpers.                                                            *)

\* The history is capped at a number.
LEMMA CapIsNat == RecentCap \in Nat
<1>1. Cardinality(Processes) \in Nat
  BY RateLimitAssumption, FS_CardinalityType
<1>2. ASSUME NEW n \in Nat, NEW l \in Nat PROVE (2 + n) * l + 1 \in Nat
  OBVIOUS
<1> QED BY <1>1, <1>2, RateLimitAssumption DEF RecentCap

\* A capped counter stays below its cap and never falls.
LEMMA UptoBound ==
  ASSUME NEW cap \in Nat, NEW n \in 0 .. cap
  PROVE  /\ Upto(cap, n + 1) \in 0 .. cap
         /\ Upto(cap, n + 1) >= n
         /\ n < cap => Upto(cap, n + 1) = n + 1
BY DEF Upto

\* A suffix of a sequence is no longer than the sequence.
LEMMA SuffixShorter ==
  ASSUME NEW T, NEW s \in Seq(T), NEW k \in Nat, k <= Len(s)
  PROVE  /\ SubSeq(s, k + 1, Len(s)) \in Seq(T)
         /\ Len(SubSeq(s, k + 1, Len(s))) <= Len(s)
<1>1. Len(s) \in Nat
  OBVIOUS
<1>2. CASE k + 1 <= Len(s)
  BY <1>1, <1>2
<1>3. CASE k = Len(s)
  BY <1>1, <1>3
<1> QED BY <1>1, <1>2, <1>3

\* Dropping the stale entries of a deque leaves a deque that is no longer.
LEMMA FreshShorter ==
  ASSUME NEW window \in Seq(0 .. Window + 1)
  PROVE  /\ Fresh(window) \in Seq(0 .. Window + 1)
         /\ Len(Fresh(window)) <= Len(window)
<1> DEFINE S == {i \in DOMAIN window : window[i] > Window}
           stale == Cardinality(S)
<1>1. Len(window) \in Nat /\ DOMAIN window = 1 .. Len(window)
  OBVIOUS
<1>2. IsFiniteSet(1 .. Len(window)) /\ Cardinality(1 .. Len(window)) = Len(window)
  BY <1>1, FS_Interval
<1>3. S \subseteq 1 .. Len(window)
  BY <1>1
<1>4. stale \in Nat /\ stale <= Len(window)
  BY <1>2, <1>3, FS_Subset, FS_CardinalityType
<1> HIDE DEF stale
<1>5. /\ SubSeq(window, stale + 1, Len(window)) \in Seq(0 .. Window + 1)
      /\ Len(SubSeq(window, stale + 1, Len(window))) <= Len(window)
  BY <1>4, SuffixShorter
<1> QED BY <1>5 DEF Fresh, stale

\* A tick makes every entry of a deque older.
LEMMA AgedDeque ==
  ASSUME NEW window \in Seq(0 .. Window + 1)
  PROVE  LET aged == [i \in DOMAIN window |-> Upto(Window + 1, window[i] + 1)]
         IN aged \in Seq(0 .. Window + 1) /\ Len(aged) = Len(window)
<1> DEFINE T == 0 .. Window + 1
<1>1. \A n \in T : Upto(Window + 1, n + 1) \in T
  BY RateLimitAssumption DEF Upto
<1>2. window \in Seq(T)
  OBVIOUS
<1> HIDE DEF T
<1>3. /\ Len(window) \in Nat /\ DOMAIN window = 1 .. Len(window)
      /\ \A i \in 1 .. Len(window) : window[i] \in T
  BY <1>2
<1> DEFINE aged == [i \in 1 .. Len(window) |-> Upto(Window + 1, window[i] + 1)]
<1>4. aged \in [1 .. Len(window) -> T]
  BY <1>1, <1>3
<1>5. aged \in Seq(T) /\ Len(aged) = Len(window)
  BY <1>3, <1>4
<1> QED BY <1>3, <1>5 DEF T

DequesOK ==
    hits \in [Processes -> Seq(0 .. Window + 1)]
      /\ \A p \in Processes : Len(hits[p]) <= Limit

RecentOK == recent \in [Ages -> 0 .. RecentCap]

\* Letting a request through keeps the history a history.
LEMMA LetThroughTyped ==
  ASSUME RecentOK, LetThrough
  PROVE  RecentOK'
<1>1. 0 \in Ages
  BY RateLimitAssumption DEF Ages
<1>2. Upto(RecentCap, recent[0] + 1) \in 0 .. RecentCap
  BY <1>1, CapIsNat, UptoBound DEF RecentOK
<1> QED BY <1>1, <1>2 DEF RecentOK, LetThrough

\* The fallback keeps every deque within the limit.
LEMMA MemoryTyped ==
  ASSUME NEW r \in Requests, DequesOK, RecentOK, CheckMemory(r)
  PROVE  DequesOK' /\ RecentOK'
<1> DEFINE p == Serving[r]
           window == Fresh(hits[p])
<1>1. p \in Processes
  BY RateLimitAssumption
<1>2. /\ window \in Seq(0 .. Window + 1)
      /\ Len(window) <= Limit
      /\ Len(window) \in Nat
  <2>1. hits[p] \in Seq(0 .. Window + 1) /\ Len(hits[p]) <= Limit /\ Len(hits[p]) \in Nat
    BY <1>1 DEF DequesOK
  <2>2. Fresh(hits[p]) \in Seq(0 .. Window + 1) /\ Len(Fresh(hits[p])) <= Len(hits[p])
    BY <2>1, FreshShorter
  <2> HIDE DEF p
  <2>3. Len(Fresh(hits[p])) \in Nat
    BY <2>2
  <2> QED BY <2>1, <2>2, <2>3, RateLimitAssumption
<1> HIDE DEF window
<1>3. CASE Len(window) >= Limit
  <2>1. hits' = [hits EXCEPT ![p] = window] /\ UNCHANGED recent
    BY <1>3 DEF CheckMemory, window
  <2> QED BY <1>1, <1>2, <2>1 DEF DequesOK, RecentOK
<1>4. CASE ~ (Len(window) >= Limit)
  <2>1. hits' = [hits EXCEPT ![p] = Append(window, 0)] /\ LetThrough
    BY <1>4 DEF CheckMemory, window
  <2>2. /\ Append(window, 0) \in Seq(0 .. Window + 1)
        /\ Len(Append(window, 0)) <= Limit
    BY <1>2, <1>4, RateLimitAssumption
  <2>3. RecentOK'
    BY <2>1, LetThroughTyped
  <2> QED BY <1>1, <2>1, <2>2, <2>3 DEF DequesOK
<1> QED BY <1>3, <1>4

-----------------------------------------------------------------------------
(* The inductive invariant.                                                *)

\* Before the first request no key is in Redis.
LEMMA InitIInv == Init => IInv
<1> SUFFICES ASSUME Init PROVE IInv
  OBVIOUS
<1>1. RecentCap \in Nat
  BY CapIsNat
<1>2. \A p \in Processes : Len(hits[p]) <= Limit
  BY RateLimitAssumption DEF Init
<1>3. hits \in [Processes -> Seq(0 .. Window + 1)]
  BY DEF Init
<1>4. TypeOK
  BY <1>1, <1>2, <1>3, RateLimitAssumption DEF Init, TypeOK
<1>5. OneExpirer /\ NoKeyNoTTL /\ ServedCounted /\ CounterHasTTL
  BY RateLimitAssumption DEF Init, OneExpirer, Expiring, NoKeyNoTTL, ServedCounted, CounterHasTTL
<1> QED BY <1>4, <1>5 DEF IInv

\* Every step keeps the types.
LEMMA TypeStep == TypeOK /\ [Next]_vars => TypeOK'
<1> SUFFICES ASSUME TypeOK, [Next]_vars PROVE TypeOK'
  OBVIOUS
<1>a. DequesOK /\ RecentOK
  BY DEF TypeOK, DequesOK, RecentOK
<1>b. /\ Limit + 1 \in Nat
      /\ Upto(Limit + 1, count + 1) \in 0 .. Limit + 1
      /\ Upto(Limit + 1, served + 1) \in 0 .. Limit + 1
  BY RateLimitAssumption DEF TypeOK, Upto
<1> USE <1>b DEF Leave
<1>1. ASSUME NEW r \in Requests, Arrive(r) PROVE TypeOK'
  BY <1>1 DEF Arrive, TypeOK, redis
<1>2. ASSUME NEW r \in Requests, Incr(r) PROVE TypeOK'
  <2>1. RecentOK'
    BY <1>a, <1>2, LetThroughTyped DEF Incr, RecentOK
  <2>2. served' \in 0 .. Limit + 1
    BY <1>2 DEF Incr, TypeOK
  <2> QED BY <1>2, <2>1, <2>2 DEF Incr, Counted, TypeOK, RecentOK
<1>3. ASSUME NEW r \in Requests, Expire(r) PROVE TypeOK'
  <2>1. RecentOK'
    BY <1>a, <1>3, LetThroughTyped DEF Expire
  <2> QED BY <1>3, <2>1, RateLimitAssumption DEF Expire, SetTTL, TypeOK, RecentOK
<1>4. ASSUME NEW r \in Requests, IncrFails(r) PROVE TypeOK'
  <2>1. DequesOK' /\ RecentOK'
    BY <1>a, <1>4, MemoryTyped DEF IncrFails
  <2> QED BY <1>4, <2>1 DEF IncrFails, Counted, TypeOK, DequesOK, RecentOK
<1>5. ASSUME NEW r \in Requests, ExpireFails(r) PROVE TypeOK'
  <2>1. DequesOK' /\ RecentOK'
    BY <1>a, <1>5, MemoryTyped DEF ExpireFails
  <2> QED BY <1>5, <2>1, RateLimitAssumption
          DEF ExpireFails, SetTTL, TypeOK, DequesOK, RecentOK
<1>6. ASSUME NEW p \in Processes, Crash(p) PROVE TypeOK'
  <2>1. DequesOK'
    BY <1>a, <1>6, RateLimitAssumption DEF Crash, DequesOK
  <2> QED BY <1>6, <2>1 DEF Crash, TypeOK, DequesOK, redis
<1>7. ASSUME Tick PROVE TypeOK'
  <2>1. DequesOK'
    <3> SUFFICES ASSUME NEW p \in Processes
                 PROVE  hits'[p] \in Seq(0 .. Window + 1) /\ Len(hits'[p]) <= Limit
      BY <1>7 DEF Tick, DequesOK
    <3>1. hits[p] \in Seq(0 .. Window + 1) /\ Len(hits[p]) <= Limit
      BY <1>a DEF DequesOK
    <3>2. hits'[p] = [i \in DOMAIN hits[p] |-> Upto(Window + 1, hits[p][i] + 1)]
      BY <1>7 DEF Tick
    <3> QED BY <3>1, <3>2, AgedDeque
  <2>2. RecentOK'
    <3>1. \A a \in Ages : a # 0 => a - 1 \in Ages
      BY RateLimitAssumption DEF Ages
    <3> QED BY <1>7, <1>a, <3>1, CapIsNat DEF Tick, RecentOK
  <2>3. count' \in 0 .. Limit + 1 /\ ttl' \in 1 .. Window \cup {NONE} /\ served' \in 0 .. Limit + 1
    BY <1>7, RateLimitAssumption DEF Tick, TypeOK
  <2> QED BY <1>7, <2>1, <2>2, <2>3 DEF Tick, TypeOK, DequesOK, RecentOK
<1>8. CASE UNCHANGED vars
  BY <1>8 DEF vars, TypeOK
<1> QED BY <1>1, <1>2, <1>3, <1>4, <1>5, <1>6, <1>7, <1>8 DEF Next

\* Every step keeps the key's count and TTL in order.
LEMMA StepIInv == IInv /\ [Next]_vars => IInv'
<1> SUFFICES ASSUME IInv, [Next]_vars PROVE IInv'
  OBVIOUS
<1>t. TypeOK'
  BY TypeStep DEF IInv
<1>b. /\ Limit \in Nat \ {0} /\ NONE \notin Int /\ Window \in Nat \ {0}
      /\ count \in 0 .. Limit + 1 /\ served \in 0 .. Limit + 1
      /\ pc \in [Requests -> {"idle", "incr", "expire"}]
  BY RateLimitAssumption DEF IInv, TypeOK
<1>c. /\ Counted \in 0 .. Limit + 1 /\ Counted >= count
      /\ count <= Limit => Counted = count + 1
  BY <1>b DEF Counted, Upto
<1>d. served <= Limit => Upto(Limit + 1, served + 1) = served + 1
  BY <1>b DEF Upto
<1> USE <1>b, <1>c, <1>d DEF Leave
<1> HIDE DEF Counted
<1> DEFINE Rest == OneExpirer /\ NoKeyNoTTL /\ ServedCounted /\ CounterHasTTL
<1>1. ASSUME NEW r \in Requests, Arrive(r) PROVE Rest'
  BY <1>1 DEF IInv, Arrive, OneExpirer, Expiring, NoKeyNoTTL, ServedCounted, CounterHasTTL, redis
<1>2. ASSUME NEW r \in Requests, Incr(r) PROVE Rest'
  <2>1. CASE count = 0
    <3>1. /\ count' = 1 /\ pc' = [pc EXCEPT ![r] = "expire"] /\ pc[r] = "incr"
          /\ UNCHANGED <<ttl, trouble, served>>
      BY <1>2, <2>1 DEF Incr
    <3>2. served = 0
      BY <2>1 DEF IInv, ServedCounted
    <3>3. \A q \in Requests : ~ Expiring(q)
      BY <2>1 DEF IInv, OneExpirer
    <3>4. \A q \in Requests : Expiring(q)' <=> q = r
      BY <3>1, <3>3 DEF Expiring
    <3>5. ttl = NONE
      BY <2>1 DEF IInv, NoKeyNoTTL
    <3> QED BY <3>1, <3>2, <3>4, <3>5 DEF OneExpirer, Expiring, NoKeyNoTTL, ServedCounted, CounterHasTTL
  <2>2. CASE count # 0
    <3>1. /\ count' = Counted /\ pc' = [pc EXCEPT ![r] = "idle"] /\ pc[r] = "incr"
          /\ UNCHANGED <<ttl, trouble>>
          /\ served' = IF count' <= Limit THEN served + 1 ELSE served
      BY <1>2, <2>2 DEF Incr, IInv, ServedCounted
    <3>2. OneExpirer'
      BY <2>2, <3>1 DEF IInv, OneExpirer, Expiring
    <3>3. ServedCounted'
      BY <2>2, <3>1 DEF IInv, Expiring, ServedCounted
    <3>4. CounterHasTTL'
      BY <2>2, <3>1 DEF IInv, CounterHasTTL
    <3>5. NoKeyNoTTL'
      BY <2>2, <3>1 DEF NoKeyNoTTL
    <3> QED BY <3>2, <3>3, <3>4, <3>5
  <2> QED BY <2>1, <2>2
<1>3. ASSUME NEW r \in Requests, Expire(r) PROVE Rest'
  <2>1. /\ pc' = [pc EXCEPT ![r] = "idle"] /\ ttl' = Window
        /\ UNCHANGED <<count, trouble>>
        /\ served' = served + 1
        /\ Expiring(r)
    BY <1>3 DEF Expire, SetTTL, IInv, ServedCounted, Expiring
  <2>2. \A q \in Requests : ~ Expiring(q)'
    BY <2>1 DEF IInv, OneExpirer, Expiring
  <2>3. count >= 1
    BY <2>1 DEF IInv, OneExpirer
  <2> QED BY <2>1, <2>2, <2>3 DEF IInv, OneExpirer, NoKeyNoTTL, ServedCounted, CounterHasTTL
<1>4. ASSUME NEW r \in Requests, IncrFails(r) PROVE Rest'
  BY <1>4 DEF IInv, IncrFails, OneExpirer, Expiring, NoKeyNoTTL, ServedCounted, CounterHasTTL
<1>5. ASSUME NEW r \in Requests, ExpireFails(r) PROVE Rest'
  BY <1>5 DEF IInv, ExpireFails, OneExpirer, Expiring, NoKeyNoTTL, ServedCounted, CounterHasTTL
<1>6. ASSUME NEW p \in Processes, Crash(p) PROVE Rest'
  BY <1>6 DEF IInv, Crash, OneExpirer, Expiring, NoKeyNoTTL, ServedCounted, CounterHasTTL, redis
<1>7. ASSUME Tick PROVE Rest'
  <2>1. ttl \in 1 .. Window \cup {NONE} /\ UNCHANGED <<pc, trouble>>
    BY <1>7 DEF Tick, IInv, TypeOK
  <2>2. CASE ttl = 1
    <3>1. count' = 0 /\ ttl' = NONE /\ served' = 0
      BY <1>7, <2>2 DEF Tick
    <3>2. \A r \in Requests : ~ Expiring(r)'
      BY <2>1, <2>2 DEF IInv, OneExpirer, Expiring
    <3> QED BY <3>1, <3>2 DEF OneExpirer, NoKeyNoTTL, ServedCounted, CounterHasTTL
  <2>3. CASE ttl # 1
    <3>1. UNCHANGED <<count, served>> /\ ttl' = (IF ttl = NONE THEN NONE ELSE ttl - 1)
      BY <1>7, <2>3 DEF Tick
    <3>2. ttl' = NONE <=> ttl = NONE
      BY <2>1, <3>1
    <3> QED BY <2>1, <3>1, <3>2
            DEF IInv, OneExpirer, Expiring, NoKeyNoTTL, ServedCounted, CounterHasTTL
  <2> QED BY <2>2, <2>3
<1>8. ASSUME UNCHANGED vars PROVE Rest'
  <2>1. UNCHANGED <<count, ttl, pc, served, trouble>>
    BY <1>8 DEF vars
  <2>2. (OneExpirer /\ NoKeyNoTTL /\ ServedCounted)'
    BY <2>1 DEF IInv, OneExpirer, Expiring, NoKeyNoTTL, ServedCounted
  <2>3. CounterHasTTL'
    BY <2>1 DEF IInv, CounterHasTTL
  <2> QED BY <2>2, <2>3
<1> HIDE DEF Rest
<1>9. Rest'
  BY <1>1, <1>2, <1>3, <1>4, <1>5, <1>6, <1>7, <1>8 DEF Next
<1> QED BY <1>t, <1>9 DEF IInv, Rest

\* IInv holds in every reachable state, whatever fails or dies.
THEOREM Invariance == Spec => []IInv
<1> QED BY InitIInv, StepIInv, PTL DEF Spec

-----------------------------------------------------------------------------
\* The counter, the deques and the histories keep their types; in particular
\* no deque of the fallback ever holds more than the limit.
THEOREM TypeCorrect == Spec => []TypeOK
<1>1. IInv => TypeOK
  BY DEF IInv
<1> QED BY <1>1, Invariance, PTL

\* A life of the Redis key lets through its limit at most, for any number of
\* connections and processes, whatever Redis commands fail.
THEOREM LifeWithinLimit == Spec => []LifeLimit
<1>1. IInv => LifeLimit
  BY DEF IInv, ServedCounted, LifeLimit
<1> QED BY <1>1, Invariance, PTL

\* While nothing has failed a counter has its TTL or is about to get it.
THEOREM CountersEnd == Spec => []CounterHasTTL
<1>1. IInv => CounterHasTTL
  BY DEF IInv
<1> QED BY <1>1, Invariance, PTL

-----------------------------------------------------------------------------
(* The requests of the last ticks: how many there were, and how many of    *)
(* them the deques remember.                                               *)

Lately(passed, k) == SumFunctionOnSet(passed, 0 .. k - 1)

Young(window, k) == Cardinality({i \in DOMAIN window : window[i] < k})

Youngs(deques, k) == [p \in Processes |-> Young(deques[p], k)]

Memory(deques, k) == SumFunctionOnSet(Youngs(deques, k), Processes)

\* A deque is in the order of arrival.
Sorted(window) ==
    \A i, j \in DOMAIN window : i < j => window[i] >= window[j]

Deques == Seq(0 .. Window + 1)

\* How many numbers there are up to n.
LEMMA UpTo == \A n \in Nat : IsFiniteSet(1 .. n) /\ Cardinality(1 .. n) = n
  BY FS_Interval

\* A deque is a sequence of ages, and no more of its entries are young than it
\* has.
LEMMA DequeFields ==
  ASSUME NEW window \in Deques
  PROVE  /\ Len(window) \in Nat /\ DOMAIN window = 1 .. Len(window)
         /\ \A i \in DOMAIN window : window[i] \in 0 .. Window + 1
         /\ \A k : Young(window, k) \in Nat /\ Young(window, k) <= Len(window)
<1>1. /\ Len(window) \in Nat /\ DOMAIN window = 1 .. Len(window)
      /\ \A i \in DOMAIN window : window[i] \in 0 .. Window + 1
  <2> DEFINE T == 0 .. Window + 1
  <2>1. window \in Seq(T)
    BY DEF Deques
  <2> HIDE DEF T
  <2>2. /\ Len(window) \in Nat /\ DOMAIN window = 1 .. Len(window)
        /\ \A i \in DOMAIN window : window[i] \in T
    BY <2>1
  <2> QED BY <2>2 DEF T
<1>2. IsFiniteSet(1 .. Len(window)) /\ Cardinality(1 .. Len(window)) = Len(window)
  BY <1>1, UpTo
<1>3. ASSUME NEW k PROVE Young(window, k) \in Nat /\ Young(window, k) <= Len(window)
  <2> DEFINE S == {i \in DOMAIN window : window[i] < k}
  <2>1. S \subseteq 1 .. Len(window)
    BY <1>1
  <2> HIDE DEF S
  <2>2. Cardinality(S) \in Nat /\ Cardinality(S) <= Len(window)
    BY <1>2, <2>1, FS_Subset, FS_CardinalityType
  <2> QED BY <2>2 DEF Young, S
<1>4. \A k : Young(window, k) \in Nat /\ Young(window, k) <= Len(window)
  BY <1>3
<1> QED BY <1>1, <1>4

\* What the processes remember of the last k ticks is a number.
LEMMA MemoryIsNat ==
  ASSUME NEW deques \in [Processes -> Deques], NEW k
  PROVE  /\ IntegerOn(Youngs(deques, k), Processes)
         /\ Memory(deques, k) \in Nat
<1>1. \A p \in Processes : Young(deques[p], k) \in Nat
  BY DequeFields
<1>2. \A p \in Processes : Youngs(deques, k)[p] \in Nat
  BY <1>1 DEF Youngs
<1> QED BY <1>2, RateLimitAssumption, SumNatural DEF Memory, IntegerOn

\* The history covers the last k ticks, and what it adds up is a number.
LEMMA LatelyIsInt ==
  ASSUME NEW passed \in [Ages -> Nat], NEW k \in 0 .. Window
  PROVE  /\ 0 .. k - 1 \subseteq Ages /\ IsFiniteSet(0 .. k - 1)
         /\ IntegerOn(passed, 0 .. k - 1)
         /\ Lately(passed, k) \in Int
<1>1. k \in Int /\ k - 1 \in Int /\ 0 .. k - 1 \subseteq Ages
  BY RateLimitAssumption DEF Ages
<1>2. IsFiniteSet(0 .. k - 1)
  BY <1>1, FS_Interval
<1>3. IntegerOn(passed, 0 .. k - 1)
  BY <1>1 DEF IntegerOn
<1> QED BY <1>1, <1>2, <1>3, SumInteger DEF Lately

\* Letting a request through adds one to every interval, and nothing to the
\* empty one.
LEMMA LatelyLetThrough ==
  ASSUME NEW passed \in [Ages -> Nat], NEW n \in Nat, n <= passed[0] + 1,
         NEW k \in 0 .. Window
  PROVE  /\ Lately([passed EXCEPT ![0] = n], k) <= Lately(passed, k) + 1
         /\ k = 0 => Lately([passed EXCEPT ![0] = n], k) = 0
<1> DEFINE after == [passed EXCEPT ![0] = n]
           S == 0 .. k - 1
<1>1. after \in [Ages -> Nat] /\ 0 \in Ages
  BY RateLimitAssumption DEF Ages
<1>2. /\ IsFiniteSet(S) /\ S \subseteq Ages
      /\ IntegerOn(passed, S) /\ IntegerOn(after, S) /\ Lately(passed, k) \in Int
  <2> HIDE DEF after
  <2> QED BY <1>1, LatelyIsInt
<1>3. CASE k = 0
  <2>1. S = {}
    BY <1>3
  <2> HIDE DEF S, after
  <2> QED BY <1>3, <2>1, SumEmpty DEF Lately, S, after
<1>4. CASE k # 0
  <2>1. 0 \in S
    BY <1>4
  <2>2. /\ \A a \in S \ {0} : passed[a] = after[a]
        /\ after[0] = n /\ passed[0] \in Nat
    BY <1>1, <1>2
  <2> HIDE DEF S, after
  <2>3. SumFunctionOnSet(after, S) = SumFunctionOnSet(passed, S) + after[0] - passed[0]
    BY <1>2, <2>1, <2>2, SumChange
  <2>4. SumFunctionOnSet(passed, S) \in Int
    BY <1>2, SumInteger
  <2>5. Lately(after, k) <= Lately(passed, k) + 1
    BY <2>2, <2>3, <2>4 DEF Lately, S
  <2> QED BY <1>4, <2>5 DEF after
<1> QED BY <1>3, <1>4

\* In a tick every interval grows by one and keeps what it has.
LEMMA LatelyTick ==
  ASSUME NEW passed \in [Ages -> Nat], NEW k \in 0 .. Window - 1
  PROVE  LET aged == [a \in Ages |-> IF a = 0 THEN 0 ELSE passed[a - 1]]
         IN Lately(aged, k + 1) = Lately(passed, k)
<1> DEFINE aged == [a \in Ages |-> IF a = 0 THEN 0 ELSE passed[a - 1]]
           next == [a \in 0 .. k - 1 |-> a + 1]
           S == 0 .. k - 1
           T == {next[a] : a \in S}
<1>1. k \in 0 .. Window /\ k + 1 \in 0 .. Window /\ k \in Nat
  BY RateLimitAssumption
<1>2. /\ IsFiniteSet(S) /\ S \subseteq Ages
      /\ IntegerOn(passed, S) /\ SumFunctionOnSet(passed, S) \in Int
  BY <1>1, LatelyIsInt DEF Lately
<1>3. /\ \A x, y \in S : next[x] = next[y] => x = y
      /\ \A x \in S : aged[next[x]] = passed[x]
  <2>1. \A x \in S : next[x] = x + 1 /\ x \in Nat
    BY <1>1
  <2>2. \A x \in S : x + 1 \in Ages /\ x + 1 # 0 /\ (x + 1) - 1 = x
    <3> TAKE x \in S
    <3>1. x \in Nat /\ x <= k - 1 /\ k <= Window - 1 /\ Window \in Nat /\ k \in Nat
      BY <1>1, RateLimitAssumption
    <3> QED BY <3>1 DEF Ages
  <2>3. \A x \in S : aged[x + 1] = passed[x]
    <3> HIDE DEF S
    <3> QED BY <2>2
  <2> HIDE DEF next, aged, S
  <2> QED BY <2>1, <2>3
<1>4. SumFunctionOnSet(aged, T) = SumFunctionOnSet(passed, S)
  <2> HIDE DEF aged, next, S
  <2> QED BY <1>2, <1>3, SumMoved
<1>5. T = 1 .. k
  <2>1. \A b \in 1 .. k : b - 1 \in S /\ next[b - 1] = b
    BY <1>1
  <2>2. \A a \in S : next[a] \in 1 .. k
    BY <1>1
  <2> HIDE DEF next, S
  <2> QED BY <2>1, <2>2
<1>6. 0 .. (k + 1) - 1 = T \cup {0} /\ 0 \notin T
  <2>1. \A b : b \in 0 .. (k + 1) - 1 <=> b \in 1 .. k \/ b = 0
    BY <1>1
  <2>2. 0 \notin 1 .. k
    OBVIOUS
  <2> HIDE DEF T
  <2> QED BY <1>5, <2>1, <2>2, Zenon
<1>7. IsFiniteSet(T)
  <2>1. IsFiniteSet(1 .. k)
    BY <1>1, FS_Interval
  <2> HIDE DEF T
  <2> QED BY <1>5, <2>1
<1>8. IntegerOn(aged, T \cup {0}) /\ aged[0] = 0
  <2>1. aged[0] = 0
    BY RateLimitAssumption DEF Ages
  <2>2. \A b \in T : aged[b] \in Int
    <3>1. \A a \in S : aged[next[a]] \in Int
      <4> HIDE DEF aged, next, S
      <4> QED BY <1>2, <1>3 DEF IntegerOn
    <3> HIDE DEF aged, next, S
    <3> QED BY <3>1
  <2> HIDE DEF aged, T
  <2> QED BY <2>1, <2>2 DEF IntegerOn
<1> HIDE DEF aged, T, S
<1>9. SumFunctionOnSet(aged, T \cup {0}) = aged[0] + SumFunctionOnSet(aged, T)
  BY <1>6, <1>7, <1>8, SumAdd
<1>10. SumFunctionOnSet(aged, 0 .. (k + 1) - 1) = SumFunctionOnSet(passed, S)
  <2>1. SumFunctionOnSet(aged, T \cup {0}) = SumFunctionOnSet(passed, S)
    BY <1>2, <1>4, <1>8, <1>9
  <2> QED BY <1>6, <2>1, Zenon
<1>11. Lately(aged, k + 1) = Lately(passed, k)
  BY <1>10 DEF Lately, S
<1> QED BY <1>11 DEF aged

\* Nothing is let through in no time.
LEMMA LatelyOfNothing ==
  ASSUME NEW passed
  PROVE  Lately(passed, 0) = 0
<1>1. 0 .. 0 - 1 = {}
  OBVIOUS
<1> QED BY <1>1, SumEmpty DEF Lately

-----------------------------------------------------------------------------
(* What the deques remember.                                               *)

\* The entries that a sorted deque drops are the stale ones: those that remain
\* are sorted, and none that is younger than the window is lost.
LEMMA FreshKeepsYoung ==
  ASSUME NEW window \in Deques, Sorted(window), NEW k \in 0 .. Window
  PROVE  /\ Fresh(window) \in Deques /\ Sorted(Fresh(window))
         /\ Young(Fresh(window), k) >= Young(window, k)
<1> DEFINE S == {i \in DOMAIN window : window[i] > Window}
           stale == Cardinality(S)
           rest == SubSeq(window, stale + 1, Len(window))
           A == {i \in DOMAIN window : window[i] < k}
           B == {i \in DOMAIN rest : rest[i] < k}
<1>1. /\ Len(window) \in Nat /\ DOMAIN window = 1 .. Len(window)
      /\ \A i \in DOMAIN window : window[i] \in 0 .. Window + 1
  BY DequeFields
<1>2. IsFiniteSet(1 .. Len(window)) /\ Cardinality(1 .. Len(window)) = Len(window)
  BY <1>1, UpTo
<1>3. S \subseteq 1 .. Len(window)
  BY <1>1
<1>4. stale \in Nat /\ stale <= Len(window) /\ IsFiniteSet(S)
  <2> HIDE DEF S
  <2> QED BY <1>2, <1>3, FS_Subset, FS_CardinalityType
<1>5. /\ DOMAIN rest = 1 .. Len(window) - stale
      /\ \A i \in DOMAIN rest : rest[i] = window[i + stale]
      /\ rest \in Deques
  <2>1. rest \in Deques
    BY FreshShorter DEF Deques, Fresh
  <2>2. window \in Seq(0 .. Window + 1)
    BY DEF Deques
  <2> DEFINE T == 0 .. Window + 1
  <2>3. window \in Seq(T)
    BY <2>2
  <2> HIDE DEF T, stale
  <2>4. /\ DOMAIN rest = 1 .. Len(window) - stale
        /\ \A i \in DOMAIN rest : rest[i] = window[i + stale]
    <3>1. rest = [i \in 1 .. 1 + Len(window) - (stale + 1) |-> window[i + (stale + 1) - 1]]
      BY <1>1, <1>4, <2>3
    <3>2. 1 + Len(window) - (stale + 1) = Len(window) - stale
      BY <1>1, <1>4
    <3>3. \A i \in 1 .. Len(window) - stale : i + (stale + 1) - 1 = i + stale
      BY <1>1, <1>4
    <3> HIDE DEF rest
    <3> QED BY <3>1, <3>2, <3>3
  <2> QED BY <2>1, <2>4
<1>6. \A i \in A : i > stale
  <2> SUFFICES ASSUME NEW i \in A, ~ (i > stale) PROVE FALSE
    OBVIOUS
  <2>1. /\ i \in 1 .. Len(window) /\ window[i] <= Window /\ k \in Int
        /\ i \in Nat \ {0}
    <3>1. i \in DOMAIN window /\ window[i] < k
      OBVIOUS
    <3>2. window[i] \in Int /\ i \in Nat \ {0}
      BY <1>1, <3>1, RateLimitAssumption
    <3> QED BY <1>1, <3>1, <3>2, RateLimitAssumption
  <2>2. S \subseteq 1 .. i - 1
    <3> SUFFICES ASSUME NEW j \in S, j >= i PROVE FALSE
      BY <1>1, <2>1
    <3>1. j \in DOMAIN window /\ window[j] > Window /\ window[j] \in Nat /\ window[i] \in Nat
      BY <1>1, <2>1, RateLimitAssumption
    <3>2. j # i
      BY <2>1, <3>1, RateLimitAssumption
    <3>3. window[i] >= window[j]
      BY <1>1, <2>1, <3>1, <3>2 DEF Sorted
    <3> QED BY <2>1, <3>1, <3>3, RateLimitAssumption
  <2>3. IsFiniteSet(1 .. i - 1) /\ Cardinality(1 .. i - 1) = i - 1
    <3>1. i - 1 \in Nat
      BY <2>1
    <3> QED BY <3>1, UpTo
  <2>4. stale <= i - 1
    <3> HIDE DEF S
    <3> QED BY <2>2, <2>3, FS_Subset
  <2>5. ~ (i > stale)
    OBVIOUS
  <2> HIDE DEF stale
  <2> QED BY <1>4, <2>1, <2>4, <2>5
<1> DEFINE f == [i \in A |-> i - stale]
<1>7. f \in Injection(A, B)
  <2>1. \A i \in A : i - stale \in B
    <3> SUFFICES ASSUME NEW i \in A PROVE i - stale \in B
      OBVIOUS
    <3>1. i \in 1 .. Len(window) /\ i > stale /\ window[i] < k
      BY <1>1, <1>6
    <3> HIDE DEF stale
    <3>2. i - stale \in 1 .. Len(window) - stale /\ (i - stale) + stale = i
      BY <1>1, <1>4, <3>1
    <3> HIDE DEF rest
    <3> QED BY <1>5, <3>1, <3>2
  <2>2. \A i, j \in A : i - stale = j - stale => i = j
    <3> HIDE DEF stale
    <3> QED BY <1>1, <1>4
  <2> HIDE DEF A, B, stale
  <2> QED BY <2>1, <2>2 DEF Injection, IsInjective
<1>8. IsFiniteSet(B) /\ IsFiniteSet(A)
  <2>1. A \subseteq 1 .. Len(window)
    BY <1>1
  <2>2. IsFiniteSet(DOMAIN rest)
    <3>1. Len(window) - stale \in Nat
      <4> HIDE DEF stale
      <4> QED BY <1>1, <1>4
    <3> HIDE DEF rest, stale
    <3> QED BY <1>5, <3>1, UpTo
  <2>3. B \subseteq DOMAIN rest
    OBVIOUS
  <2> HIDE DEF A, B, rest
  <2> QED BY <1>2, <2>1, <2>2, <2>3, FS_Subset
<1>9. Cardinality(A) <= Cardinality(B)
  <2> HIDE DEF A, B, f
  <2> QED BY <1>7, <1>8, FS_Injection
<1>10. Sorted(rest)
  <2> SUFFICES ASSUME NEW i \in DOMAIN rest, NEW j \in DOMAIN rest, i < j
               PROVE  rest[i] >= rest[j]
    BY DEF Sorted
  <2> HIDE DEF stale, rest
  <2>1. i + stale \in DOMAIN window /\ j + stale \in DOMAIN window /\ i + stale < j + stale
    BY <1>1, <1>4, <1>5
  <2> QED BY <1>5, <2>1 DEF Sorted
<1>11. Fresh(window) = rest
  BY DEF Fresh
<1> QED BY <1>5, <1>9, <1>10, <1>11 DEF Young

\* A request that is let through is remembered as the youngest.
LEMMA AppendRemembered ==
  ASSUME NEW window \in Deques, Sorted(window), NEW k \in 0 .. Window
  PROVE  /\ Append(window, 0) \in Deques /\ Sorted(Append(window, 0))
         /\ Young(Append(window, 0), k) >= Young(window, k)
         /\ k # 0 => Young(Append(window, 0), k) >= Young(window, k) + 1
<1> DEFINE after == Append(window, 0)
           n == Len(window)
           A == {i \in DOMAIN window : window[i] < k}
           B == {i \in DOMAIN after : after[i] < k}
<1>1. /\ n \in Nat /\ DOMAIN window = 1 .. n
      /\ \A i \in DOMAIN window : window[i] \in 0 .. Window + 1
  BY DequeFields
<1>2. /\ after \in Deques /\ DOMAIN after = 1 .. n + 1
      /\ \A i \in 1 .. n : after[i] = window[i]
      /\ after[n + 1] = 0
  <2> DEFINE T == 0 .. Window + 1
  <2>1. window \in Seq(T) /\ 0 \in T
    BY RateLimitAssumption DEF Deques
  <2>2. Deques = Seq(T)
    BY DEF Deques
  <2> HIDE DEF T
  <2> QED BY <2>1, <2>2
<1>3. Sorted(after)
  <2> SUFFICES ASSUME NEW i \in 1 .. n + 1, NEW j \in 1 .. n + 1, i < j
               PROVE  after[i] >= after[j]
    BY <1>2 DEF Sorted
  <2> HIDE DEF after
  <2>1. i \in 1 .. n /\ after[i] = window[i] /\ window[i] \in 0 .. Window + 1
    BY <1>1, <1>2
  <2>2. CASE j = n + 1
    BY <1>2, <2>1, <2>2, RateLimitAssumption
  <2>3. CASE j \in 1 .. n
    BY <1>1, <1>2, <2>1, <2>3 DEF Sorted
  <2> QED BY <1>1, <2>2, <2>3
<1>4. A \subseteq 1 .. n /\ n + 1 \notin A /\ IsFiniteSet(A)
  <2>1. A \subseteq 1 .. n /\ n + 1 \notin A
    BY <1>1
  <2>2. IsFiniteSet(1 .. n)
    BY <1>1, UpTo
  <2> HIDE DEF A, n
  <2> QED BY <2>1, <2>2, FS_Subset
<1>5. k \in Nat
  BY RateLimitAssumption
<1>6. IsFiniteSet(B) /\ Cardinality(B) \in Nat /\ Cardinality(A) \in Nat
  <2>1. B \subseteq 1 .. n + 1 /\ n + 1 \in Nat
    BY <1>1, <1>2
  <2>2. IsFiniteSet(1 .. n + 1)
    BY <2>1, UpTo
  <2> HIDE DEF A, B, n
  <2> QED BY <1>4, <2>1, <2>2, FS_Subset, FS_CardinalityType
<1>7. A \subseteq B
  <2> HIDE DEF after
  <2> QED BY <1>1, <1>2
<1>8. Cardinality(A) <= Cardinality(B)
  <2> HIDE DEF A, B
  <2> QED BY <1>6, <1>7, FS_Subset
<1>9. CASE k # 0
  <2>1. n + 1 \in B
    <3> HIDE DEF after, n
    <3> QED BY <1>1, <1>2, <1>5, <1>9
  <2>2. A \cup {n + 1} \subseteq B
    <3> HIDE DEF A, B
    <3> QED BY <1>7, <2>1
  <2>3. Cardinality(A \cup {n + 1}) = Cardinality(A) + 1
    <3> HIDE DEF A, n
    <3> QED BY <1>4, FS_AddElement
  <2>4. Cardinality(A \cup {n + 1}) <= Cardinality(B)
    <3> HIDE DEF A, B
    <3> QED BY <1>6, <2>2, FS_Subset
  <2>5. Cardinality(B) >= Cardinality(A) + 1
    <3> HIDE DEF A, B
    <3> QED BY <1>6, <2>3, <2>4
  <2> QED BY <1>2, <1>3, <1>8, <2>5 DEF Young
<1>10. CASE k = 0
  BY <1>2, <1>3, <1>8, <1>10 DEF Young
<1> QED BY <1>9, <1>10

\* In a tick a deque keeps its order and what it remembers.
LEMMA TickKeepsYoung ==
  ASSUME NEW window \in Deques, NEW k \in 0 .. Window
  PROVE  LET aged == [i \in DOMAIN window |-> Upto(Window + 1, window[i] + 1)]
         IN /\ Sorted(window) => Sorted(aged)
            /\ Young(aged, k + 1) = Young(window, k)
<1> DEFINE aged == [i \in DOMAIN window |-> Upto(Window + 1, window[i] + 1)]
<1>1. \A i \in DOMAIN window : window[i] \in 0 .. Window + 1
  BY DequeFields
<1>2. Window \in Nat /\ k \in Nat /\ k <= Window
  BY RateLimitAssumption
<1>3. \A a \in 0 .. Window + 1 : Upto(Window + 1, a + 1) < k + 1 <=> a < k
  BY <1>2 DEF Upto
<1>4. \A a, b \in 0 .. Window + 1 :
        a >= b => Upto(Window + 1, a + 1) >= Upto(Window + 1, b + 1)
  BY <1>2 DEF Upto
<1>5. \A i \in DOMAIN window : aged[i] < k + 1 <=> window[i] < k
  BY <1>1, <1>3
<1>6. {i \in DOMAIN aged : aged[i] < k + 1} = {i \in DOMAIN window : window[i] < k}
  BY <1>5
<1>7. Young(aged, k + 1) = Young(window, k)
  <2> HIDE DEF aged
  <2> QED BY <1>6 DEF Young
<1>8. ASSUME Sorted(window) PROVE Sorted(aged)
  <2>1. \A i, j \in DOMAIN window : i < j => window[i] >= window[j]
    BY <1>8 DEF Sorted
  <2>2. \A i, j \in DOMAIN window : i < j => aged[i] >= aged[j]
    BY <1>1, <1>4, <2>1
  <2>3. DOMAIN aged = DOMAIN window
    OBVIOUS
  <2> HIDE DEF aged
  <2> QED BY <2>2, <2>3 DEF Sorted
<1> QED BY <1>7, <1>8

\* Another deque for one process changes the memory by its entries.
LEMMA MemoryChange ==
  ASSUME NEW deques \in [Processes -> Deques], NEW p \in Processes,
         NEW window \in Deques, NEW k
  PROVE  Memory([deques EXCEPT ![p] = window], k) =
           Memory(deques, k) + Young(window, k) - Young(deques[p], k)
<1> DEFINE after == [deques EXCEPT ![p] = window]
           f == Youngs(deques, k)
           g == Youngs(after, k)
<1>1. after \in [Processes -> Deques]
  OBVIOUS
<1>2. IntegerOn(f, Processes) /\ IntegerOn(g, Processes)
  <2> HIDE DEF after
  <2> QED BY <1>1, MemoryIsNat
<1>3. /\ \A q \in Processes \ {p} : f[q] = g[q]
      /\ g[p] = Young(window, k) /\ f[p] = Young(deques[p], k)
  BY DEF Youngs
<1> HIDE DEF f, g, after
<1>4. SumFunctionOnSet(g, Processes) = SumFunctionOnSet(f, Processes) + g[p] - f[p]
  BY <1>2, <1>3, RateLimitAssumption, SumChange
<1> QED BY <1>3, <1>4 DEF Memory, f, g, after

-----------------------------------------------------------------------------
(* Who has paid for the requests of the last ticks.                        *)

OldestFirst == \A p \in Processes : Sorted(hits[p])

\* The deques are used when Redis fails, and not before.
NoFallback == "fault" \notin trouble => \A p \in Processes : hits[p] = <<>>

\* What was let through lately is in the key's count, in that of the key before
\* it, or in a deque; what is younger than the key's TTL is not in the key
\* before it.  A crash loses deques, which matters once one has entries.
Charged ==
    trouble # {"fault", "crash"} =>
      /\ \A k \in 0 .. Window :
           Lately(recent, k) <= Limit + served + Memory(hits, k)
      /\ ttl # NONE =>
           \A k \in 0 .. Window - ttl : Lately(recent, k) <= served + Memory(hits, k)

ChargeInv == IInv /\ OldestFirst /\ NoFallback /\ Charged

\* The types, as the lemmas on sums need them.
LEMMA ChargeTypes ==
  ASSUME TypeOK
  PROVE  /\ recent \in [Ages -> Nat] /\ hits \in [Processes -> Deques]
         /\ served \in Nat /\ Limit \in Nat \ {0} /\ Window \in Nat \ {0}
         /\ ttl \in 1 .. Window \cup {NONE} /\ NONE \notin Int
         /\ Lately(recent, 0) = 0
         /\ \A k \in 0 .. Window : Lately(recent, k) \in Int /\ Memory(hits, k) \in Nat
<1>1. recent \in [Ages -> Nat] /\ hits \in [Processes -> Deques]
  BY CapIsNat DEF TypeOK, Deques
<1>2. \A k \in 0 .. Window : Lately(recent, k) \in Int /\ Memory(hits, k) \in Nat
  BY <1>1, LatelyIsInt, MemoryIsNat
<1>3. /\ served \in Nat /\ Limit \in Nat \ {0} /\ Window \in Nat \ {0}
      /\ ttl \in 1 .. Window \cup {NONE} /\ NONE \notin Int
  BY RateLimitAssumption DEF TypeOK
<1> QED BY <1>1, <1>2, <1>3, LatelyOfNothing

\* What is let through adds one at most to each interval, and nothing to the
\* empty one.
LEMMA LetThroughCharged ==
  ASSUME TypeOK, LetThrough
  PROVE  \A k \in 0 .. Window :
           /\ Lately(recent', k) <= Lately(recent, k) + 1
           /\ k = 0 => Lately(recent', k) = 0
<1> TAKE k \in 0 .. Window
<1> DEFINE n == Upto(RecentCap, recent[0] + 1)
<1>1. recent \in [Ages -> Nat] /\ 0 \in Ages
  BY ChargeTypes, RateLimitAssumption DEF Ages
<1>2. n \in Nat /\ n <= recent[0] + 1
  BY <1>1, CapIsNat DEF Upto
<1>3. recent' = [recent EXCEPT ![0] = n]
  BY DEF LetThrough
<1> HIDE DEF n
<1> QED BY <1>1, <1>2, <1>3, LatelyLetThrough

\* The fallback remembers every request that it lets through.
LEMMA MemoryCharged ==
  ASSUME TypeOK, TypeOK', OldestFirst, NEW r \in Requests, CheckMemory(r)
  PROVE  /\ OldestFirst'
         /\ \A k \in 0 .. Window :
              Lately(recent', k) - Memory(hits', k) <= Lately(recent, k) - Memory(hits, k)
<1> DEFINE p == Serving[r]
           window == Fresh(hits[p])
           after == Append(window, 0)
<1>1. p \in Processes /\ hits \in [Processes -> Deques] /\ hits[p] \in Deques /\ Sorted(hits[p])
  BY RateLimitAssumption, ChargeTypes DEF OldestFirst
<1>2. window \in Deques /\ Sorted(window)
  <2>1. 0 \in 0 .. Window
    BY RateLimitAssumption
  <2> HIDE DEF p
  <2> QED BY <1>1, <2>1, FreshKeepsYoung
<1> HIDE DEF window
<1>3. after \in Deques /\ Sorted(after)
  <2>1. 0 \in 0 .. Window
    BY RateLimitAssumption
  <2> QED BY <1>2, <2>1, AppendRemembered
<1> HIDE DEF after
<1>4. \/ hits' = [hits EXCEPT ![p] = window] /\ UNCHANGED recent
      \/ hits' = [hits EXCEPT ![p] = after] /\ LetThrough
  BY DEF CheckMemory, window, after
<1> HIDE DEF p
<1>5. OldestFirst'
  <2> SUFFICES ASSUME NEW q \in Processes PROVE Sorted(hits'[q])
    BY DEF OldestFirst
  <2>1. hits'[q] = hits[q] \/ hits'[q] = window \/ hits'[q] = after
    BY <1>1, <1>4
  <2> QED BY <1>2, <1>3, <2>1 DEF OldestFirst
<1>6. ASSUME NEW k \in 0 .. Window
      PROVE  Lately(recent', k) - Memory(hits', k) <= Lately(recent, k) - Memory(hits, k)
  <2>1. /\ Lately(recent, k) \in Int /\ Memory(hits, k) \in Int /\ Lately(recent, 0) = 0
        /\ Young(window, k) \in Nat /\ Young(after, k) \in Nat /\ Young(hits[p], k) \in Nat
    BY <1>1, <1>2, <1>3, ChargeTypes, DequeFields
  <2>2. Lately(recent', k) \in Int /\ Memory(hits', k) \in Int
    <3>1. recent' \in [Ages -> Nat] /\ hits' \in [Processes -> Deques]
      BY CapIsNat DEF TypeOK, Deques
    <3> QED BY <3>1, LatelyIsInt, MemoryIsNat
  <2>3. Young(window, k) >= Young(hits[p], k)
    BY <1>1, FreshKeepsYoung DEF window
  <2>4. /\ Young(after, k) >= Young(window, k)
        /\ k # 0 => Young(after, k) >= Young(window, k) + 1
    BY <1>2, AppendRemembered DEF after
  <2>5. CASE hits' = [hits EXCEPT ![p] = window] /\ UNCHANGED recent
    <3>1. Memory(hits', k) = Memory(hits, k) + Young(window, k) - Young(hits[p], k)
      BY <1>1, <1>2, <2>5, MemoryChange
    <3>2. Lately(recent', k) = Lately(recent, k)
      BY <2>5
    <3> QED BY <2>1, <2>2, <2>3, <3>1, <3>2
  <2>6. CASE hits' = [hits EXCEPT ![p] = after] /\ LetThrough
    <3>1. Memory(hits', k) = Memory(hits, k) + Young(after, k) - Young(hits[p], k)
      BY <1>1, <1>3, <2>6, MemoryChange
    <3>2. /\ Lately(recent', k) <= Lately(recent, k) + 1
          /\ k = 0 => Lately(recent', k) = 0
      BY <2>6, LetThroughCharged
    <3>3. CASE k = 0
      <4>1. Lately(recent', k) = 0 /\ Lately(recent, k) = 0
        BY <2>1, <3>2, <3>3
      <4> QED BY <2>1, <2>2, <2>3, <2>4, <3>1, <4>1
    <3>4. CASE k # 0
      BY <2>1, <2>2, <2>3, <2>4, <3>1, <3>2, <3>4
    <3> QED BY <3>3, <3>4
  <2> QED BY <1>4, <2>5, <2>6
<1> QED BY <1>5, <1>6

\* Nothing that Charged speaks of has changed.
LEMMA ChargeKept ==
  ASSUME OldestFirst, NoFallback, Charged, UNCHANGED <<hits, recent, served, ttl, trouble>>
  PROVE  OldestFirst' /\ NoFallback' /\ Charged'
BY DEF OldestFirst, NoFallback, Charged

\* The fallback pays with the entry that it makes; if EXPIRE was executed and
\* only its answer lost, the key is new.
LEMMA FallbackCharged ==
  ASSUME ChargeInv, TypeOK', NEW r \in Requests, CheckMemory(r),
         UNCHANGED served, trouble' = trouble \cup {"fault"},
         ttl' = ttl \/ ttl' = Window
  PROVE  OldestFirst' /\ NoFallback' /\ Charged'
<1>1. TypeOK /\ OldestFirst /\ Charged
  BY DEF ChargeInv, IInv
<1>2. /\ OldestFirst'
      /\ \A k \in 0 .. Window :
           Lately(recent', k) - Memory(hits', k) <= Lately(recent, k) - Memory(hits, k)
  BY <1>1, MemoryCharged
<1>3. NoFallback'
  BY DEF NoFallback
<1>4. ASSUME trouble' # {"fault", "crash"} PROVE trouble # {"fault", "crash"}
  BY <1>4
<1>5. /\ \A k \in 0 .. Window : Lately(recent, k) \in Int /\ Memory(hits, k) \in Nat
      /\ served \in Nat /\ Limit \in Nat /\ Window \in Nat /\ NONE \notin Int
      /\ ttl \in 1 .. Window \cup {NONE}
  BY <1>1, ChargeTypes
<1>6. /\ \A k \in 0 .. Window : Lately(recent', k) \in Int /\ Memory(hits', k) \in Nat
      /\ Lately(recent', 0) = 0
  <2>1. recent' \in [Ages -> Nat] /\ hits' \in [Processes -> Deques]
    BY CapIsNat DEF TypeOK, Deques
  <2> QED BY <2>1, LatelyIsInt, MemoryIsNat, LatelyOfNothing
<1>7. ASSUME trouble' # {"fault", "crash"}, NEW k \in 0 .. Window
      PROVE  /\ Lately(recent', k) <= Limit + served' + Memory(hits', k)
             /\ (ttl' # NONE /\ k \in 0 .. Window - ttl') =>
                  Lately(recent', k) <= served' + Memory(hits', k)
  <2>1. Lately(recent, k) <= Limit + served + Memory(hits, k)
    BY <1>1, <1>4, <1>7 DEF Charged
  <2>2. /\ Lately(recent, k) \in Int /\ Memory(hits, k) \in Nat
        /\ Lately(recent', k) \in Int /\ Memory(hits', k) \in Nat
        /\ Lately(recent', k) - Memory(hits', k) <= Lately(recent, k) - Memory(hits, k)
    BY <1>2, <1>5, <1>6
  <2>3. CASE ttl' = ttl
    <3>1. ttl # NONE /\ k \in 0 .. Window - ttl => Lately(recent, k) <= served + Memory(hits, k)
      BY <1>1, <1>4, <1>7 DEF Charged
    <3> QED BY <1>5, <2>1, <2>2, <2>3, <3>1
  <2>4. CASE ttl' = Window
    <3>1. k \in 0 .. Window - ttl' => Lately(recent', k) = 0
      BY <1>5, <1>6, <2>4
    <3> QED BY <1>5, <2>1, <2>2, <3>1
  <2> QED BY <2>3, <2>4
<1>8. /\ 0 .. Window - ttl' \subseteq 0 .. Window \/ ttl' = NONE
  BY <1>5
<1>9. Charged'
  BY <1>7, <1>8 DEF Charged
<1> QED BY <1>2, <1>3, <1>9

\* The key pays with its count.
LEMMA ServedCharged ==
  ASSUME ChargeInv, LetThrough, served' = served + 1, UNCHANGED <<hits, trouble>>,
         ttl' = ttl \/ ttl' = Window
  PROVE  OldestFirst' /\ NoFallback' /\ Charged'
<1>1. TypeOK /\ OldestFirst /\ NoFallback /\ Charged
  BY DEF ChargeInv, IInv
<1>2. OldestFirst' /\ NoFallback'
  BY <1>1 DEF OldestFirst, NoFallback
<1>3. /\ \A k \in 0 .. Window : Lately(recent, k) \in Int /\ Memory(hits, k) \in Nat
      /\ served \in Nat /\ Limit \in Nat /\ Window \in Nat /\ NONE \notin Int
      /\ ttl \in 1 .. Window \cup {NONE}
  BY <1>1, ChargeTypes
<1>4. \A k \in 0 .. Window :
        /\ Lately(recent', k) <= Lately(recent, k) + 1
        /\ k = 0 => Lately(recent', k) = 0
  BY <1>1, LetThroughCharged
<1>5. \A k \in 0 .. Window : Lately(recent', k) \in Int
  <2>1. recent' \in [Ages -> Nat]
    <3>1. recent \in [Ages -> Nat] /\ 0 \in Ages
      BY <1>1, ChargeTypes, RateLimitAssumption DEF Ages
    <3>2. Upto(RecentCap, recent[0] + 1) \in Nat
      BY <3>1, CapIsNat DEF Upto
    <3> QED BY <3>1, <3>2 DEF LetThrough
  <2> QED BY <2>1, LatelyIsInt
<1>6. ASSUME trouble # {"fault", "crash"}, NEW k \in 0 .. Window
      PROVE  /\ Lately(recent', k) <= Limit + served' + Memory(hits, k)
             /\ (ttl' # NONE /\ k \in 0 .. Window - ttl') =>
                  Lately(recent', k) <= served' + Memory(hits, k)
  <2>1. Lately(recent, k) <= Limit + served + Memory(hits, k)
    BY <1>1, <1>6 DEF Charged
  <2>2. /\ Lately(recent, k) \in Int /\ Memory(hits, k) \in Nat
        /\ Lately(recent', k) \in Int
        /\ Lately(recent', k) <= Lately(recent, k) + 1
        /\ k = 0 => Lately(recent', k) = 0
    BY <1>3, <1>4, <1>5
  <2>3. CASE ttl' = ttl
    <3>1. ttl # NONE /\ k \in 0 .. Window - ttl => Lately(recent, k) <= served + Memory(hits, k)
      BY <1>1, <1>6 DEF Charged
    <3> QED BY <1>3, <2>1, <2>2, <2>3, <3>1
  <2>4. CASE ttl' = Window
    <3>1. k \in 0 .. Window - ttl' => Lately(recent', k) = 0
      BY <1>3, <2>2, <2>4
    <3> QED BY <1>3, <2>1, <2>2, <3>1
  <2> QED BY <2>3, <2>4
<1>7. 0 .. Window - ttl' \subseteq 0 .. Window \/ ttl' = NONE
  BY <1>3
<1>8. Charged'
  BY <1>6, <1>7 DEF Charged
<1> QED BY <1>2, <1>8

\* In a tick what was let through and what remembers it grow older together; a
\* key that ends was the last one to pay for what is younger than its life.
LEMMA TickCharged ==
  ASSUME ChargeInv, Tick
  PROVE  OldestFirst' /\ NoFallback' /\ Charged'
<1>1. TypeOK /\ OldestFirst /\ NoFallback /\ Charged /\ served <= Limit
  BY DEF ChargeInv, IInv, ServedCounted
<1>2. /\ recent \in [Ages -> Nat] /\ hits \in [Processes -> Deques]
      /\ \A k \in 0 .. Window : Lately(recent, k) \in Int /\ Memory(hits, k) \in Nat
      /\ served \in Nat /\ Limit \in Nat \ {0} /\ Window \in Nat \ {0} /\ NONE \notin Int
      /\ ttl \in 1 .. Window \cup {NONE}
  BY <1>1, ChargeTypes
<1> DEFINE aged(p) == [i \in DOMAIN hits[p] |-> Upto(Window + 1, hits[p][i] + 1)]
<1>3. hits' = [p \in Processes |-> aged(p)]
  BY DEF Tick
<1>4. OldestFirst'
  <2> SUFFICES ASSUME NEW p \in Processes PROVE Sorted(hits'[p])
    BY DEF OldestFirst
  <2>1. 0 \in 0 .. Window /\ hits[p] \in Deques /\ Sorted(hits[p])
    BY <1>1, <1>2 DEF OldestFirst
  <2>2. Sorted(aged(p))
    BY <2>1, TickKeepsYoung
  <2> HIDE DEF aged
  <2> QED BY <1>3, <2>2
<1>5. NoFallback'
  <2> SUFFICES ASSUME "fault" \notin trouble, NEW p \in Processes PROVE hits'[p] = <<>>
    BY DEF NoFallback, Tick
  <2>1. hits[p] = <<>>
    BY <1>1 DEF NoFallback
  <2> QED BY <1>3, <2>1
<1>6. ASSUME NEW k \in 0 .. Window PROVE Memory(hits', k + 1) = Memory(hits, k)
  <2>1. \A p \in Processes : Young(aged(p), k + 1) = Young(hits[p], k)
    BY <1>2, TickKeepsYoung
  <2>2. \A p \in Processes : Youngs(hits', k + 1)[p] = Youngs(hits, k)[p]
    <3> HIDE DEF aged
    <3> QED BY <1>3, <2>1 DEF Youngs
  <2> QED BY <2>2, RateLimitAssumption, SumEqual DEF Memory
<1>7. ASSUME NEW k \in 0 .. Window - 1
      PROVE  Lately(recent', k + 1) = Lately(recent, k)
  BY <1>2, LatelyTick DEF Tick
<1>8. Lately(recent', 0) = 0
  BY LatelyOfNothing
<1>9. \/ ttl = 1 /\ ttl' = NONE /\ served' = 0
      \/ ttl # 1 /\ served' = served /\ ttl' = (IF ttl = NONE THEN NONE ELSE ttl - 1)
  BY DEF Tick
<1>10. Memory(hits', 0) \in Nat
  <2>1. hits' \in [Processes -> Deques]
    <3>1. \A p \in Processes : aged(p) \in Deques
      BY <1>2, AgedDeque DEF Deques
    <3> HIDE DEF aged
    <3> QED BY <1>3, <3>1
  <2> QED BY <2>1, MemoryIsNat
<1>11. \A k \in 0 .. Window : k = 0 \/ (k - 1 \in 0 .. Window - 1 /\ k = (k - 1) + 1)
  BY <1>2
<1>12. ASSUME trouble # {"fault", "crash"}, NEW k \in 0 .. Window
       PROVE  /\ Lately(recent', k) <= Limit + served' + Memory(hits', k)
              /\ (ttl' # NONE /\ k \in 0 .. Window - ttl') =>
                   Lately(recent', k) <= served' + Memory(hits', k)
  <2>1. CASE k = 0
    BY <1>2, <1>8, <1>9, <1>10, <2>1
  <2>2. CASE k # 0
    <3> DEFINE j == k - 1
    <3>1. j \in 0 .. Window - 1 /\ j \in 0 .. Window /\ k = j + 1
      BY <1>11, <1>2, <2>2
    <3> HIDE DEF j
    <3>2. /\ Lately(recent', k) = Lately(recent, j) /\ Memory(hits', k) = Memory(hits, j)
          /\ Lately(recent, j) \in Int /\ Memory(hits, j) \in Nat
      BY <1>2, <1>6, <1>7, <3>1
    <3>3. /\ Lately(recent, j) <= Limit + served + Memory(hits, j)
          /\ (ttl # NONE /\ j \in 0 .. Window - ttl) => Lately(recent, j) <= served + Memory(hits, j)
      BY <1>1, <1>12, <3>1 DEF Charged
    <3>4. CASE ttl = 1
      <4>1. Lately(recent, j) <= served + Memory(hits, j)
        BY <1>2, <3>1, <3>3, <3>4
      <4> QED BY <1>1, <1>2, <1>9, <3>2, <3>4, <4>1
    <3>5. CASE ttl # 1
      <4>1. ttl' # NONE /\ k \in 0 .. Window - ttl' => ttl # NONE /\ j \in 0 .. Window - ttl
        BY <1>2, <1>9, <3>1, <3>5
      <4> QED BY <1>2, <1>9, <3>2, <3>3, <3>5, <4>1
    <3> QED BY <3>4, <3>5
  <2> QED BY <2>1, <2>2
<1>13. 0 .. Window - ttl' \subseteq 0 .. Window \/ ttl' = NONE
  BY <1>2, <1>9
<1>14. Charged'
  <2>1. trouble' = trouble
    BY DEF Tick
  <2> QED BY <1>12, <1>13, <2>1 DEF Charged
<1> QED BY <1>4, <1>5, <1>14

\* Every step keeps what was let through accounted for: Redis' answers, their
\* failures, crashes and the clock.
LEMMA ChargeStep == ChargeInv /\ [Next]_vars => ChargeInv'
<1> SUFFICES ASSUME ChargeInv, [Next]_vars PROVE ChargeInv'
  OBVIOUS
<1>t. IInv /\ IInv' /\ TypeOK /\ TypeOK'
  BY StepIInv DEF ChargeInv, IInv
<1>i. OldestFirst /\ NoFallback /\ Charged
  BY DEF ChargeInv
<1> DEFINE Rest == OldestFirst /\ NoFallback /\ Charged
<1>1. ASSUME NEW r \in Requests, Arrive(r) PROVE Rest'
  BY <1>1, <1>i, ChargeKept DEF Arrive, redis
<1>2. ASSUME NEW r \in Requests, Incr(r) PROVE Rest'
  <2>1. UNCHANGED <<hits, trouble, ttl>>
    BY <1>2 DEF Incr
  <2>2. CASE count # 0 /\ count' <= Limit
    <3>1. LetThrough /\ served' = served + 1
      <4>1. served <= Limit /\ served \in Nat /\ Limit \in Nat
        BY <1>t, ChargeTypes DEF IInv, ServedCounted
      <4> QED BY <1>2, <2>2, <4>1 DEF Incr, Upto
    <3> QED BY <2>1, <3>1, ServedCharged
  <2>3. CASE ~ (count # 0 /\ count' <= Limit)
    <3>1. UNCHANGED <<served, recent>>
      BY <1>2, <2>3 DEF Incr
    <3> QED BY <1>i, <2>1, <3>1, ChargeKept
  <2> QED BY <2>2, <2>3
<1>3. ASSUME NEW r \in Requests, Expire(r) PROVE Rest'
  <2>1. served' = served + 1
    <3>1. served <= Limit /\ served \in Nat /\ Limit \in Nat
      BY <1>t, ChargeTypes DEF IInv, ServedCounted
    <3> QED BY <1>3, <3>1 DEF Expire, Upto
  <2> QED BY <1>3, <2>1, ServedCharged DEF Expire, SetTTL
<1>4. ASSUME NEW r \in Requests, IncrFails(r) PROVE Rest'
  BY <1>4, <1>t, FallbackCharged DEF IncrFails
<1>5. ASSUME NEW r \in Requests, ExpireFails(r) PROVE Rest'
  BY <1>5, <1>t, FallbackCharged DEF ExpireFails, SetTTL
<1>6. ASSUME NEW p \in Processes, Crash(p) PROVE Rest'
  <2>1. /\ UNCHANGED <<recent, served, ttl>> /\ trouble' = trouble \cup {"crash"}
        /\ hits' = [hits EXCEPT ![p] = <<>>] /\ hits \in [Processes -> Deques]
    BY <1>6, <1>t, ChargeTypes DEF Crash, redis
  <2>2. OldestFirst'
    <3> SUFFICES ASSUME NEW q \in Processes PROVE Sorted(hits'[q])
      BY DEF OldestFirst
    <3>1. CASE q = p
      BY <2>1, <3>1 DEF Sorted
    <3>2. CASE q # p
      BY <1>i, <2>1, <3>2 DEF OldestFirst
    <3> QED BY <3>1, <3>2
  <2>3. ASSUME "fault" \notin trouble PROVE hits' = hits
    <3>1. hits[p] = <<>>
      BY <1>i, <2>3 DEF NoFallback
    <3> QED BY <2>1, <3>1
  <2>4. NoFallback'
    BY <1>i, <2>1, <2>3 DEF NoFallback
  <2>5. trouble' # {"fault", "crash"} => "fault" \notin trouble
    BY <1>t, <2>1 DEF TypeOK
  <2>6. Charged'
    <3>1. CASE "fault" \in trouble
      BY <2>5, <3>1 DEF Charged
    <3>2. CASE "fault" \notin trouble
      BY <1>i, <2>1, <2>3, <3>2 DEF Charged
    <3> QED BY <3>1, <3>2
  <2> QED BY <2>2, <2>4, <2>6
<1>7. ASSUME Tick PROVE Rest'
  BY <1>7, TickCharged
<1>8. ASSUME UNCHANGED vars PROVE Rest'
  <2>1. UNCHANGED <<hits, recent, served, ttl, trouble>>
    BY <1>8 DEF vars
  <2> QED BY <1>i, <2>1, ChargeKept
<1> HIDE DEF Rest
<1>9. Rest'
  BY <1>1, <1>2, <1>3, <1>4, <1>5, <1>6, <1>7, <1>8 DEF Next
<1> QED BY <1>t, <1>9 DEF ChargeInv, Rest

\* Nothing has been let through before the first request.
LEMMA InitCharge == Init => ChargeInv
<1> SUFFICES ASSUME Init PROVE ChargeInv
  OBVIOUS
<1>1. IInv /\ TypeOK
  BY InitIInv DEF IInv
<1>2. OldestFirst /\ NoFallback
  BY DEF Init, OldestFirst, NoFallback, Sorted
<1>3. \A k \in 0 .. Window : Lately(recent, k) = 0
  <2> SUFFICES ASSUME NEW k \in 0 .. Window PROVE Lately(recent, k) = 0
    OBVIOUS
  <2>1. IsFiniteSet(0 .. k - 1) /\ 0 .. k - 1 \subseteq Ages
    BY <1>1, ChargeTypes, LatelyIsInt
  <2>2. \A a \in 0 .. k - 1 : recent[a] = 0
    BY <2>1 DEF Init
  <2> QED BY <2>1, <2>2, SumZero DEF Lately
<1>4. /\ \A k \in 0 .. Window : Memory(hits, k) \in Nat
      /\ served = 0 /\ Limit \in Nat /\ ttl = NONE
  BY <1>1, ChargeTypes DEF Init
<1>5. Charged
  BY <1>3, <1>4 DEF Charged
<1> QED BY <1>1, <1>2, <1>5 DEF ChargeInv

\* Whatever fails or dies, what was let through lately is accounted for.
THEOREM Accounted == Spec => []ChargeInv
<1> QED BY InitCharge, ChargeStep, PTL DEF Spec

\* The history's total is that of its longest interval.
LEMMA TotalIsLately ==
  ASSUME TypeOK
  PROVE  RecentTotal = Lately(recent, Window) /\ Window \in 0 .. Window
<1>1. DOMAIN recent = 0 .. Window - 1
  BY DEF TypeOK, Ages
<1>2. Window \in 0 .. Window
  BY RateLimitAssumption
<1> QED BY <1>1, <1>2 DEF RecentTotal, SumFunction, Lately

\* As long as Redis answers, any number of processes lets through two limits
\* at most in any window, for every limit, window and number of connections.
THEOREM LimitIsShared == Spec => []SharedLimit
<1>1. ChargeInv => SharedLimit
  <2> SUFFICES ASSUME ChargeInv, trouble \subseteq {"crash"} PROVE RecentTotal <= 2 * Limit
    BY DEF SharedLimit
  <2>1. TypeOK /\ NoFallback /\ Charged /\ served <= Limit
    BY DEF ChargeInv, IInv, ServedCounted
  <2>2. /\ RecentTotal = Lately(recent, Window) /\ Window \in 0 .. Window
        /\ Lately(recent, Window) \in Int /\ served \in Nat /\ Limit \in Nat
    BY <2>1, TotalIsLately, ChargeTypes
  <2>3. Lately(recent, Window) <= Limit + served + Memory(hits, Window)
    BY <2>1, <2>2 DEF Charged
  <2>4. Memory(hits, Window) = 0
    <3>1. \A p \in Processes : Young(hits[p], Window) = 0
      <4> SUFFICES ASSUME NEW p \in Processes PROVE Young(hits[p], Window) = 0
        OBVIOUS
      <4>1. hits[p] = <<>>
        BY <2>1 DEF NoFallback
      <4>2. {i \in DOMAIN hits[p] : hits[p][i] < Window} = {}
        BY <4>1
      <4> QED BY <4>2, FS_EmptySet DEF Young
    <3>2. \A p \in Processes : Youngs(hits, Window)[p] = 0
      BY <3>1 DEF Youngs
    <3> QED BY <3>2, RateLimitAssumption, SumZero DEF Memory
  <2> QED BY <2>1, <2>2, <2>3, <2>4
<1> QED BY <1>1, Accounted, PTL

\* While no process dies, an outage costs at most one limit for each process
\* beside the two of the counter, whatever Redis executes of what fails.
THEOREM OutageIsCapped == Spec => []OutageCapped
<1>1. ChargeInv => OutageCapped
  <2> SUFFICES ASSUME ChargeInv, trouble \subseteq {"fault"}
               PROVE  RecentTotal <= (2 + Cardinality(Processes)) * Limit
    BY DEF OutageCapped
  <2>1. TypeOK /\ Charged /\ served <= Limit
    BY DEF ChargeInv, IInv, ServedCounted
  <2>2. /\ RecentTotal = Lately(recent, Window) /\ Window \in 0 .. Window
        /\ Lately(recent, Window) \in Int /\ served \in Nat /\ Limit \in Nat
        /\ hits \in [Processes -> Deques]
    BY <2>1, TotalIsLately, ChargeTypes
  <2>3. Lately(recent, Window) <= Limit + served + Memory(hits, Window)
    BY <2>1, <2>2 DEF Charged
  <2>4. Memory(hits, Window) <= Cardinality(Processes) * Limit
    <3>1. \A p \in Processes : Young(hits[p], Window) \in Nat /\ Young(hits[p], Window) <= Limit
      <4> TAKE p \in Processes
      <4>1. /\ Young(hits[p], Window) \in Nat /\ Len(hits[p]) \in Nat
            /\ Young(hits[p], Window) <= Len(hits[p])
        BY <2>2, DequeFields
      <4>2. Len(hits[p]) <= Limit
        BY <2>1 DEF TypeOK
      <4> QED BY <2>2, <4>1, <4>2
    <3>2. \A p \in Processes :
            Youngs(hits, Window)[p] \in Int /\ Youngs(hits, Window)[p] <= Limit
      BY <3>1 DEF Youngs
    <3> QED BY <2>2, <3>2, RateLimitAssumption, SumBound DEF Memory
  <2>5. Cardinality(Processes) \in Nat /\ Memory(hits, Window) \in Nat
    BY <2>2, MemoryIsNat, RateLimitAssumption, FS_CardinalityType
  <2>6. \A n \in Nat : (2 + n) * Limit = 2 * Limit + n * Limit /\ n * Limit \in Nat
    BY <2>2
  <2> QED BY <2>1, <2>2, <2>3, <2>4, <2>5, <2>6
<1> QED BY <1>1, Accounted, PTL
=============================================================================
