-------------------------------- MODULE Once --------------------------------
(***************************************************************************)
(* What an Idempotency-Key promises the clients that retry with it: the    *)
(* request is run once, its response is kept, and whoever asks again is    *)
(* told that response, until the key is forgotten.  The promise ends with  *)
(* the first thing that goes wrong in the store that keeps the keys.       *)
(* Idempotency.tla is shown to implement this.                             *)
(***************************************************************************)
CONSTANTS Requests, NONE

VARIABLES
    ran,             \* the requests that have run under the key
    kept,            \* the request whose response is kept
    told,            \* whose response a client was given
    broken           \* the promise has ended

once == <<ran, kept, told, broken>>

Init ==
    /\ ran = {}
    /\ kept = NONE
    /\ told = [r \in Requests |-> NONE]
    /\ broken \in BOOLEAN

Run(r) ==
    /\ ran = {}
    /\ ran' = {r}
    /\ UNCHANGED <<kept, told>>

\* The response is kept and given to the client whose request ran.
Keep(r) ==
    /\ ran = {r} /\ kept = NONE /\ told[r] = NONE
    /\ kept' = r
    /\ told' = [told EXCEPT ![r] = r]
    /\ UNCHANGED ran

Replay(r) ==
    /\ kept # NONE /\ told[r] = NONE
    /\ told' = [told EXCEPT ![r] = kept]
    /\ UNCHANGED <<ran, kept>>

Forget ==
    /\ ran' = {} /\ kept' = NONE
    /\ UNCHANGED told

Promised == Forget \/ \E r \in Requests : Run(r) \/ Keep(r) \/ Replay(r)

\* Once broken, nothing is promised any more.
Next == broken' \/ (~ broken /\ ~ broken' /\ Promised)

Spec == Init /\ [][Next]_once
=============================================================================
