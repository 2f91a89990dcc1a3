---------------------------- MODULE Reimbursement ----------------------------
(***************************************************************************)
(* What the service promises about the money of a trip: its approval is    *)
(* decided once, money is spent on it only when it was approved, and it is *)
(* paid once, in one step with its status, for nothing but its own         *)
(* expenses.  Travel.tla is shown to implement this.                       *)
(***************************************************************************)
CONSTANTS Trips, Expenses

VARIABLES
    status,          \* of each trip's approval
    spent,           \* <<trip, expense>>
    payments         \* what was paid for which trip

reimbursement == <<status, spent, payments>>

SpentOn(t) == {e \in Expenses : <<t, e>> \in spent}

Init ==
    /\ status = [t \in Trips |-> "absent"]
    /\ spent = {}
    /\ payments = {}

Open(t) ==
    /\ status[t] = "absent"
    /\ status' = [status EXCEPT ![t] = "pending"]
    /\ UNCHANGED <<spent, payments>>

Decide(t) ==
    /\ status[t] = "pending"
    /\ \E verdict \in {"approved", "rejected"} :
         status' = [status EXCEPT ![t] = verdict]
    /\ UNCHANGED <<spent, payments>>

\* An expense is of one trip for good.
Spend(t, e) ==
    /\ status[t] \in {"approved", "paid"}
    /\ \A u \in Trips : <<u, e>> \notin spent
    /\ spent' = spent \cup {<<t, e>>}
    /\ UNCHANGED <<status, payments>>

\* What is spent while the payment is made may be left out of it.
Pay(t) ==
    /\ status[t] = "approved"
    /\ \A p \in payments : p.trip # t
    /\ \E covered \in SUBSET SpentOn(t) :
         payments' = payments \cup {[trip |-> t, covers |-> covered]}
    /\ status' = [status EXCEPT ![t] = "paid"]
    /\ UNCHANGED spent

Next == \E t \in Trips :
    Open(t) \/ Decide(t) \/ Pay(t) \/ \E e \in Expenses : Spend(t, e)

Spec == Init /\ [][Next]_reimbursement
=============================================================================
