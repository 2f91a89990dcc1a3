\* One trip: an approval race, two payments, an expense and a journal entry.
CONSTANTS
    Trips = {t1}
    Moves = {m1, m2, m3}
    Spends = {s1}
    Posts = {b1}
    Currencies = {eur, usd}
    NONE = NONE
SPECIFICATION Spec
SYMMETRY Symmetry
INVARIANTS
    TypeOK
    PaidIffPosted
    SpendAfterApproval
    PaymentCoversSpend
PROPERTIES
    ImplementsReimbursement
