\* Statements of up to four rows, ledgers of up to three transactions.
CONSTANTS
    same = same
    near = near
    other = other
    bare = bare
    blank = blank
    EUR = EUR
    USD = USD
    BankRows <- Rows
    Expense <- Paid
    Fuzzy <- FuzzyOf
    Cosine <- CosineOf
    DateWindow = 5
    TolerancePercent = 2
    RRFK = 60
    ThresholdPercent = 72
    MinFuzzy = 60
    MaxRows = 4
    Whole = 15249024
    NONE = NONE
    cash = cash
    travel = travel
    dollars = dollars
    fees = fees
    Accounts = {cash, travel, dollars, fees}
    Currencies = {EUR, USD}
    CurrencyOf <- CurrencyTable
    Drafts <- Postings
    MaxAmount = 10
    MaxPosted = 3
SPECIFICATION Spec
INVARIANTS
    ClearWinnerMatched
    ChosenUnbeaten
    EvalMeasuresService
    BooksBalance
    Reversible
