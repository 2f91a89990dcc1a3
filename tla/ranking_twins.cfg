\* Three rows, two of them equal.
CONSTANTS
    same = same
    near = near
    other = other
    bare = bare
    blank = blank
    EUR = EUR
    USD = USD
    BankRows <- Rows
    Expense <- Paid
    Fuzzy <- FuzzyOf
    Cosine <- CosineOf
    DateWindow = 5
    TolerancePercent = 2
    RRFK = 60
    ThresholdPercent = 72
    MinFuzzy = 60
    MaxRows = 3
    Whole = 238266
    NONE = NONE
SPECIFICATION RankingSpec
INVARIANTS
    RefusesToGuess
