------------------------------- MODULE Ranking -------------------------------
(***************************************************************************)
(* Which bank row an automatic match takes: the prefilter, the signals,    *)
(* reciprocal rank fusion and the gates of ReconciliationService           *)
(* (src/reckonflow/services/reconciliation.py), for one expense and one    *)
(* statement.  Reconciliation leaves this choice open and models what it   *)
(* is raced by.                                                            *)
(*                                                                         *)
(* Amounts are cents, dates days, similarities fractions, so every         *)
(* comparison is exact; what the texts of two rows say is data.            *)
(***************************************************************************)
EXTENDS Integers, Sequences, FiniteSets, FiniteSetsExt

CONSTANTS
    BankRows,        \* unmatched rows: text, amount, date, currency
    Expense,         \* its amount, date and currency
    Fuzzy,           \* a text's token_set_ratio with the expense's, 0 to 100
    Cosine,          \* percent, or NONE where an embedding is missing
    DateWindow, TolerancePercent,
    RRFK, ThresholdPercent, MinFuzzy,
    MaxRows,         \* rows of the statement
    Whole,           \* the unit of the scores, a multiple of all k + rank
    NONE

ASSUME RankingAssumption ==
    /\ RRFK \in Nat \ {0} /\ MaxRows \in Nat
    /\ Whole \in Nat /\ \A rank \in 1 .. MaxRows : Whole % (RRFK + rank) = 0
    /\ DateWindow \in Int /\ TolerancePercent \in Nat
    /\ ThresholdPercent \in 0 .. 100
    /\ Expense.amount \in Int /\ Expense.date \in Int
    /\ \A row \in BankRows :
         /\ row.amount \in Int /\ row.date \in Int
         /\ Fuzzy[row.text] \in Nat
         /\ Cosine[row.text] \in Int \cup {NONE}
    /\ NONE \notin Int

VARIABLES
    statement,       \* the open rows, in the order of booking_date
    suggested,       \* the first two of the ranking, as places in statement
    decision         \* the place of the row matched, or why there is none

rankingVars == <<statement, suggested, decision>>

Abs(n) == IF n < 0 THEN -n ELSE n

-----------------------------------------------------------------------------
(* Prefilter and signals.                                                  *)

\* Amounts here are hundredths of a cent, to keep the tolerance exact.
Slack == Max({100, TolerancePercent * Abs(Expense.amount)})

Plausible(row) ==
    LET low == 100 * Abs(Expense.amount) - Slack
        high == 100 * Abs(Expense.amount) + Slack
        amount == 100 * row.amount
    IN /\ row.currency = Expense.currency
       /\ Abs(row.date - Expense.date) <= DateWindow
       /\ amount \in low .. high \/ amount \in -high .. -low

Survivors == {i \in DOMAIN statement : Plausible(statement[i])}

Fraction(n, d) == [num |-> n, den |-> d]
Exceeds(x, y) == x.num * y.den > y.num * x.den

AmountSimilarity(row) ==
    LET a == Abs(Expense.amount)
        b == Abs(row.amount)
        largest == Max({a, b})
    IN IF largest = 0 THEN Fraction(1, 1)
                      ELSE Fraction(largest - Abs(a - b), largest)

DateSimilarity(row) ==
    LET distance == Abs(row.date - Expense.date)
    IN IF DateWindow <= 0
       THEN Fraction(IF distance = 0 THEN 1 ELSE 0, 1)
       ELSE Fraction(Max({0, DateWindow - distance}), DateWindow)

\* Amount and date are one signal.
AmountDate(row) ==
    LET x == AmountSimilarity(row)
        y == DateSimilarity(row)
    IN Fraction(x.num * y.den + y.num * x.den, x.den * y.den)

FuzzySignal ==
    [i \in DOMAIN statement |-> Fraction(Fuzzy[statement[i].text], 1)]

AmountDateSignal ==
    [i \in DOMAIN statement |-> AmountDate(statement[i])]

\* "or -1.0": a cosine of 0.0 counts as missing.
EmbeddingSignal ==
    [i \in DOMAIN statement |->
       LET cosine == Cosine[statement[i].text]
       IN Fraction(IF cosine \in {NONE, 0} THEN -100 ELSE cosine, 100)]

HasEmbeddings == \E i \in Survivors : Cosine[statement[i].text] # NONE

-----------------------------------------------------------------------------
(* Rank fusion.                                                            *)

RankUpsideDown(Rows, signal, i) ==
    1 + Cardinality({j \in Rows :
          \/ Exceeds(signal[i], signal[j])
          \/ ~ Exceeds(signal[j], signal[i]) /\ j < i})

\* sorted(..., reverse=True) keeps equal rows in statement order.
Rank(Rows, signal, i) ==
    1 + Cardinality({j \in Rows :
          \/ Exceeds(signal[j], signal[i])
          \/ ~ Exceeds(signal[i], signal[j]) /\ j < i})

\* 1 / (k + rank), in units that make it a whole number.
Share(rank) == Whole \div (RRFK + rank)

Fused(i) ==
    LET S == Survivors
    IN Share(Rank(S, FuzzySignal, i)) + Share(Rank(S, AmountDateSignal, i))
         + IF HasEmbeddings THEN Share(Rank(S, EmbeddingSignal, i)) ELSE 0

BestPossibleOfThree == 3 * Share(1)

\* The best score there is: the first place in every ranking.
BestPossible == (IF HasEmbeddings THEN 3 ELSE 2) * Share(1)

AutoMatchable(i) ==
    /\ 100 * Fused(i) >= ThresholdPercent * BestPossible
    /\ Fuzzy[statement[i].text] >= MinFuzzy

\* The rows with the highest score first, ties by text and then by statement
\* order, which is their order in the fuzzy ranking.
Ranked ==
    LET S == Survivors
        score == [i \in S |-> Fused(i)]
        text == [i \in S |-> Fuzzy[statement[i].text]]
        Before(i, j) == \/ score[i] > score[j]
                        \/ score[i] = score[j] /\ text[i] > text[j]
                        \/ score[i] = score[j] /\ text[i] = text[j] /\ i < j
    IN [place \in 1 .. Cardinality(S) |->
          CHOOSE i \in S : Cardinality({j \in S : Before(j, i)}) = place - 1]

-----------------------------------------------------------------------------
(* The automatic match.                                                    *)

InDateOrder(rows) ==
    \A i, j \in DOMAIN rows : i < j => rows[i].date <= rows[j].date

RankingInit ==
    /\ statement \in {rows \in UNION {[1 .. n -> BankRows] : n \in 0 .. MaxRows} :
                        InDateOrder(rows)}
    /\ suggested = <<>>
    /\ decision = "open"

\* suggest_matches with limit=2: the rows behind the second are cut off.
Suggest ==
    /\ decision = "open"
    /\ suggested' = SubSeq(Ranked, 1, Min({2, Len(Ranked)}))
    /\ decision' = "suggested"
    /\ UNCHANGED statement

\* auto_reconcile: park unless the first clears every gate and the second,
\* if there is one, does not.
Decide ==
    /\ decision = "suggested"
    /\ decision' = IF /\ suggested # <<>> /\ AutoMatchable(suggested[1])
                      /\ Len(suggested) > 1 => ~ AutoMatchable(suggested[2])
                   THEN "matched" ELSE "parked"
    /\ UNCHANGED <<statement, suggested>>

Decided ==
    /\ decision \in {"matched", "parked"}
    /\ UNCHANGED rankingVars

RankingNext == Suggest \/ Decide \/ Decided

RankingSpec == RankingInit /\ [][RankingNext]_rankingVars

-----------------------------------------------------------------------------
(* scripts/run_matching_evals.py, the offline measurement of the ranking.  *)

EvalPrefilter ==
    {i \in DOMAIN statement :
       LET magnitude == 100 * Abs(statement[i].amount)
       IN /\ Abs(statement[i].date - Expense.date) <= DateWindow
          /\ magnitude >= 100 * Abs(Expense.amount) - Slack
          /\ magnitude <= 100 * Abs(Expense.amount) + Slack}

EvalCosine ==
    [i \in DOMAIN statement |-> Fraction(Cosine[statement[i].text], 100)]

EvalFusedWithoutDates(i) ==
    LET S == EvalPrefilter
    IN Share(Rank(S, FuzzySignal, i)) + Share(Rank(S, EvalCosine, i))

\* The hybrid baseline has three rankings always.
EvalFused(i) ==
    LET S == EvalPrefilter
    IN Share(Rank(S, FuzzySignal, i)) + Share(Rank(S, AmountDateSignal, i))
         + Share(Rank(S, EvalCosine, i))

\* The script's list: sorted by the fused score, and equal ones stay as the
\* scores were collected, which is in the order of the fuzzy ranking.
EvalBefore(i, j) ==
    LET text(k) == Fuzzy[statement[k].text]
    IN \/ EvalFused(i) > EvalFused(j)
       \/ EvalFused(i) = EvalFused(j) /\ text(i) > text(j)
       \/ EvalFused(i) = EvalFused(j) /\ text(i) = text(j) /\ i < j

EvalPlace(i) == 1 + Cardinality({j \in EvalPrefilter : EvalBefore(j, i)})

-----------------------------------------------------------------------------
(* Properties                                                              *)

Matched == decision = "matched"
Chosen == suggested[1]

\* i is the better row in every signal there is.
Beats(i, j) ==
    /\ Exceeds(FuzzySignal[i], FuzzySignal[j])
    /\ Exceeds(AmountDateSignal[i], AmountDateSignal[j])
    /\ HasEmbeddings => Exceeds(EmbeddingSignal[i], EmbeddingSignal[j])

HasTheWords(i) == Fuzzy[statement[i].text] >= MinFuzzy

\* "Missing embeddings then degrade gracefully": a row that is the best in every
\* signal there is, and the only one whose words agree, is matched and not
\* parked, on a statement with embeddings, without any or with some.
ClearWinnerMatched ==
    decision \in {"matched", "parked"} =>
      \A i \in Survivors :
        /\ HasTheWords(i)
        /\ \A j \in Survivors \ {i} : Beats(i, j) /\ ~ HasTheWords(j)
        => Matched /\ Chosen = i

\* "Two identical candidates are not a decision, they are a coin flip": a row is
\* not matched while another one says the same, whatever else is on the statement.
RefusesToGuess ==
    Matched => \A i \in Survivors : statement[i] = statement[Chosen] => i = Chosen

\* Ranks lose how much better a row is, but never that it is better: no row that
\* beats the matched one in every signal is passed over.
ChosenUnbeaten ==
    Matched => \A i \in Survivors : ~ Beats(i, Chosen)

\* The evaluation measures what the service does: the rows the service suggests
\* have the same places in the list of the script's hybrid baseline.  Where they
\* have not is a cosine that is missing or exactly 0, which the service ranks
\* behind every negative one.
EvalMeasuresService ==
    (\A i \in DOMAIN statement :
       /\ statement[i].currency = Expense.currency
       /\ Cosine[statement[i].text] \notin {NONE, 0})
    => \A place \in DOMAIN suggested :
         /\ suggested[place] \in EvalPrefilter
         /\ EvalPlace(suggested[place]) = place
=============================================================================
