----------------------------- MODULE MCRanking -----------------------------
(***************************************************************************)
(* Small instances of Ranking: an expense of 100 cents on day 10 and       *)
(* statements of a few rows.                                               *)
(***************************************************************************)
EXTENDS Ranking, TLC

CONSTANTS same, near, other, bare, blank, EUR, USD

Paid == [amount |-> 100, date |-> 10, currency |-> EUR]

Row(t, a, d, c) == [text |-> t, amount |-> a, date |-> d, currency |-> c]

\* The same payment, one a day late, one with a fee and another wording, one of
\* the same sum whose words just miss the gate, ones without an embedding or a
\* plausible amount, date or currency, one whose words share nothing.
Rows == {Row(same, -100, 10, EUR), Row(same, -99, 11, EUR), Row(same, -99, 9, EUR),
         Row(near, 102, 12, EUR), Row(near, -100, 15, EUR),
         Row(other, -100, 10, EUR), Row(other, 98, 5, EUR),
         Row(bare, -100, 11, EUR), Row(blank, -101, 10, EUR),
         Row(same, -103, 10, EUR), Row(same, -100, 16, EUR), Row(same, -100, 10, USD)}

\* token_set_ratio and cosine of the five wordings; 60 is the gate.
FuzzyOf == same :> 100 @@ near :> 60 @@ other :> 59 @@ bare :> 60 @@ blank :> 0
CosineOf == same :> 90 @@ near :> 40 @@ other :> -20 @@ bare :> NONE
            @@ blank :> 0
=============================================================================
