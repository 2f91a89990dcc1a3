------------------------------- MODULE MCRules -------------------------------
(***************************************************************************)
(* Ledger and Ranking side by side: rules without concurrency, checked for *)
(* all small inputs.  A behaviour posts to the ledger or ranks a           *)
(* statement.                                                              *)
(***************************************************************************)
EXTENDS MCRanking, Ledger

CONSTANTS cash, travel, dollars, fees

CurrencyTable == cash :> EUR @@ travel :> EUR @@ dollars :> USD @@ fees :> USD

Debit(a, x) == Line(a, x, 0, CurrencyTable[a])
Credit(a, x) == Line(a, 0, x, CurrencyTable[a])

\* An ordinary posting, one with two currencies, one that mixes them, amounts
\* that round away or differ once rounded, in one currency and in two that
\* cancel each other, two sides, a negative amount, another account's currency,
\* an unknown account, a single line, more than the column holds.
Postings ==
    {<<Debit(travel, 20), Credit(cash, 20)>>,
     <<Debit(travel, 20), Credit(cash, 20), Debit(fees, 10), Credit(dollars, 10)>>,
     <<Debit(travel, 20), Credit(dollars, 20)>>,
     <<Debit(travel, 4), Credit(cash, 4)>>,
     <<Debit(travel, 5), Debit(travel, 5), Credit(cash, 10)>>,
     <<Debit(travel, 5), Debit(travel, 5), Credit(cash, 10),
       Credit(dollars, 5), Credit(dollars, 5), Debit(fees, 10)>>,
     <<Line(travel, 20, 20, EUR), Line(cash, 20, 20, EUR)>>,
     <<Debit(travel, -20), Credit(cash, -20)>>,
     <<Line(travel, 20, 0, USD), Line(cash, 0, 20, USD)>>,
     <<Line("nobody", 20, 0, EUR), Credit(cash, 20)>>,
     <<Debit(travel, 20)>>,
     <<Debit(travel, 100), Credit(cash, 100)>>}

Init == RankingInit /\ LedgerInit

Next ==
    \/ RankingNext /\ UNCHANGED posted
    \/ statement = <<>> /\ decision = "open" /\ LedgerNext /\ UNCHANGED rankingVars

Spec == Init /\ [][Next]_<<rankingVars, posted>>
=============================================================================
