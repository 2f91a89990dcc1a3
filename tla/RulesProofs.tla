----------------------------- MODULE RulesProofs -----------------------------
(***************************************************************************)
(* Proofs about Ledger, for any accounts, currencies and postings, and     *)
(* about Ranking, for any statement, scores and gates.                     *)
(***************************************************************************)
EXTENDS Ranking, Ledger, Sums, SequenceTheorems

-----------------------------------------------------------------------------
(* Lists of lines.                                                         *)

\* A list of lines with numbers in them, as LedgerAssumption has the drafts.
IsLines(lines) ==
    /\ Len(lines) \in Nat /\ DOMAIN lines = 1 .. Len(lines)
    /\ \A i \in DOMAIN lines : lines[i].debit \in Int /\ lines[i].credit \in Int

\* A line is what it is built from.
LEMMA LineFields ==
  ASSUME NEW a, NEW d, NEW cr, NEW c
  PROVE  /\ Line(a, d, cr, c).account = a /\ Line(a, d, cr, c).debit = d
         /\ Line(a, d, cr, c).credit = cr /\ Line(a, d, cr, c).currency = c
  BY DEF Line

\* Sums over the lines of a list are sums of integers over finite sets.
LEMMA FiniteLines ==
  ASSUME NEW lines, IsLines(lines)
  PROVE  /\ IsFiniteSet(DOMAIN lines)
         /\ \A c : IsFiniteSet(LinesIn(lines, c)) /\ LinesIn(lines, c) \subseteq DOMAIN lines
         /\ \A S \in SUBSET DOMAIN lines : IntegerOn(DebitOf(lines), S) /\ IntegerOn(CreditOf(lines), S)
<1>1. IsFiniteSet(DOMAIN lines)
  BY FS_Interval DEF IsLines
<1>2. \A c : LinesIn(lines, c) \subseteq DOMAIN lines
  BY DEF LinesIn
<1>3. \A c : IsFiniteSet(LinesIn(lines, c))
  BY <1>1, <1>2, FS_Subset
<1>4. \A S \in SUBSET DOMAIN lines : IntegerOn(DebitOf(lines), S) /\ IntegerOn(CreditOf(lines), S)
  BY DEF IsLines, IntegerOn, DebitOf, CreditOf
<1> QED BY <1>1, <1>2, <1>3, <1>4

\* A column holds a whole number of units.
LEMMA ColumnIsInt == \A x \in Int : Column(x) \in Int
  BY DEF Column

\* Storing lines keeps their number, accounts and currencies and rounds both
\* amounts of each.
LEMMA EntriesAreLines ==
  ASSUME NEW lines, IsLines(lines)
  PROVE  /\ IsLines(Entries(lines)) /\ DOMAIN Entries(lines) = DOMAIN lines
         /\ Len(Entries(lines)) = Len(lines)
         /\ \A i \in DOMAIN lines :
              /\ Entries(lines)[i].debit = Column(lines[i].debit)
              /\ Entries(lines)[i].credit = Column(lines[i].credit)
              /\ Entries(lines)[i].account = lines[i].account
              /\ Entries(lines)[i].currency = lines[i].currency
<1>1. DOMAIN Entries(lines) = 1 .. Len(lines) /\ Len(lines) \in Nat
  BY DEF Entries, IsLines
<1>2. Len(Entries(lines)) = Len(lines)
  BY <1>1, LenProperties DEF Entries, IsLines
<1>3. ASSUME NEW i \in DOMAIN lines
      PROVE  /\ Entries(lines)[i].debit = Column(lines[i].debit)
             /\ Entries(lines)[i].credit = Column(lines[i].credit)
             /\ Entries(lines)[i].account = lines[i].account
             /\ Entries(lines)[i].currency = lines[i].currency
  BY LineFields DEF Entries
<1>4. \A i \in DOMAIN lines : Column(lines[i].debit) \in Int /\ Column(lines[i].credit) \in Int
  BY ColumnIsInt DEF IsLines
<1> QED BY <1>1, <1>2, <1>3, <1>4 DEF IsLines

\* Amounts the schema accepts are whole columns: rounding changes nothing.
LEMMA WholeColumns ==
  ASSUME NEW x \in Int, FourDecimals(x)
  PROVE  x = 10 * Column(x)
<1>1. x % 10 = 0
  BY DEF FourDecimals
<1>2. PICK q \in Int : x = 10 * q
  <2>1. x = (10 * (x \div 10)) + (x % 10) /\ x \div 10 \in Int
    OBVIOUS
  <2> QED BY <1>1, <2>1
<1>3. (10 * q + 5) \div 10 = q /\ (5 - 10 * q) \div 10 = -q
  OBVIOUS
<1> QED BY <1>2, <1>3 DEF Column

\* Lines with four decimals that balance still balance as stored.
LEMMA BalanceSurvivesRounding ==
  ASSUME NEW lines, IsLines(lines), Balanced(lines),
         \A i \in DOMAIN lines : FourDecimals(lines[i].debit) /\ FourDecimals(lines[i].credit)
  PROVE  Balanced(Entries(lines))
<1> DEFINE E == Entries(lines)
<1>1. SUFFICES ASSUME NEW c \in Currencies PROVE Debits(E, c) = Credits(E, c)
  BY DEF Balanced
<1> DEFINE S == LinesIn(lines, c)
<1>2. LinesIn(E, c) = S
  BY EntriesAreLines DEF LinesIn
<1>3. IsLines(E) /\ IsFiniteSet(S) /\ S \in SUBSET DOMAIN lines /\ DOMAIN E = DOMAIN lines
  BY EntriesAreLines, FiniteLines
<1>4. /\ IntegerOn(DebitOf(E), S) /\ IntegerOn(CreditOf(E), S)
  BY <1>3, FiniteLines
<1>5. \A i \in S : DebitOf(lines)[i] = 10 * DebitOf(E)[i] + 0 * DebitOf(E)[i]
  <2> SUFFICES ASSUME NEW i \in DOMAIN lines
               PROVE  DebitOf(lines)[i] = 10 * DebitOf(E)[i] + 0 * DebitOf(E)[i]
    BY <1>3
  <2>1. lines[i].debit = 10 * E[i].debit /\ E[i].debit \in Int
    BY EntriesAreLines, WholeColumns, ColumnIsInt DEF IsLines
  <2> HIDE DEF E
  <2> QED BY <1>3, <2>1 DEF DebitOf
<1>6. \A i \in S : CreditOf(lines)[i] = 10 * CreditOf(E)[i] + 0 * CreditOf(E)[i]
  <2> SUFFICES ASSUME NEW i \in DOMAIN lines
               PROVE  CreditOf(lines)[i] = 10 * CreditOf(E)[i] + 0 * CreditOf(E)[i]
    BY <1>3
  <2>1. lines[i].credit = 10 * E[i].credit /\ E[i].credit \in Int
    BY EntriesAreLines, WholeColumns, ColumnIsInt DEF IsLines
  <2> HIDE DEF E
  <2> QED BY <1>3, <2>1 DEF CreditOf
<1> DEFINE d == SumFunctionOnSet(DebitOf(E), S)
           k == SumFunctionOnSet(CreditOf(E), S)
<1> HIDE DEF E, S
<1>7. d \in Int /\ k \in Int
  BY <1>3, <1>4, SumInteger
<1>8. /\ SumFunctionOnSet(DebitOf(lines), S) = 10 * d + 0 * d
      /\ SumFunctionOnSet(CreditOf(lines), S) = 10 * k + 0 * k
  BY <1>3, <1>4, <1>5, <1>6, SumLinear
<1>9. SumFunctionOnSet(DebitOf(lines), S) = SumFunctionOnSet(CreditOf(lines), S)
  BY DEF Balanced, Debits, Credits, S
<1>10. d = k
  <2> HIDE DEF d, k
  <2> QED BY <1>7, <1>8, <1>9
<1> QED BY <1>2, <1>10 DEF Debits, Credits

-----------------------------------------------------------------------------
(* One transaction.                                                        *)

\* What is known of a transaction in the ledger.
Sound(tx) ==
    /\ IsLines(tx.entries) /\ Len(tx.entries) >= 2
    /\ \A i \in DOMAIN tx.entries :
         /\ RowAccepted(tx.entries[i])
         /\ tx.entries[i].account \in Accounts
         /\ tx.entries[i].currency = CurrencyOf[tx.entries[i].account]
    /\ BalancedInTotal(tx.entries)
    /\ tx.by = "http" => Balanced(tx.entries)

\* What schema, service, columns and trigger let through is sound.
LEMMA AcceptedIsSound ==
  ASSUME NEW by \in Callers, NEW lines, IsLines(lines), Accepted(by, lines)
  PROVE  Sound([by |-> by, entries |-> Entries(lines)])
<1>1. /\ IsLines(Entries(lines)) /\ Len(Entries(lines)) >= 2
  BY EntriesAreLines DEF Accepted, ServiceAccepts
<1>2. ASSUME NEW i \in DOMAIN Entries(lines)
      PROVE  /\ RowAccepted(Entries(lines)[i])
             /\ Entries(lines)[i].account \in Accounts
             /\ Entries(lines)[i].currency = CurrencyOf[Entries(lines)[i].account]
  BY EntriesAreLines DEF Accepted, ServiceAccepts
<1>3. BalancedInTotal(Entries(lines))
  BY DEF Accepted, TriggerPasses
<1>4. by = "http" => Balanced(Entries(lines))
  BY BalanceSurvivesRounding DEF Accepted, SchemaAccepts
<1> QED BY <1>1, <1>2, <1>3, <1>4 DEF Sound

\* A reversal has a line for each entry.
LEMMA ReversedIsLines ==
  ASSUME NEW tx, Sound(tx)
  PROVE  /\ IsLines(Reversed(tx)) /\ Len(Reversed(tx)) = Len(tx.entries)
         /\ DOMAIN Reversed(tx) = DOMAIN tx.entries
         /\ \A i \in DOMAIN tx.entries :
              /\ Reversed(tx)[i].debit = 10 * tx.entries[i].credit
              /\ Reversed(tx)[i].credit = 10 * tx.entries[i].debit
              /\ Reversed(tx)[i].account = tx.entries[i].account
              /\ Reversed(tx)[i].currency = tx.entries[i].currency
<1>1. DOMAIN Reversed(tx) = 1 .. Len(tx.entries) /\ Len(tx.entries) \in Nat
  BY DEF Reversed, Sound, IsLines
<1>2. Len(Reversed(tx)) = Len(tx.entries)
  BY <1>1 DEF Reversed, Sound, IsLines
<1>3. ASSUME NEW i \in DOMAIN tx.entries
      PROVE  /\ Reversed(tx)[i].debit = 10 * tx.entries[i].credit
             /\ Reversed(tx)[i].credit = 10 * tx.entries[i].debit
             /\ Reversed(tx)[i].account = tx.entries[i].account
             /\ Reversed(tx)[i].currency = tx.entries[i].currency
  BY LineFields DEF Reversed
<1> QED BY <1>1, <1>2, <1>3 DEF Sound, IsLines

\* A reversal stores the same entries with the sides swapped.
LEMMA SidesSwapped ==
  ASSUME NEW tx, Sound(tx), NEW i \in DOMAIN tx.entries
  PROVE  /\ Entries(Reversed(tx))[i].debit = tx.entries[i].credit
         /\ Entries(Reversed(tx))[i].credit = tx.entries[i].debit
         /\ FourDecimals(Reversed(tx)[i].debit) /\ FourDecimals(Reversed(tx)[i].credit)
<1>1. \A x \in Int : 10 * x \in Int /\ FourDecimals(10 * x) /\ Column(10 * x) = x
  <2> TAKE x \in Int
  <2>1. 10 * x \in Int /\ FourDecimals(10 * x)
    BY DEF FourDecimals
  <2>2. 10 * x = 10 * Column(10 * x) /\ Column(10 * x) \in Int
    BY <2>1, WholeColumns, ColumnIsInt
  <2> QED BY <2>1, <2>2
<1>2. tx.entries[i].debit \in Int /\ tx.entries[i].credit \in Int
  BY DEF Sound, IsLines
<1>3. /\ Reversed(tx)[i].debit = 10 * tx.entries[i].credit
      /\ Reversed(tx)[i].credit = 10 * tx.entries[i].debit
      /\ Entries(Reversed(tx))[i].debit = Column(Reversed(tx)[i].debit)
      /\ Entries(Reversed(tx))[i].credit = Column(Reversed(tx)[i].credit)
  BY ReversedIsLines, EntriesAreLines
<1> QED BY <1>1, <1>2, <1>3

\* The reversal of what a client could post passes everything again.
LEMMA ReversalAccepted ==
  ASSUME NEW tx, Sound(tx), tx.by = "http"
  PROVE  Accepted("http", Reversed(tx))
<1> DEFINE R == Reversed(tx)
           E == Entries(R)
           T == tx.entries
<1>1. /\ IsLines(R) /\ Len(R) >= 2 /\ DOMAIN R = DOMAIN T
      /\ IsLines(E) /\ DOMAIN E = DOMAIN T
  BY ReversedIsLines, EntriesAreLines DEF Sound
<1>2. ASSUME NEW i \in DOMAIN T
      PROVE  /\ E[i].debit = T[i].credit /\ E[i].credit = T[i].debit
             /\ FourDecimals(R[i].debit) /\ FourDecimals(R[i].credit)
             /\ R[i].debit = 10 * T[i].credit /\ R[i].credit = 10 * T[i].debit
             /\ R[i].account = T[i].account /\ R[i].currency = T[i].currency
             /\ T[i].debit \in Int /\ T[i].credit \in Int /\ RowAccepted(T[i])
             /\ T[i].account \in Accounts /\ T[i].currency = CurrencyOf[T[i].account]
  BY SidesSwapped, ReversedIsLines DEF Sound, IsLines
<1>3. IsLines(T) /\ Balanced(T) /\ BalancedInTotal(T)
  BY DEF Sound
<1>4. Balanced(R)
  <2> SUFFICES ASSUME NEW c \in Currencies PROVE Debits(R, c) = Credits(R, c)
    BY DEF Balanced
  <2> DEFINE S == LinesIn(T, c)
  <2>1. LinesIn(R, c) = S /\ IsFiniteSet(S) /\ S \in SUBSET DOMAIN T
    <3>1. LinesIn(R, c) = S
      <4> HIDE DEF R, T
      <4> QED BY <1>1, <1>2 DEF LinesIn
    <3> QED BY <1>3, <3>1, FiniteLines
  <2>2. IntegerOn(DebitOf(T), S) /\ IntegerOn(CreditOf(T), S)
    BY <1>3, <2>1, FiniteLines
  <2>3. /\ \A i \in S : DebitOf(R)[i] = 10 * CreditOf(T)[i] + 0 * CreditOf(T)[i]
        /\ \A i \in S : CreditOf(R)[i] = 10 * DebitOf(T)[i] + 0 * DebitOf(T)[i]
    <3> HIDE DEF R, T, S
    <3> QED BY <1>1, <1>2, <2>1 DEF DebitOf, CreditOf
  <2> HIDE DEF R, T, S
  <2>4. /\ SumFunctionOnSet(DebitOf(R), S)
             = 10 * SumFunctionOnSet(CreditOf(T), S) + 0 * SumFunctionOnSet(CreditOf(T), S)
        /\ SumFunctionOnSet(CreditOf(R), S)
             = 10 * SumFunctionOnSet(DebitOf(T), S) + 0 * SumFunctionOnSet(DebitOf(T), S)
    BY <2>1, <2>2, <2>3, SumLinear
  <2>5. SumFunctionOnSet(DebitOf(T), S) = SumFunctionOnSet(CreditOf(T), S)
    BY <1>3 DEF Balanced, Debits, Credits, S
  <2> QED BY <2>1, <2>4, <2>5 DEF Debits, Credits
<1>5. BalancedInTotal(E)
  <2>1. DebitOf(E) = CreditOf(T) /\ CreditOf(E) = DebitOf(T)
    <3> HIDE DEF E, T
    <3> QED BY <1>1, <1>2 DEF DebitOf, CreditOf
  <2> HIDE DEF E, T
  <2> QED BY <1>3, <2>1 DEF BalancedInTotal
<1>6. \A i \in DOMAIN E : RowAccepted(E[i])
  <2> HIDE DEF E, T, R
  <2> QED BY <1>1, <1>2 DEF RowAccepted
<1>7. \A i \in DOMAIN R :
        /\ R[i].debit >= 0 /\ R[i].credit >= 0
        /\ ~ (R[i].debit > 0 /\ R[i].credit > 0)
        /\ ~ (R[i].debit = 0 /\ R[i].credit = 0)
  <2> HIDE DEF E, T, R
  <2> QED BY <1>1, <1>2 DEF RowAccepted
<1> HIDE DEF T, R, E
<1>8. SchemaAccepts(R)
  BY <1>1, <1>2, <1>4, <1>7 DEF SchemaAccepts
<1>9. ServiceAccepts(R)
  BY <1>1, <1>2, <1>4, <1>7 DEF ServiceAccepts
<1>10. Accepted("http", R)
  BY <1>1, <1>5, <1>6, <1>8, <1>9 DEF Accepted, TriggerPasses, E
<1> QED BY <1>10 DEF R

-----------------------------------------------------------------------------
(* The ledger.                                                             *)

LedgerIInv == \A n \in DOMAIN posted : Sound(posted[n])

\* posted is a list; nothing that is said of its elements needs their type.
PostedIsList == \E S : posted \in Seq(S)

\* Only sound transactions get into the ledger.
LEMMA LedgerInvariance == LedgerSpec => [](PostedIsList /\ LedgerIInv)
<1>1. LedgerInit => PostedIsList /\ LedgerIInv
  <2> SUFFICES ASSUME LedgerInit PROVE PostedIsList /\ LedgerIInv
    OBVIOUS
  <2>1. posted \in Seq({}) /\ DOMAIN posted = {}
    BY DEF LedgerInit
  <2> QED BY <2>1 DEF PostedIsList, LedgerIInv
<1>2. PostedIsList /\ LedgerIInv /\ [LedgerNext]_posted => (PostedIsList /\ LedgerIInv)'
  <2> SUFFICES ASSUME PostedIsList, LedgerIInv, [LedgerNext]_posted
               PROVE  (PostedIsList /\ LedgerIInv)'
    OBVIOUS
  <2>1. ASSUME NEW by \in Callers, NEW lines, IsLines(lines), Store(by, lines)
        PROVE  (PostedIsList /\ LedgerIInv)'
    <3> DEFINE tx == [by |-> by, entries |-> Entries(lines)]
    <3>1. Sound(tx)
      BY <2>1, AcceptedIsSound DEF Store
    <3>2. posted' = Append(posted, tx)
      BY <2>1 DEF Store
    <3> HIDE DEF tx
    <3>3. PICK S : posted \in Seq(S)
      BY DEF PostedIsList
    <3>4. posted \in Seq(S \cup {tx}) /\ tx \in S \cup {tx}
      BY <3>3
    <3>5. /\ posted' \in Seq(S \cup {tx})
          /\ Len(posted) \in Nat /\ DOMAIN posted = 1 .. Len(posted)
          /\ DOMAIN posted' = 1 .. Len(posted) + 1
          /\ \A n \in DOMAIN posted : posted'[n] = posted[n]
          /\ posted'[Len(posted) + 1] = tx
      BY <3>2, <3>4
    <3>6. \A n \in DOMAIN posted' : n \in DOMAIN posted \/ n = Len(posted) + 1
      BY <3>5
    <3>7. \A n \in DOMAIN posted' : Sound(posted'[n])
      BY <3>1, <3>5, <3>6 DEF LedgerIInv
    <3> QED BY <3>5, <3>7 DEF PostedIsList, LedgerIInv
  <2>2. CASE Post
    BY <2>1, <2>2, LedgerAssumption DEF Post, IsLines
  <2>3. CASE PostReversal
    <3>1. PICK n \in DOMAIN posted : Store("http", Reversed(posted[n]))
      BY <2>3 DEF PostReversal
    <3>2. IsLines(Reversed(posted[n])) /\ "http" \in Callers
      BY ReversedIsLines DEF LedgerIInv, Callers
    <3> QED BY <2>1, <3>1, <3>2
  <2>4. CASE UNCHANGED posted
    BY <2>4 DEF PostedIsList, LedgerIInv
  <2> QED BY <2>2, <2>3, <2>4 DEF LedgerNext, LedgerFull
<1> QED BY <1>1, <1>2, PTL DEF LedgerSpec

\* The entries of a transaction on some accounts.
On(tx, part) == {i \in DOMAIN tx.entries : tx.entries[i].account \in part}

Even(tx, part) ==
    SumFunctionOnSet(DebitOf(tx.entries), On(tx, part))
      = SumFunctionOnSet(CreditOf(tx.entries), On(tx, part))

\* What accounts hold of one transaction are its entries on them.
LEMMA Contribution ==
  ASSUME NEW tx, Sound(tx), NEW part \in SUBSET Accounts,
         NEW held, \A a \in part : held[a] = SumFunctionOnSet(Excess(tx), EntriesOf(tx, a))
  PROVE  /\ IntegerOn(held, part)
         /\ Even(tx, part) => SumFunctionOnSet(held, part) = 0
<1> DEFINE E == tx.entries
           S == {i \in DOMAIN E : E[i].account \in part}
           key == [i \in DOMAIN E |-> E[i].account]
           f == Excess(tx)
<1>1. IsLines(E) /\ IsFiniteSet(DOMAIN E) /\ S \in SUBSET DOMAIN E /\ IsFiniteSet(S)
  <2>1. IsLines(E) /\ IsFiniteSet(DOMAIN E)
    BY FiniteLines DEF Sound
  <2> QED BY <2>1, FS_Subset
<1>2. IntegerOn(DebitOf(E), S) /\ IntegerOn(CreditOf(E), S) /\ IntegerOn(f, DOMAIN E)
  <2>1. \A i \in DOMAIN E : E[i].debit \in Int /\ E[i].credit \in Int
    BY <1>1 DEF IsLines
  <2>2. IntegerOn(f, DOMAIN E)
    BY <2>1 DEF IntegerOn, Excess
  <2>3. IntegerOn(DebitOf(E), S) /\ IntegerOn(CreditOf(E), S)
    <3> HIDE DEF E, S
    <3> QED BY <1>1, FiniteLines
  <2> QED BY <2>2, <2>3
<1>3. IsFiniteSet(part)
  BY LedgerAssumption, FS_Subset
<1>4. \A a \in part : EntriesOf(tx, a) = {i \in S : key[i] = a}
  BY DEF EntriesOf, Sound
<1>5. \A i \in S : key[i] \in part
  OBVIOUS
<1>6. \A i \in S : f[i] = 1 * DebitOf(E)[i] + (-1) * CreditOf(E)[i]
  <2> SUFFICES ASSUME NEW i \in DOMAIN E
               PROVE  f[i] = 1 * DebitOf(E)[i] + (-1) * CreditOf(E)[i]
    OBVIOUS
  <2>1. E[i].debit \in Int /\ E[i].credit \in Int
    BY <1>1 DEF IsLines
  <2>2. f[i] = E[i].debit - E[i].credit /\ DebitOf(E)[i] = E[i].debit /\ CreditOf(E)[i] = E[i].credit
    BY DEF Excess, DebitOf, CreditOf
  <2> HIDE DEF E, f
  <2> QED BY <2>1, <2>2
<1>7. \A a \in part : held[a] \in Int
  <2> SUFFICES ASSUME NEW a \in part PROVE held[a] \in Int
    OBVIOUS
  <2>1. EntriesOf(tx, a) \in SUBSET DOMAIN E
    BY DEF EntriesOf
  <2>2. IsFiniteSet(EntriesOf(tx, a)) /\ IntegerOn(f, EntriesOf(tx, a))
    BY <1>1, <1>2, <2>1, FS_Subset DEF IntegerOn
  <2> QED BY <2>2, SumInteger
<1>8. IntegerOn(f, S)
  BY <1>2 DEF IntegerOn
<1> HIDE DEF f, S, key, E
<1>9. SumFunctionOnSet(held, part) = SumFunctionOnSet(f, S)
  <2>1. PartTotals(held, f, S, key, part)
    BY <1>4 DEF f, PartTotals
  <2> QED BY <1>1, <1>3, <1>5, <1>8, <2>1, SumParts
<1>10. SumFunctionOnSet(f, S) =
         1 * SumFunctionOnSet(DebitOf(E), S) + (-1) * SumFunctionOnSet(CreditOf(E), S)
  BY <1>1, <1>2, <1>6, SumLinear
<1>11. SumFunctionOnSet(DebitOf(E), S) \in Int /\ SumFunctionOnSet(CreditOf(E), S) \in Int
  BY <1>1, <1>2, SumInteger
<1>12. SumFunctionOnSet(held, part) =
         SumFunctionOnSet(DebitOf(E), S) - SumFunctionOnSet(CreditOf(E), S)
  BY <1>9, <1>10, <1>11
<1>13. IntegerOn(held, part)
  BY <1>7 DEF IntegerOn
<1> QED BY <1>11, <1>12, <1>13 DEF E, S, Even, On

\* Accounts that balance in every transaction balance in the ledger.
LEMMA TrialIsZero ==
  ASSUME PostedIsList, LedgerIInv, NEW part \in SUBSET Accounts,
         \A n \in DOMAIN posted : Even(posted[n], part)
  PROVE  TrialBalance(part) = 0
<1> DEFINE N == DOMAIN posted
           c == [n \in N |-> [a \in part |-> SumFunctionOnSet(Excess(posted[n]), EntriesOf(posted[n], a))]]
           rows == [n \in N |-> SumFunctionOnSet(c[n], part)]
           d == [a \in part |-> [n \in N |-> c[n][a]]]
           cols == [a \in part |-> AccountBalance(a)]
<1>1. IsFiniteSet(N)
  <2>1. PICK S : posted \in Seq(S)
    BY DEF PostedIsList
  <2>2. Len(posted) \in Nat /\ DOMAIN posted = 1 .. Len(posted)
    BY <2>1
  <2> QED BY <2>2, FS_Interval
<1>2. IsFiniteSet(part)
  BY LedgerAssumption, FS_Subset
<1>3. ASSUME NEW n \in N PROVE IntegerOn(c[n], part) /\ SumFunctionOnSet(c[n], part) = 0
  <2>1. Sound(posted[n]) /\ Even(posted[n], part)
    BY DEF LedgerIInv
  <2>2. \A a \in part : c[n][a] = SumFunctionOnSet(Excess(posted[n]), EntriesOf(posted[n], a))
    OBVIOUS
  <2> HIDE DEF c
  <2> QED BY <2>1, <2>2, Contribution
<1>4. \A n \in N : rows[n] = 0 /\ rows[n] = SumFunctionOnSet(c[n], part)
  <2> HIDE DEF c
  <2> QED BY <1>3
<1>5. SumFunctionOnSet(rows, N) = 0
  <2> HIDE DEF rows, N
  <2> QED BY <1>1, <1>4, SumZero
<1>6. \A a \in part : cols[a] = SumFunctionOnSet(d[a], N)
  <2> SUFFICES ASSUME NEW a \in part PROVE AccountBalance(a) = SumFunctionOnSet(d[a], N)
    OBVIOUS
  <2>1. d[a] = [n \in DOMAIN posted |-> SumFunctionOnSet(Excess(posted[n]), EntriesOf(posted[n], a))]
    OBVIOUS
  <2>2. DOMAIN d[a] = N
    OBVIOUS
  <2> HIDE DEF d, N
  <2> QED BY <2>1, <2>2 DEF AccountBalance, SumFunction
<1>7. SumFunctionOnSet(rows, N) = SumFunctionOnSet(cols, part)
  <2>1. Totals(rows, c, N, part)
    BY <1>3 DEF Totals
  <2>2. Totals(cols, d, part, N)
    <3> HIDE DEF cols, d
    <3> QED BY <1>6 DEF Totals
  <2>3. Transposed(c, d, N, part)
    <3>1. \A n \in N, a \in part : d[a][n] = c[n][a]
      OBVIOUS
    <3>2. \A n \in N, a \in part : c[n][a] \in Int
      BY <1>3 DEF IntegerOn
    <3> HIDE DEF c, d
    <3> QED BY <3>1, <3>2 DEF Transposed
  <2> HIDE DEF rows, cols, c, d, N
  <2> QED BY <1>1, <1>2, <2>1, <2>2, <2>3, SumSwap
<1>8. TrialBalance(part) = SumFunctionOnSet(cols, part)
  BY DEF TrialBalance, SumFunction
<1> QED BY <1>5, <1>7, <1>8

\* A sound transaction balances over all accounts, and one that came over HTTP
\* over the accounts of each currency.
LEMMA SoundIsEven ==
  ASSUME NEW tx, Sound(tx)
  PROVE  /\ Even(tx, Accounts)
         /\ tx.by = "http" =>
              \A c \in Currencies : Even(tx, {a \in Accounts : CurrencyOf[a] = c})
<1> DEFINE E == tx.entries
<1>1. Even(tx, Accounts)
  <2>1. On(tx, Accounts) = DOMAIN E
    BY DEF On, Sound
  <2>2. DOMAIN DebitOf(E) = DOMAIN E /\ DOMAIN CreditOf(E) = DOMAIN E
    BY DEF DebitOf, CreditOf
  <2>3. SumFunction(DebitOf(E)) = SumFunction(CreditOf(E))
    BY DEF Sound, BalancedInTotal
  <2> QED BY <2>1, <2>2, <2>3 DEF SumFunction, Even
<1>2. ASSUME tx.by = "http", NEW c \in Currencies
      PROVE  Even(tx, {a \in Accounts : CurrencyOf[a] = c})
  <2>1. On(tx, {a \in Accounts : CurrencyOf[a] = c}) = LinesIn(E, c)
    BY DEF On, Sound, LinesIn
  <2>2. Debits(E, c) = Credits(E, c)
    BY <1>2 DEF Sound, Balanced
  <2> QED BY <2>1, <2>2 DEF Even, Debits, Credits
<1> QED BY <1>1, <1>2

\* The books balance for any accounts, currencies and postings, over all
\* currencies by the trigger alone, and in each when all came over HTTP.
THEOREM BooksBalanced == LedgerSpec => []BooksBalance
<1>1. PostedIsList /\ LedgerIInv => BooksBalance
  <2> SUFFICES ASSUME PostedIsList, LedgerIInv PROVE BooksBalance
    OBVIOUS
  <2>1. TrialBalance(Accounts) = 0
    BY SoundIsEven, TrialIsZero DEF LedgerIInv
  <2>2. ASSUME \A n \in DOMAIN posted : posted[n].by = "http", NEW c \in Currencies
        PROVE  TrialBalance({a \in Accounts : CurrencyOf[a] = c}) = 0
    <3> DEFINE part == {a \in Accounts : CurrencyOf[a] = c}
    <3>1. \A n \in DOMAIN posted : Even(posted[n], part)
      BY <2>2, SoundIsEven DEF LedgerIInv
    <3>2. part \in SUBSET Accounts
      OBVIOUS
    <3> HIDE DEF part
    <3>3. TrialBalance(part) = 0
      BY <3>1, <3>2, TrialIsZero
    <3> QED BY <3>3 DEF part
  <2> QED BY <2>1, <2>2 DEF BooksBalance
<1> QED BY <1>1, LedgerInvariance, PTL

\* Whatever a client could post, it can reverse.
THEOREM AlwaysReversible == LedgerSpec => []Reversible
<1>1. LedgerIInv => Reversible
  BY ReversalAccepted DEF LedgerIInv, Reversible
<1> QED BY <1>1, LedgerInvariance, PTL

-----------------------------------------------------------------------------
(* Ranking: numbers.                                                       *)

\* A larger divisor gives a smaller quotient.
LEMMA DivAntitone ==
  ASSUME NEW w \in Nat, NEW a \in Nat \ {0}, NEW b \in Nat \ {0}, a <= b
  PROVE  w \div b \in Nat /\ w \div b <= w \div a
<1> DEFINE p == w \div a
           q == w \div b
<1>1. /\ p \in Nat /\ q \in Nat
      /\ a * p <= w /\ w < a * p + a
      /\ b * q <= w
  OBVIOUS
<1> HIDE DEF p, q
<1>2. ASSUME q >= p + 1 PROVE FALSE
  <2>1. a * q <= b * q
    BY <1>1
  <2>2. PICK k \in Nat : q = p + 1 + k
    <3>1. q - p - 1 \in Nat /\ q = p + 1 + (q - p - 1)
      BY <1>1, <1>2
    <3> QED BY <3>1
  <2>3. a * q = a * p + a + a * k /\ a * k \in Nat /\ a * p \in Nat
    BY <1>1, <2>2
  <2>4. a * q >= a * p + a /\ a * q \in Nat /\ b * q \in Nat
    BY <1>1, <2>3
  <2> QED BY <1>1, <2>1, <2>3, <2>4
<1>3. q <= p
  BY <1>1, <1>2
<1> QED BY <1>1, <1>3 DEF p, q

\* The built-in max of two numbers.
LEMMA MaxOfTwo ==
  \A a, b \in Int : Max({a, b}) \in {a, b} /\ Max({a, b}) >= a /\ Max({a, b}) >= b
<1> TAKE a, b \in Int
<1>1. \E x \in {a, b} : \A y \in {a, b} : x >= y
  <2>1. CASE a >= b
    BY <2>1
  <2>2. CASE ~ (a >= b)
    BY <2>2
  <2> QED BY <2>1, <2>2
<1>2. Max({a, b}) \in {a, b} /\ \A y \in {a, b} : Max({a, b}) >= y
  BY <1>1 DEF Max
<1> QED BY <1>2

\* How many of n suggestions a limit of two leaves.
LEMMA MinOfTwo ==
  \A n \in Nat : Min({2, n}) = IF n >= 2 THEN 2 ELSE n
<1> TAKE n \in Nat
<1>1. \E x \in {2, n} : \A y \in {2, n} : x <= y
  <2>1. CASE n >= 2
    BY <2>1
  <2>2. CASE ~ (n >= 2)
    BY <2>2
  <2> QED BY <2>1, <2>2
<1>2. Min({2, n}) \in {2, n} /\ \A y \in {2, n} : Min({2, n}) <= y
  BY <1>1 DEF Min
<1> QED BY <1>2

-----------------------------------------------------------------------------
IsFraction(x) == x.num \in Int /\ x.den \in Nat \ {0}

\* What is at least as large as something exceeds what that exceeds.
LEMMA ExceedsTransitive ==
  ASSUME NEW x, NEW y, NEW z, IsFraction(x), IsFraction(y), IsFraction(z),
         ~ Exceeds(y, x), Exceeds(y, z)
  PROVE  Exceeds(x, z)
<1> DEFINE a == x.num
           b == x.den
           c == y.num
           d == y.den
           e == z.num
           f == z.den
<1>1. /\ a \in Int /\ c \in Int /\ e \in Int
      /\ b \in Nat \ {0} /\ d \in Nat \ {0} /\ f \in Nat \ {0}
      /\ ~ (c * b > a * d) /\ c * f > e * d
  BY DEF IsFraction, Exceeds
<1> HIDE DEF a, b, c, d, e, f
<1>2. a * d >= c * b /\ a * d \in Int /\ c * b \in Int /\ c * f \in Int /\ e * d \in Int
      /\ a * f \in Int /\ e * b \in Int
  BY <1>1
<1>3. (a * d) * f >= (c * b) * f
  BY <1>1, <1>2
<1>4. (c * f) * b > (e * d) * b
  BY <1>1, <1>2
<1>5. (a * d) * f = (a * f) * d /\ (c * b) * f = (c * f) * b /\ (e * d) * b = (e * b) * d
  BY <1>1
<1>6. (a * f) * d > (e * b) * d
  BY <1>1, <1>2, <1>3, <1>4, <1>5
<1>7. a * f > e * b
  BY <1>1, <1>2, <1>6
<1> QED BY <1>7 DEF Exceeds, a, b, e, f

Fractions(signal) == \A i \in DOMAIN statement : IsFraction(signal[i])

\* The statement is a list of bank rows.
StatementOK == \E n \in 0 .. MaxRows : statement \in [1 .. n -> BankRows]

\* The rows have numbers in them, and there are finitely many.
LEMMA RowFields ==
  ASSUME StatementOK
  PROVE  /\ IsFiniteSet(DOMAIN statement) /\ DOMAIN statement \subseteq Nat
         /\ IsFiniteSet(Survivors) /\ Survivors \subseteq DOMAIN statement
         /\ \A i \in DOMAIN statement :
              /\ statement[i] \in BankRows
              /\ statement[i].amount \in Int /\ statement[i].date \in Int
              /\ Fuzzy[statement[i].text] \in Nat
              /\ Cosine[statement[i].text] \in Int \cup {NONE}
<1>1. PICK n \in 0 .. MaxRows : statement \in [1 .. n -> BankRows]
  BY DEF StatementOK
<1>2. n \in Nat /\ DOMAIN statement = 1 .. n
  BY <1>1, RankingAssumption
<1>3. IsFiniteSet(DOMAIN statement) /\ DOMAIN statement \subseteq Nat
  BY <1>2, FS_Interval
<1>4. Survivors \subseteq DOMAIN statement
  BY DEF Survivors
<1>5. IsFiniteSet(Survivors)
  BY <1>3, <1>4, FS_Subset
<1>6. \A i \in DOMAIN statement : statement[i] \in BankRows
  BY <1>1
<1> QED BY <1>3, <1>4, <1>5, <1>6, RankingAssumption

\* A magnitude is a natural number.
LEMMA AbsIsNat == \A n \in Int : Abs(n) \in Nat /\ (Abs(n) = n \/ Abs(n) = -n)
  BY DEF Abs

\* The three signals are fractions with positive denominators.
LEMMA SignalsAreFractions ==
  ASSUME StatementOK
  PROVE  Fractions(FuzzySignal) /\ Fractions(AmountDateSignal) /\ Fractions(EmbeddingSignal)
<1>1. Fractions(FuzzySignal)
  BY RowFields DEF Fractions, FuzzySignal, Fraction, IsFraction
<1>2. Fractions(EmbeddingSignal)
  <2> SUFFICES ASSUME NEW i \in DOMAIN statement PROVE IsFraction(EmbeddingSignal[i])
    BY DEF Fractions
  <2> DEFINE cosine == Cosine[statement[i].text]
  <2>1. cosine \in Int \cup {NONE}
    BY RowFields
  <2>2. EmbeddingSignal[i] = Fraction(IF cosine \in {NONE, 0} THEN -100 ELSE cosine, 100)
    BY DEF EmbeddingSignal
  <2> HIDE DEF cosine
  <2> QED BY <2>1, <2>2 DEF IsFraction, Fraction
<1>3. Fractions(AmountDateSignal)
  <2> SUFFICES ASSUME NEW i \in DOMAIN statement PROVE IsFraction(AmountDate(statement[i]))
    BY DEF Fractions, AmountDateSignal
  <2> DEFINE row == statement[i]
             a == Abs(Expense.amount)
             b == Abs(row.amount)
             largest == Max({a, b})
             distance == Abs(row.date - Expense.date)
             x == AmountSimilarity(row)
             y == DateSimilarity(row)
  <2>1. a \in Nat /\ b \in Nat /\ distance \in Nat /\ DateWindow \in Int
    BY RowFields, RankingAssumption, AbsIsNat
  <2>2. largest \in Nat
    <3>1. a \in Int /\ b \in Int
      BY <2>1
    <3>2. largest \in {a, b}
      <4> HIDE DEF a, b
      <4> QED BY <3>1, MaxOfTwo, Zenon
    <3> HIDE DEF a, b, largest
    <3> QED BY <2>1, <3>2
  <2>3. IsFraction(x)
    <3>1. x = IF largest = 0 THEN Fraction(1, 1) ELSE Fraction(largest - Abs(a - b), largest)
      BY DEF AmountSimilarity
    <3>2. Abs(a - b) \in Int
      <4> HIDE DEF a, b
      <4> QED BY <2>1, AbsIsNat
    <3> HIDE DEF x, largest, a, b
    <3> QED BY <2>2, <3>1, <3>2 DEF IsFraction, Fraction
  <2>4. IsFraction(y)
    <3>1. y = IF DateWindow <= 0 THEN Fraction(IF distance = 0 THEN 1 ELSE 0, 1)
              ELSE Fraction(Max({0, DateWindow - distance}), DateWindow)
      BY DEF DateSimilarity
    <3>2. Max({0, DateWindow - distance}) \in Int
      <4> DEFINE left == DateWindow - distance
      <4>1. left \in Int /\ 0 \in Int
        BY <2>1
      <4>2. Max({0, left}) \in {0, left}
        <5> HIDE DEF left
        <5> QED BY <4>1, MaxOfTwo, Zenon
      <4> QED BY <4>1, <4>2
    <3> HIDE DEF y, distance
    <3> QED BY <2>1, <3>1, <3>2 DEF IsFraction, Fraction
  <2>5. AmountDate(row) = Fraction(x.num * y.den + y.num * x.den, x.den * y.den)
    BY DEF AmountDate
  <2> HIDE DEF x, y, row
  <2>6. \A k, m \in Nat \ {0} : k * m \in Nat \ {0}
    OBVIOUS
  <2> QED BY <2>3, <2>4, <2>5, <2>6 DEF IsFraction, Fraction, row
<1> QED BY <1>1, <1>2, <1>3

-----------------------------------------------------------------------------
\* A rank is one more than the number of rows ahead.
LEMMA RankIsPositive ==
  ASSUME NEW S, IsFiniteSet(S), NEW signal, NEW i
  PROVE  Rank(S, signal, i) \in Nat \ {0}
<1> DEFINE ahead == {j \in S : \/ Exceeds(signal[j], signal[i])
                               \/ ~ Exceeds(signal[i], signal[j]) /\ j < i}
<1>1. ahead \subseteq S
  OBVIOUS
<1>2. Cardinality(ahead) \in Nat
  <2> HIDE DEF ahead
  <2> QED BY <1>1, FS_Subset, FS_CardinalityType
<1>3. Rank(S, signal, i) = 1 + Cardinality(ahead)
  BY DEF Rank
<1> HIDE DEF ahead
<1> QED BY <1>2, <1>3

\* Who exceeds another in a signal is not behind it in the signal's ranking.
LEMMA BetterRank ==
  ASSUME NEW S, IsFiniteSet(S), S \subseteq DOMAIN statement,
         NEW signal, Fractions(signal),
         NEW i \in S, NEW r \in S, Exceeds(signal[i], signal[r])
  PROVE  Rank(S, signal, i) <= Rank(S, signal, r)
<1> DEFINE ahead(k) == {j \in S : \/ Exceeds(signal[j], signal[k])
                                  \/ ~ Exceeds(signal[k], signal[j]) /\ j < k}
<1>1. ASSUME NEW j \in S, ~ Exceeds(signal[i], signal[j])
      PROVE  Exceeds(signal[j], signal[r])
  <2>1. IsFraction(signal[i]) /\ IsFraction(signal[j]) /\ IsFraction(signal[r])
    BY DEF Fractions
  <2> QED BY <1>1, <2>1, ExceedsTransitive
<1>2. \A j \in S : Exceeds(signal[j], signal[i]) => ~ Exceeds(signal[i], signal[j])
  <2> TAKE j \in S
  <2>1. IsFraction(signal[i]) /\ IsFraction(signal[j])
    BY DEF Fractions
  <2> QED BY <2>1 DEF Exceeds, IsFraction
<1>3. ahead(i) \subseteq ahead(r)
  BY <1>1, <1>2
<1>4. ahead(r) \subseteq S
  OBVIOUS
<1>5. Rank(S, signal, i) = 1 + Cardinality(ahead(i)) /\ Rank(S, signal, r) = 1 + Cardinality(ahead(r))
  BY DEF Rank
<1> HIDE DEF ahead
<1>6. IsFiniteSet(ahead(r))
  BY <1>4, FS_Subset
<1>7. /\ Cardinality(ahead(i)) <= Cardinality(ahead(r))
      /\ Cardinality(ahead(i)) \in Nat /\ Cardinality(ahead(r)) \in Nat
  BY <1>3, <1>6, FS_Subset, FS_CardinalityType
<1> QED BY <1>5, <1>7

\* A lower rank gets no smaller share.
LEMMA ShareAntitone ==
  ASSUME NEW p \in Nat \ {0}, NEW q \in Nat \ {0}, p <= q
  PROVE  Share(p) \in Nat /\ Share(q) \in Nat /\ Share(q) <= Share(p)
<1>1. Whole \in Nat /\ RRFK + p \in Nat \ {0} /\ RRFK + q \in Nat \ {0} /\ RRFK + p <= RRFK + q
  BY RankingAssumption
<1>2. Whole \div (RRFK + q) \in Nat /\ Whole \div (RRFK + q) <= Whole \div (RRFK + p)
  BY <1>1, DivAntitone
<1>3. Whole \div (RRFK + p) \in Nat
  BY <1>1, DivAntitone
<1> QED BY <1>2, <1>3 DEF Share

\* Every rank gets a whole share.
LEMMA ShareOfRank ==
  ASSUME NEW S, IsFiniteSet(S), NEW signal, NEW i
  PROVE  Share(Rank(S, signal, i)) \in Nat
<1>1. Rank(S, signal, i) \in Nat \ {0} /\ Rank(S, signal, i) <= Rank(S, signal, i)
  BY RankIsPositive
<1> QED BY <1>1, ShareAntitone

\* Scores are whole numbers of units.
LEMMA FusedIsNat ==
  ASSUME StatementOK
  PROVE  \A i \in Survivors : Fused(i) \in Nat
<1> TAKE i \in Survivors
<1>1. IsFiniteSet(Survivors)
  BY RowFields
<1>2. /\ Share(Rank(Survivors, FuzzySignal, i)) \in Nat
      /\ Share(Rank(Survivors, AmountDateSignal, i)) \in Nat
      /\ Share(Rank(Survivors, EmbeddingSignal, i)) \in Nat
  BY <1>1, ShareOfRank
<1> QED BY <1>2 DEF Fused

\* Who exceeds all others in a signal is first in the signal's ranking.
LEMMA RankOfBest ==
  ASSUME NEW S, IsFiniteSet(S), S \subseteq DOMAIN statement, S \subseteq Nat,
         NEW signal, Fractions(signal), NEW i \in S,
         \A j \in S \ {i} : Exceeds(signal[i], signal[j])
  PROVE  Rank(S, signal, i) = 1
<1> DEFINE ahead == {j \in S : \/ Exceeds(signal[j], signal[i])
                               \/ ~ Exceeds(signal[i], signal[j]) /\ j < i}
<1>1. ASSUME NEW j \in S PROVE j \notin ahead
  <2>1. IsFraction(signal[i]) /\ IsFraction(signal[j])
    BY DEF Fractions
  <2>2. CASE j = i
    BY <2>1, <2>2 DEF Exceeds, IsFraction
  <2>3. CASE j # i
    BY <2>1, <2>3 DEF Exceeds, IsFraction
  <2> QED BY <2>2, <2>3
<1>2. ahead = {}
  BY <1>1
<1>3. Rank(S, signal, i) = 1 + Cardinality(ahead)
  BY DEF Rank
<1> HIDE DEF ahead
<1> QED BY <1>2, <1>3, FS_EmptySet

\* A row that beats all others has the best score there is.
LEMMA WinnersScore ==
  ASSUME StatementOK, NEW i \in Survivors,
         \A j \in Survivors \ {i} : Beats(i, j)
  PROVE  Fused(i) = BestPossible /\ BestPossible \in Nat
<1>1. /\ IsFiniteSet(Survivors) /\ Survivors \subseteq DOMAIN statement
      /\ Survivors \subseteq Nat
  BY RowFields
<1>2. Rank(Survivors, FuzzySignal, i) = 1
  BY <1>1, RankOfBest, SignalsAreFractions DEF Beats
<1>3. Rank(Survivors, AmountDateSignal, i) = 1
  BY <1>1, RankOfBest, SignalsAreFractions DEF Beats
<1>4. HasEmbeddings => Rank(Survivors, EmbeddingSignal, i) = 1
  BY <1>1, RankOfBest, SignalsAreFractions DEF Beats
<1>5. Share(1) \in Nat
  BY ShareAntitone
<1>6. CASE HasEmbeddings
  BY <1>2, <1>3, <1>4, <1>5, <1>6 DEF Fused, BestPossible
<1>7. CASE ~ HasEmbeddings
  BY <1>2, <1>3, <1>5, <1>7 DEF Fused, BestPossible
<1> QED BY <1>6, <1>7

\* A row that beats another has no lower score.
LEMMA BetterScore ==
  ASSUME StatementOK, NEW i \in Survivors, NEW r \in Survivors, Beats(i, r)
  PROVE  Fused(i) >= Fused(r)
<1> USE DEF Beats
<1>1. IsFiniteSet(Survivors) /\ Survivors \subseteq DOMAIN statement
  BY RowFields
<1>2. ASSUME NEW signal, Fractions(signal), Exceeds(signal[i], signal[r])
      PROVE  /\ Share(Rank(Survivors, signal, i)) \in Nat
             /\ Share(Rank(Survivors, signal, r)) \in Nat
             /\ Share(Rank(Survivors, signal, i)) >= Share(Rank(Survivors, signal, r))
  <2>1. /\ Rank(Survivors, signal, i) \in Nat \ {0} /\ Rank(Survivors, signal, r) \in Nat \ {0}
        /\ Rank(Survivors, signal, i) <= Rank(Survivors, signal, r)
    BY <1>1, <1>2, BetterRank, RankIsPositive
  <2> QED BY <2>1, ShareAntitone
<1>3. /\ Share(Rank(Survivors, FuzzySignal, i)) \in Nat
      /\ Share(Rank(Survivors, FuzzySignal, r)) \in Nat
      /\ Share(Rank(Survivors, FuzzySignal, i)) >= Share(Rank(Survivors, FuzzySignal, r))
  BY <1>2, SignalsAreFractions
<1>4. /\ Share(Rank(Survivors, AmountDateSignal, i)) \in Nat
      /\ Share(Rank(Survivors, AmountDateSignal, r)) \in Nat
      /\ Share(Rank(Survivors, AmountDateSignal, i)) >= Share(Rank(Survivors, AmountDateSignal, r))
  BY <1>2, SignalsAreFractions
<1>5. HasEmbeddings =>
        /\ Share(Rank(Survivors, EmbeddingSignal, i)) \in Nat
        /\ Share(Rank(Survivors, EmbeddingSignal, r)) \in Nat
        /\ Share(Rank(Survivors, EmbeddingSignal, i)) >= Share(Rank(Survivors, EmbeddingSignal, r))
  BY <1>2, SignalsAreFractions
<1> QED BY <1>3, <1>4, <1>5 DEF Fused

-----------------------------------------------------------------------------
(* The order of the ranking.                                               *)

\* A strict order on a finite set has a first element.
LEMMA FirstOfOrder ==
  ASSUME NEW S, IsFiniteSet(S), S # {}, NEW R,
         \A i \in S : <<i, i>> \notin R,
         \A i, j, k \in S : <<i, j>> \in R /\ <<j, k>> \in R => <<i, k>> \in R
  PROVE  \E first \in S : \A j \in S : <<j, first>> \notin R
<1> DEFINE F == {T \in SUBSET S : T # {} => \E first \in T : \A j \in T : <<j, first>> \notin R}
<1>1. {} \in F
  OBVIOUS
<1>2. ASSUME NEW T \in SUBSET S, NEW x \in S, T \in F, x \notin T
      PROVE  T \cup {x} \in F
  <2> SUFFICES \E first \in T \cup {x} : \A j \in T \cup {x} : <<j, first>> \notin R
    OBVIOUS
  <2>1. CASE T = {}
    BY <2>1
  <2>2. CASE T # {}
    <3>1. PICK m \in T : \A j \in T : <<j, m>> \notin R
      BY <1>2, <2>2
    <3>2. CASE <<x, m>> \in R
      BY <3>1, <3>2
    <3>3. CASE <<x, m>> \notin R
      BY <3>1, <3>3
    <3> QED BY <3>2, <3>3
  <2> QED BY <2>1, <2>2
<1>3. S \in F
  <2> HIDE DEF F
  <2> QED BY <1>1, <1>2, SetInduction
<1> QED BY <1>3

\* How Ranked orders the rows.
Precedes(i, j) ==
    LET text(k) == Fuzzy[statement[k].text]
    IN \/ Fused(i) > Fused(j)
       \/ Fused(i) = Fused(j) /\ text(i) > text(j)
       \/ Fused(i) = Fused(j) /\ text(i) = text(j) /\ i < j

\* The order is strict and total, since equal rows are told apart by place.
LEMMA PrecedesIsAnOrder ==
  ASSUME StatementOK
  PROVE  /\ \A i \in Survivors : ~ Precedes(i, i)
         /\ \A i, j, k \in Survivors : Precedes(i, j) /\ Precedes(j, k) => Precedes(i, k)
         /\ \A i, j \in Survivors : i = j \/ Precedes(i, j) \/ Precedes(j, i)
<1>1. \A i \in Survivors : i \in Nat /\ Fused(i) \in Nat /\ Fuzzy[statement[i].text] \in Nat
  BY RowFields, FusedIsNat
<1> QED BY <1>1 DEF Precedes

\* The place of a row is the number of rows that precede it, and one.
LEMMA RankedAt ==
  ASSUME StatementOK, NEW place \in 1 .. Cardinality(Survivors),
         \E i \in Survivors :
           Cardinality({j \in Survivors : Precedes(j, i)}) = place - 1
  PROVE  /\ Ranked[place] \in Survivors
         /\ Cardinality({j \in Survivors : Precedes(j, Ranked[place])}) = place - 1
<1> DEFINE S == Survivors
           score == [i \in S |-> Fused(i)]
           text == [i \in S |-> Fuzzy[statement[i].text]]
           Before(i, j) == \/ score[i] > score[j]
                           \/ score[i] = score[j] /\ text[i] > text[j]
                           \/ score[i] = score[j] /\ text[i] = text[j] /\ i < j
           behind(i) == Cardinality({j \in S : Before(j, i)})
           r == CHOOSE i \in S : behind(i) = place - 1
<1>1. Ranked[place] = r
  BY DEF Ranked
<1>2. ASSUME NEW i \in S PROVE behind(i) = Cardinality({j \in S : Precedes(j, i)})
  <2>1. \A j \in S : Before(j, i) <=> Precedes(j, i)
    BY DEF Precedes
  <2>2. {j \in S : Before(j, i)} = {j \in S : Precedes(j, i)}
    <3> HIDE DEF Before, S
    <3> QED BY <2>1
  <2> HIDE DEF Before, S
  <2> QED BY <2>2
<1>3. \E i \in S : behind(i) = place - 1
  <2> HIDE DEF behind
  <2> QED BY <1>2
<1>4. r \in S /\ behind(r) = place - 1
  <2> HIDE DEF behind, S
  <2> QED BY <1>3
<1>5. Cardinality({j \in S : Precedes(j, r)}) = place - 1
  <2> HIDE DEF behind, r
  <2> QED BY <1>2, <1>4
<1> HIDE DEF r
<1> QED BY <1>1, <1>4, <1>5

\* The first of the ranking is a survivor that no other precedes.
LEMMA FirstIsBest ==
  ASSUME StatementOK, Survivors # {}
  PROVE  /\ Cardinality(Survivors) \in Nat \ {0}
         /\ Ranked[1] \in Survivors
         /\ \A j \in Survivors : ~ Precedes(j, Ranked[1])
<1> DEFINE S == Survivors
           R == {p \in S \X S : Precedes(p[1], p[2])}
           ahead(i) == {j \in S : Precedes(j, i)}
<1>1. IsFiniteSet(S)
  BY RowFields
<1>2. Cardinality(S) \in Nat \ {0}
  BY <1>1, FS_CardinalityType, FS_EmptySet
<1>3. \A i, j \in S : <<i, j>> \in R <=> Precedes(i, j)
  OBVIOUS
<1>4. \E first \in S : \A j \in S : <<j, first>> \notin R
  <2>1. \A i \in S : <<i, i>> \notin R
    BY PrecedesIsAnOrder
  <2>2. \A i, j, k \in S : <<i, j>> \in R /\ <<j, k>> \in R => <<i, k>> \in R
    BY PrecedesIsAnOrder
  <2> HIDE DEF R
  <2> QED BY <1>1, <2>1, <2>2, FirstOfOrder
<1>5. PICK first \in S : \A j \in S : ~ Precedes(j, first)
  <2> HIDE DEF R
  <2> QED BY <1>3, <1>4
<1>6. ahead(first) = {}
  BY <1>5
<1>7. Cardinality(ahead(first)) = 1 - 1
  BY <1>6, FS_EmptySet
<1>8. Ranked[1] \in S /\ Cardinality(ahead(Ranked[1])) = 1 - 1
  <2>1. 1 \in 1 .. Cardinality(S)
    BY <1>2
  <2>2. \E i \in S : Cardinality(ahead(i)) = 1 - 1
    <3> HIDE DEF ahead
    <3> QED BY <1>7
  <2> QED BY <2>1, <2>2, RankedAt
<1>9. ahead(Ranked[1]) = {}
  <2>1. IsFiniteSet(ahead(Ranked[1]))
    BY <1>1, FS_Subset
  <2> HIDE DEF ahead
  <2> QED BY <1>8, <2>1, FS_EmptySet
<1> QED BY <1>2, <1>8, <1>9

\* The second of the ranking is a survivor that only the first precedes.
LEMMA SecondIsNext ==
  ASSUME StatementOK, Cardinality(Survivors) >= 2
  PROVE  /\ Ranked[2] \in Survivors \ {Ranked[1]}
         /\ Cardinality({j \in Survivors : Precedes(j, Ranked[2])}) = 1
<1> DEFINE S == Survivors
           R == {p \in S \X S : Precedes(p[1], p[2])}
           ahead(i) == {j \in S : Precedes(j, i)}
           best == Ranked[1]
           T == S \ {best}
<1>1. IsFiniteSet(S) /\ S # {} /\ Cardinality(S) \in Nat
  BY RowFields, FS_EmptySet, FS_CardinalityType
<1>2. best \in S /\ \A j \in S : ~ Precedes(j, best)
  BY <1>1, FirstIsBest
<1>3. IsFiniteSet(T) /\ T # {}
  <2>1. IsFiniteSet(T) /\ Cardinality(T) = Cardinality(S) - 1
    BY <1>1, <1>2, FS_RemoveElement
  <2> QED BY <1>1, <2>1, FS_EmptySet
<1>4. \E next \in T : \A j \in T : <<j, next>> \notin R
  <2>1. \A i \in T : <<i, i>> \notin R
    BY PrecedesIsAnOrder
  <2>2. \A i, j, k \in T : <<i, j>> \in R /\ <<j, k>> \in R => <<i, k>> \in R
    BY PrecedesIsAnOrder
  <2> HIDE DEF R, T
  <2> QED BY <1>3, <2>1, <2>2, FirstOfOrder
<1>5. PICK next \in T : \A j \in T : ~ Precedes(j, next)
  BY <1>4
<1>6. ahead(next) = {best}
  <2>1. Precedes(best, next)
    BY <1>2, <1>5, PrecedesIsAnOrder
  <2> HIDE DEF best
  <2> QED BY <1>2, <1>5, <2>1
<1>7. Cardinality(ahead(next)) = 2 - 1
  <2>1. Cardinality({best}) = 1
    BY FS_Singleton
  <2> HIDE DEF ahead, best
  <2> QED BY <1>6, <2>1
<1>8. Ranked[2] \in S /\ Cardinality(ahead(Ranked[2])) = 2 - 1
  <2>1. 2 \in 1 .. Cardinality(S)
    BY <1>1
  <2>2. \E i \in S : Cardinality(ahead(i)) = 2 - 1
    <3> HIDE DEF ahead
    <3> QED BY <1>5, <1>7
  <2> QED BY <2>1, <2>2, RankedAt
<1>9. Ranked[2] # best
  <2>1. ahead(best) = {}
    BY <1>2
  <2>2. Cardinality(ahead(best)) = 0
    BY <2>1, FS_EmptySet
  <2> HIDE DEF ahead, best
  <2> QED BY <1>8, <2>2
<1> QED BY <1>8, <1>9

-----------------------------------------------------------------------------
(* The decision.                                                           *)

\* What Suggest leaves are the first one or two of the ranking.
LEMMA Suggestion ==
  ASSUME StatementOK
  PROVE  LET n == Cardinality(Survivors)
             top == SubSeq(Ranked, 1, Min({2, Len(Ranked)}))
         IN /\ n \in Nat
            /\ Len(top) = IF n >= 2 THEN 2 ELSE n
            /\ DOMAIN top = 1 .. Len(top)
            /\ n >= 1 => top[1] = Ranked[1]
            /\ n >= 2 => top[2] = Ranked[2]
            /\ top # <<>> => n >= 1 /\ Survivors # {}
<1> DEFINE n == Cardinality(Survivors)
           T == {Ranked[place] : place \in 1 .. n}
           cut == Min({2, Len(Ranked)})
           top == SubSeq(Ranked, 1, cut)
<1>1. n \in Nat
  BY RowFields, FS_CardinalityType
<1>2. \E r : Ranked = [place \in 1 .. n |-> r[place]]
  <2> DEFINE S == Survivors
             score == [i \in S |-> Fused(i)]
             text == [i \in S |-> Fuzzy[statement[i].text]]
             Before(i, j) == \/ score[i] > score[j]
                             \/ score[i] = score[j] /\ text[i] > text[j]
                             \/ score[i] = score[j] /\ text[i] = text[j] /\ i < j
             chosen(place) ==
               CHOOSE i \in S : Cardinality({j \in S : Before(j, i)}) = place - 1
             r == [place \in 1 .. n |-> chosen(place)]
  <2>1. Ranked = r
    BY DEF Ranked
  <2>2. r = [place \in 1 .. n |-> r[place]]
    <3> HIDE DEF chosen, n
    <3> QED OBVIOUS
  <2> HIDE DEF r
  <2> QED BY <2>1, <2>2
<1> HIDE DEF n
<1>3. Ranked \in [1 .. n -> T]
  <2>1. DOMAIN Ranked = 1 .. n /\ Ranked = [place \in DOMAIN Ranked |-> Ranked[place]]
    BY <1>2
  <2> QED BY <2>1
<1>4. Ranked \in Seq(T) /\ Len(Ranked) = n
  <2> HIDE DEF T
  <2> QED BY <1>1, <1>3
<1>5. cut = IF n >= 2 THEN 2 ELSE n
  BY <1>1, <1>4, MinOfTwo
<1>6. cut \in 0 .. n
  BY <1>1, <1>5
<1> HIDE DEF T, cut
<1>7. /\ Len(top) = cut /\ DOMAIN top = 1 .. Len(top)
      /\ \A i \in 1 .. cut : top[i] = Ranked[i]
  <2>1. 1 \in 1 .. Len(Ranked) + 1 /\ cut \in 1 - 1 .. Len(Ranked)
    BY <1>1, <1>4, <1>6
  <2>2. /\ SubSeq(Ranked, 1, cut) \in Seq(T)
        /\ Len(SubSeq(Ranked, 1, cut)) = cut - 1 + 1
        /\ \A i \in 1 .. (cut - 1 + 1) : SubSeq(Ranked, 1, cut)[i] = Ranked[1 + i - 1]
    BY <1>4, <2>1, SubSeqProperties
  <2> QED BY <1>6, <2>2
<1> HIDE DEF top
<1>8. top # <<>> => n >= 1
  <2>1. top \in Seq(T)
    BY <1>4, <1>6 DEF top
  <2> QED BY <1>1, <1>5, <1>7, <2>1
<1>9. /\ Len(top) = IF n >= 2 THEN 2 ELSE n
      /\ DOMAIN top = 1 .. Len(top)
      /\ n >= 1 => top[1] = Ranked[1]
      /\ n >= 2 => top[2] = Ranked[2]
  BY <1>1, <1>5, <1>7
<1>10. n >= 1 => Survivors # {}
  <2>1. Cardinality({}) = 0
    BY FS_EmptySet
  <2> QED BY <2>1 DEF n
<1> QED BY <1>1, <1>8, <1>9, <1>10 DEF n, top, cut

\* Suggested rows are the first of the ranking, and a row is matched exactly
\* when it clears every gate and the row suggested beside it does not.
SafeToMatch ==
    /\ suggested # <<>> /\ AutoMatchable(suggested[1])
    /\ Len(suggested) > 1 => ~ AutoMatchable(suggested[2])

RankingIInv ==
    /\ StatementOK
    /\ decision \in {"open", "suggested", "matched", "parked"}
    /\ suggested # <<>> => decision # "open"
    /\ decision = "open" => suggested = <<>>
    /\ decision # "open" => suggested = SubSeq(Ranked, 1, Min({2, Len(Ranked)}))
    /\ decision = "matched" => SafeToMatch
    /\ decision = "parked" => ~ SafeToMatch

\* The invariant of the ranking.
LEMMA RankingInvariance == RankingSpec => []RankingIInv
<1>1. RankingInit => RankingIInv
  BY DEF RankingInit, RankingIInv, StatementOK
<1>2. RankingIInv /\ [RankingNext]_rankingVars => RankingIInv'
  <2> SUFFICES ASSUME RankingIInv, [RankingNext]_rankingVars PROVE RankingIInv'
    OBVIOUS
  <2>1. ASSUME UNCHANGED statement
        PROVE  /\ StatementOK'
               /\ Ranked' = Ranked
               /\ \A i : AutoMatchable(i)' <=> AutoMatchable(i)
    <3>1. StatementOK'
      BY <2>1 DEF RankingIInv, StatementOK
    <3> QED BY <2>1, <3>1
            DEF Ranked, AutoMatchable, Fused, BestPossible, HasEmbeddings, Survivors,
                FuzzySignal, AmountDateSignal, EmbeddingSignal
  <2>2. CASE Suggest
    BY <2>1, <2>2 DEF RankingIInv, Suggest
  <2>3. CASE Decide
    <3>1. UNCHANGED <<statement, suggested>> /\ (SafeToMatch' <=> SafeToMatch)
      BY <2>1, <2>3 DEF Decide, SafeToMatch
    <3>2. decision = "suggested" /\ decision' = IF SafeToMatch THEN "matched" ELSE "parked"
      BY <2>3 DEF Decide, SafeToMatch
    <3> QED BY <2>1, <3>1, <3>2 DEF RankingIInv
  <2>4. CASE UNCHANGED rankingVars
    BY <2>1, <2>4 DEF RankingIInv, SafeToMatch, rankingVars
  <2> QED BY <2>2, <2>3, <2>4 DEF RankingNext, Decided
<1> QED BY <1>1, <1>2, PTL DEF RankingSpec

\* The rows suggested: the first of the ranking, and the second if there is one.
LEMMA Suggested ==
  ASSUME RankingIInv, suggested # <<>>
  PROVE  LET n == Cardinality(Survivors)
         IN /\ StatementOK /\ Survivors # {} /\ n \in Nat /\ n >= 1
            /\ DOMAIN suggested = IF n >= 2 THEN {1, 2} ELSE {1}
            /\ Len(suggested) = IF n >= 2 THEN 2 ELSE 1
            /\ Chosen = Ranked[1]
            /\ n >= 2 => suggested[2] = Ranked[2]
<1> DEFINE n == Cardinality(Survivors)
           top == SubSeq(Ranked, 1, Min({2, Len(Ranked)}))
<1>1. StatementOK /\ suggested = top
  BY DEF RankingIInv
<1>2. /\ n \in Nat /\ n >= 1 /\ Survivors # {}
      /\ Len(top) = IF n >= 2 THEN 2 ELSE n
      /\ DOMAIN top = 1 .. Len(top)
      /\ top[1] = Ranked[1]
      /\ n >= 2 => top[2] = Ranked[2]
  BY <1>1, Suggestion
<1> HIDE DEF top, n
<1>3. Len(top) = IF n >= 2 THEN 2 ELSE 1
  BY <1>2
<1>4. DOMAIN top = IF n >= 2 THEN {1, 2} ELSE {1}
  <2>1. 1 .. 2 = {1, 2} /\ 1 .. 1 = {1}
    OBVIOUS
  <2>2. DOMAIN top = 1 .. Len(top)
    BY <1>2
  <2>3. CASE n >= 2
    BY <1>3, <2>1, <2>2, <2>3, Zenon
  <2>4. CASE ~ (n >= 2)
    BY <1>3, <2>1, <2>2, <2>4, Zenon
  <2> QED BY <2>3, <2>4
<1> QED BY <1>1, <1>2, <1>3, <1>4 DEF Chosen, n

\* No row that beats the first of the ranking is passed over.
LEMMA FirstUnbeaten ==
  ASSUME StatementOK, NEW i \in Survivors PROVE ~ Beats(i, Ranked[1])
<1> SUFFICES ASSUME Beats(i, Ranked[1]) PROVE FALSE
  OBVIOUS
<1>1. Ranked[1] \in Survivors /\ ~ Precedes(i, Ranked[1])
  BY FirstIsBest
<1>2. Fused(i) >= Fused(Ranked[1])
  BY <1>1, BetterScore
<1>3. /\ Fused(i) \in Nat /\ Fused(Ranked[1]) \in Nat
      /\ i \in DOMAIN statement /\ Ranked[1] \in DOMAIN statement
      /\ Fuzzy[statement[i].text] \in Nat /\ Fuzzy[statement[Ranked[1]].text] \in Nat
  BY <1>1, FusedIsNat, RowFields
<1>4. Fuzzy[statement[i].text] > Fuzzy[statement[Ranked[1]].text]
  BY <1>3 DEF Beats, Exceeds, FuzzySignal, Fraction
<1> QED BY <1>1, <1>2, <1>3, <1>4 DEF Precedes

\* Fusion of ranks never passes over a row that is better in every signal.
THEOREM BestIsChosen == RankingSpec => []ChosenUnbeaten
<1>1. RankingIInv => ChosenUnbeaten
  BY Suggested, FirstUnbeaten DEF RankingIInv, SafeToMatch, Matched, ChosenUnbeaten
<1> QED BY <1>1, RankingInvariance, PTL

\* A row that is best in every signal and alone in its words is matched, for
\* every statement, table of similarities, threshold of at most 1 and k, and
\* however many of the embeddings are missing.
THEOREM WinnerMatched == RankingSpec => []ClearWinnerMatched
<1>1. RankingIInv => ClearWinnerMatched
  <2> SUFFICES ASSUME RankingIInv, decision \in {"matched", "parked"},
                      NEW i \in Survivors, HasTheWords(i),
                      \A j \in Survivors \ {i} : Beats(i, j) /\ ~ HasTheWords(j)
               PROVE  Matched /\ Chosen = i
    BY DEF ClearWinnerMatched
  <2>1. StatementOK /\ Survivors # {}
    BY DEF RankingIInv
  <2>2. suggested # <<>>
    <3>1. Cardinality(Survivors) # 0 /\ Cardinality(Survivors) \in Nat
      BY <2>1, RowFields, FS_EmptySet, FS_CardinalityType
    <3> DEFINE n == Cardinality(Survivors)
               top == SubSeq(Ranked, 1, Min({2, Len(Ranked)}))
    <3>2. suggested = top
      BY DEF RankingIInv
    <3>3. Len(top) = IF n >= 2 THEN 2 ELSE n
      BY <2>1, Suggestion
    <3> HIDE DEF top, n
    <3>4. n \in Nat /\ n # 0
      BY <3>1 DEF n
    <3>5. Len(suggested) # 0
      BY <3>2, <3>3, <3>4
    <3> QED BY <3>5
  <2>3. Ranked[1] = i
    BY <2>1, FirstIsBest, FirstUnbeaten
  <2>4. Chosen = i
    BY <2>2, <2>3, Suggested
  <2>5. AutoMatchable(i)
    <3>1. Fused(i) = BestPossible /\ BestPossible \in Nat
      BY <2>1, WinnersScore
    <3>2. 100 * BestPossible >= ThresholdPercent * BestPossible
      <4>1. 100 - ThresholdPercent \in Nat /\ ThresholdPercent \in Nat
        BY RankingAssumption
      <4>2. (100 - ThresholdPercent) * BestPossible \in Nat
        BY <3>1, <4>1
      <4>3. 100 * BestPossible
              = ThresholdPercent * BestPossible + (100 - ThresholdPercent) * BestPossible
        BY <3>1, <4>1
      <4> QED BY <3>1, <4>1, <4>2, <4>3
    <3> QED BY <3>1, <3>2 DEF AutoMatchable, HasTheWords
  <2>6. Len(suggested) > 1 => ~ AutoMatchable(suggested[2])
    <3> SUFFICES ASSUME Len(suggested) > 1 PROVE ~ AutoMatchable(suggested[2])
      OBVIOUS
    <3>1. Cardinality(Survivors) >= 2 /\ suggested[2] = Ranked[2]
      <4> DEFINE n == Cardinality(Survivors)
      <4>1. /\ n \in Nat
            /\ Len(suggested) = IF n >= 2 THEN 2 ELSE 1
            /\ n >= 2 => suggested[2] = Ranked[2]
        BY <2>2, Suggested
      <4> HIDE DEF n
      <4>2. n >= 2 /\ suggested[2] = Ranked[2]
        BY <4>1
      <4> QED BY <4>2 DEF n
    <3>2. Ranked[2] \in Survivors \ {i}
      BY <2>1, <2>3, <3>1, SecondIsNext
    <3> QED BY <3>1, <3>2 DEF AutoMatchable, HasTheWords
  <2> QED BY <2>2, <2>4, <2>5, <2>6 DEF RankingIInv, SafeToMatch, Matched, Chosen
<1> QED BY <1>1, RankingInvariance, PTL

\* The tolerance is never negative.
LEMMA SlackIsNat == Slack \in Nat
<1> DEFINE part == TolerancePercent * Abs(Expense.amount)
<1>1. part \in Int /\ 100 \in Int
  BY RankingAssumption, AbsIsNat
<1>2. Max({100, part}) >= 100 /\ Max({100, part}) \in {100, part}
  <2> HIDE DEF part
  <2> QED BY <1>1, MaxOfTwo, Zenon
<1> QED BY <1>1, <1>2 DEF Slack

\* On a statement in the expense's currency the evaluation's prefilter, which
\* compares magnitudes, is the service's, which has a range for each sign.
LEMMA SamePrefilter ==
  ASSUME StatementOK, \A i \in DOMAIN statement : statement[i].currency = Expense.currency
  PROVE  EvalPrefilter = Survivors
<1> SUFFICES ASSUME NEW i \in DOMAIN statement
             PROVE  i \in EvalPrefilter <=> i \in Survivors
  BY DEF EvalPrefilter, Survivors
<1> DEFINE row == statement[i]
           e == Abs(Expense.amount)
           m == Abs(row.amount)
           close == Abs(row.date - Expense.date) <= DateWindow
<1>1. /\ e \in Nat /\ m \in Nat /\ row.amount \in Int
      /\ m = row.amount \/ m = - row.amount
  BY RowFields, RankingAssumption, AbsIsNat
<1>2. row.currency = Expense.currency
  OBVIOUS
<1>3. i \in EvalPrefilter <=>
        close /\ 100 * m >= 100 * e - Slack /\ 100 * m <= 100 * e + Slack
  BY DEF EvalPrefilter
<1>4. i \in Survivors <=>
        /\ close
        /\ \/ 100 * row.amount \in 100 * e - Slack .. 100 * e + Slack
           \/ 100 * row.amount \in -(100 * e + Slack) .. -(100 * e - Slack)
  BY <1>2 DEF Survivors, Plausible
<1>5. Slack \in Nat
  BY SlackIsNat
<1> HIDE DEF row, e, m, close
<1> DEFINE x == 100 * row.amount
           y == 100 * e
           z == 100 * m
<1>6. x \in Int /\ y \in Nat /\ z \in Nat /\ (z = x \/ z = -x)
  BY <1>1
<1>7. (z >= y - Slack /\ z <= y + Slack)
        <=> x \in y - Slack .. y + Slack \/ x \in -(y + Slack) .. -(y - Slack)
  <2> HIDE DEF x, y, z
  <2> QED BY <1>5, <1>6
<1> QED BY <1>3, <1>4, <1>7

\* The offline evaluation lists the rows as the service does, wherever each row
\* is in the expense's currency and has a cosine other than 0.
THEOREM EvaluationIsTrue == RankingSpec => []EvalMeasuresService
<1>1. RankingIInv => EvalMeasuresService
  <2> SUFFICES ASSUME RankingIInv,
                      \A i \in DOMAIN statement :
                        /\ statement[i].currency = Expense.currency
                        /\ Cosine[statement[i].text] \notin {NONE, 0},
                      NEW place \in DOMAIN suggested
               PROVE  /\ suggested[place] \in EvalPrefilter
                      /\ EvalPlace(suggested[place]) = place
    BY DEF EvalMeasuresService
  <2> DEFINE S == Survivors
             n == Cardinality(S)
             row == suggested[place]
             ahead(i) == {j \in S : Precedes(j, i)}
             behind(i) == {j \in EvalPrefilter : EvalBefore(j, i)}
  <2>1. suggested # <<>>
    OBVIOUS
  <2>2. /\ StatementOK /\ S # {} /\ n \in Nat /\ n >= 1
        /\ DOMAIN suggested = IF n >= 2 THEN {1, 2} ELSE {1}
        /\ suggested[1] = Ranked[1]
        /\ n >= 2 => suggested[2] = Ranked[2]
    BY <2>1, Suggested DEF Chosen
  <2>3. row \in S /\ Cardinality(ahead(row)) = place - 1
    <3>1. CASE place = 1
      <4>1. row \in S /\ \A j \in S : ~ Precedes(j, row)
        BY <2>2, <3>1, FirstIsBest
      <4>2. ahead(row) = {}
        BY <4>1
      <4> HIDE DEF ahead, row
      <4> QED BY <3>1, <4>1, <4>2, FS_EmptySet
    <3>2. CASE place = 2
      <4>1. n >= 2 /\ row = Ranked[2]
        BY <2>2, <3>2
      <4>2. Ranked[2] \in S /\ Cardinality(ahead(Ranked[2])) = 1
        BY <2>2, <4>1, SecondIsNext
      <4> HIDE DEF ahead, row
      <4> QED BY <3>2, <4>1, <4>2
    <3> QED BY <2>2, <3>1, <3>2
  <2>4. EvalPrefilter = S
    BY <2>2, SamePrefilter
  <2>5. HasEmbeddings
    BY <2>2, RowFields DEF HasEmbeddings
  <2>6. EmbeddingSignal = EvalCosine
    BY DEF EmbeddingSignal, EvalCosine
  <2>7. \A i \in S : EvalFused(i) = Fused(i)
    BY <2>4, <2>5, <2>6 DEF EvalFused, Fused
  <2>8. behind(row) = ahead(row)
    <3>1. \A j \in S : EvalBefore(j, row) <=> Precedes(j, row)
      BY <2>3, <2>7 DEF EvalBefore, Precedes
    <3> HIDE DEF S, row
    <3> QED BY <2>4, <3>1
  <2>9. EvalPlace(row) = 1 + Cardinality(behind(row))
    BY DEF EvalPlace
  <2>10. place \in Nat
    BY <2>2
  <2> HIDE DEF ahead, behind, row
  <2>11. EvalPlace(row) = place
    BY <2>3, <2>8, <2>9, <2>10
  <2> QED BY <2>3, <2>4, <2>11 DEF row
<1> QED BY <1>1, RankingInvariance, PTL
=============================================================================
