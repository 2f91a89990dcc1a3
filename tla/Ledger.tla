------------------------------- MODULE Ledger -------------------------------
(***************************************************************************)
(* The arithmetic of the double-entry ledger: what a transaction's lines   *)
(* have to pass from the HTTP schema (src/reckonflow/schemas/ledger.py)    *)
(* over LedgerService to the columns, CHECKs and the deferred trigger of   *)
(* the database, and the balances that are computed from what was stored.  *)
(*                                                                         *)
(* Lines count in tenths of 0.0001, the columns in 0.0001.  A transaction  *)
(* is one database transaction; its unique reference is modelled in        *)
(* Travel, here every posting has a fresh one.                             *)
(***************************************************************************)
EXTENDS Integers, Sequences, FiniteSets, Functions

CONSTANTS
    Accounts, Currencies,
    CurrencyOf,      \* an account's currency
    Drafts,          \* what callers try to post: sequences of lines
    MaxAmount,       \* the first amount NUMERIC(15, 4) does not hold
    MaxPosted        \* transactions in the ledger

\* What a caller passes is a list of lines with numbers in them.
ASSUME LedgerAssumption ==
    /\ IsFiniteSet(Accounts)
    /\ CurrencyOf \in [Accounts -> Currencies]
    /\ \A lines \in Drafts :
         /\ Len(lines) \in Nat /\ DOMAIN lines = 1 .. Len(lines)
         /\ \A i \in DOMAIN lines : lines[i].debit \in Int /\ lines[i].credit \in Int
    /\ MaxAmount \in Nat /\ MaxPosted \in Nat

VARIABLE posted      \* the committed transactions: who posted, the entries

Callers == {"http", "code"}

Line(account, debit, credit, currency) ==
    [account |-> account, debit |-> debit, credit |-> credit, currency |-> currency]

DebitOf(lines) == [i \in DOMAIN lines |-> lines[i].debit]
CreditOf(lines) == [i \in DOMAIN lines |-> lines[i].credit]

LinesIn(lines, c) == {i \in DOMAIN lines : lines[i].currency = c}

Debits(lines, c) == SumFunctionOnSet(DebitOf(lines), LinesIn(lines, c))
Credits(lines, c) == SumFunctionOnSet(CreditOf(lines), LinesIn(lines, c))

\* All currencies together.
BalancedInTotal(lines) == SumFunction(DebitOf(lines)) = SumFunction(CreditOf(lines))

\* Per currency: 100 EUR are not 100 USD.
Balanced(lines) == \A c \in Currencies : Debits(lines, c) = Credits(lines, c)

-----------------------------------------------------------------------------
(* The HTTP schema.                                                        *)

FiveDecimals(amount) == TRUE

\* MoneyStr refuses more than four decimals.
FourDecimals(amount) == amount % 10 = 0

SchemaAccepts(lines) ==
    /\ Len(lines) >= 2
    /\ \A i \in DOMAIN lines :
         LET line == lines[i]
         IN /\ FourDecimals(line.debit) /\ FourDecimals(line.credit)
            /\ line.debit >= 0 /\ line.credit >= 0
            /\ ~ (line.debit > 0 /\ line.credit > 0)
            /\ ~ (line.debit = 0 /\ line.credit = 0)
    /\ Balanced(lines)

-----------------------------------------------------------------------------
(* LedgerService.create_balanced_transaction.                              *)

\* The service does not look for negative amounts; the CHECKs do.
ServiceAccepts(lines) ==
    /\ Len(lines) >= 2
    /\ \A i \in DOMAIN lines :
         LET line == lines[i]
         IN /\ ~ (line.debit > 0 /\ line.credit > 0)
            /\ ~ (line.debit = 0 /\ line.credit = 0)
            /\ line.account \in Accounts
            /\ line.currency = CurrencyOf[line.account]
    /\ Balanced(lines)

-----------------------------------------------------------------------------
(* The database.                                                           *)

\* NUMERIC(15, 4) rounds half away from zero.
Column(amount) ==
    IF amount >= 0 THEN (amount + 5) \div 10 ELSE -((5 - amount) \div 10)

Entries(lines) ==
    [i \in DOMAIN lines |->
       Line(lines[i].account, Column(lines[i].debit), Column(lines[i].credit),
            lines[i].currency)]

\* The column's width, ck_ledger_entry_nonneg and ck_ledger_entry_one_sided.
RowAccepted(entry) ==
    /\ entry.debit < MaxAmount /\ entry.credit < MaxAmount
    /\ entry.debit >= 0 /\ entry.credit >= 0
    /\ \/ entry.debit > 0 /\ entry.credit = 0
       \/ entry.credit > 0 /\ entry.debit = 0

TriggerAsleep(entries) == TRUE

\* check_ledger_transaction_balanced, at the commit: one sum over all
\* currencies.
TriggerPasses(entries) == BalancedInTotal(entries)

Accepted(by, lines) ==
    /\ by = "http" => SchemaAccepts(lines)
    /\ ServiceAccepts(lines)
    /\ \A i \in DOMAIN lines : RowAccepted(Entries(lines)[i])
    /\ TriggerPasses(Entries(lines))

-----------------------------------------------------------------------------
LedgerInit == posted = <<>>

Store(by, lines) ==
    /\ Len(posted) < MaxPosted
    /\ Accepted(by, lines)
    /\ posted' = Append(posted, [by |-> by, entries |-> Entries(lines)])

\* A client over HTTP, or a job or script that calls the service.
Post == \E by \in Callers, lines \in Drafts : Store(by, lines)

\* The correction of a transaction: what it stored, with the sides swapped.
Reversed(tx) ==
    [i \in DOMAIN tx.entries |->
       LET e == tx.entries[i]
       IN Line(e.account, 10 * e.credit, 10 * e.debit, e.currency)]

PostReversal ==
    \E n \in DOMAIN posted : Store("http", Reversed(posted[n]))

LedgerFull == Len(posted) = MaxPosted /\ UNCHANGED posted

LedgerNext == Post \/ PostReversal \/ LedgerFull

LedgerSpec == LedgerInit /\ [][LedgerNext]_posted

Excess(tx) == [i \in DOMAIN tx.entries |-> tx.entries[i].debit - tx.entries[i].credit]

EntriesOf(tx, a) ==
    {i \in DOMAIN tx.entries : /\ tx.entries[i].account = a
                               /\ tx.entries[i].currency = CurrencyOf[a]}

\* account_balance: debits less credits in the account's own currency.
AccountBalance(a) ==
    SumFunction([n \in DOMAIN posted |->
                  SumFunctionOnSet(Excess(posted[n]), EntriesOf(posted[n], a))])

-----------------------------------------------------------------------------
(* Properties                                                              *)

TrialBalance(as) == SumFunction([a \in as |-> AccountBalance(a)])

\* The books balance: the balances of all accounts sum to zero, and those of
\* each currency do when every transaction came over HTTP.  The service checks
\* exact amounts and the columns round them, so for other callers only the
\* trigger is left, which adds up euros and dollars.
BooksBalance ==
    /\ TrialBalance(Accounts) = 0
    /\ (\A n \in DOMAIN posted : posted[n].by = "http") =>
         \A c \in Currencies :
           TrialBalance({a \in Accounts : CurrencyOf[a] = c}) = 0

\* "Post a reversing transaction" always works: whatever a client could post,
\* its reversal passes the schema, the service and the database.
Reversible ==
    \A n \in DOMAIN posted :
      posted[n].by = "http" => Accepted("http", Reversed(posted[n]))
=============================================================================
