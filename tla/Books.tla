------------------------------- MODULE Books -------------------------------
(***************************************************************************)
(* The chart of accounts and the reports over it: accounts.service.ts,     *)
(* reports.service.ts, common/date-range.ts, the accounts of               *)
(* prisma/seed.ts and the balances of prisma/reset-production-data.ts,     *)
(* with the journal seen from here: any service may post or reverse.       *)
(*                                                                         *)
(* A posting moves stored balances by the account types it read.  A change *)
(* of type recomputes a balance from the lines.  An account's row is       *)
(* locked from its first write to the commit, so what a transaction does   *)
(* from there on is one step here; what it read before is a step earlier.  *)
(***************************************************************************)
EXTENDS Requests, DoubleEntry

CONSTANTS
    Accounts, \* account codes
    Chart,    \* the accounts of the seed script and the type of each
    Bodies,   \* bodies of PATCH /accounts/:id, [type, isActive], None for absent
    EntryIds, \* primary keys of entries, never used twice
    Postings, \* what the services post, [month, lines]; a month is 12 * year + month - 1
    Gone      \* an entry that was deleted

VARIABLES
    account,  \* the Account table
    journal,  \* the JournalEntry table with its lines
    disturbed \* history: accounts whose balance was moved under another type

vars == <<account, journal, req, disturbed>>

Line == [account : Accounts, side : {"DEBIT", "CREDIT"}, amount : Int]

ASSUME BooksAssumption ==
    /\ None # Gone /\ {None, Gone} \cap Postings = {}
    /\ DOMAIN Chart \subseteq Accounts /\ IsFiniteSet(DOMAIN Chart)
    /\ \A a \in DOMAIN Chart : Chart[a] \in AccountTypes
    /\ \A b \in Bodies : b.type \in {None} \cup AccountTypes /\ b.isActive \in {None} \cup BOOLEAN
    /\ \A post \in Postings : post.month \in Nat /\ post.lines \in Seq(Line)
    /\ None \notin Nat \cup AccountTypes \cup [type : AccountTypes, isActive : BOOLEAN, balance : Int]

Exists(a) == account[a] # None

Types == [a \in Accounts |-> IF Exists(a) THEN account[a].type ELSE None]

Entries == {e \in EntryIds : journal[e] \notin {None, Gone}}

Touches(lines, a) == \E i \in DOMAIN lines : lines[i].account = a

----------------------------------------------------------------------------
(* accounts.service.ts *)

\* The last running balance of the ledger of an account.
LedgerBalance(a) ==
    SumFunction([e \in Entries |-> Delta(Types, journal[e].lines, a)])

NewAccount(type) == [type |-> type, isActive |-> TRUE, balance |-> 0]

Idle == [pc |-> "idle", id |-> None, post |-> [lines |-> <<>>], types |-> <<>>,
         body |-> None, typeChanged |-> FALSE]

Init ==
    /\ account = [a \in Accounts |-> IF a \in DOMAIN Chart THEN NewAccount(Chart[a]) ELSE None]
    /\ journal = [e \in EntryIds |-> None]
    /\ req = [p \in Procs |-> Idle]
    /\ disturbed = {}

Create(a, type) ==
    /\ ~Exists(a)
    /\ account' = [account EXCEPT ![a] = NewAccount(type)]
    /\ UNCHANGED <<journal, req, disturbed>>

\* update asks for the account before its transaction.
UpdateRead(p, a, body) ==
    /\ At(p, "idle")
    /\ Exists(a)
    /\ Goes(p, [Idle EXCEPT !.pc = "updating", !.id = a, !.body = body,
                  !.typeChanged = body.type \notin {None, account[a].type}])
    /\ UNCHANGED <<account, journal, disturbed>>

\* Mutant: a change of type leaves the balance.
RecomputedNot(a, type) == account[a].balance

\* The lines of an account summed up under its new type.
Recomputed(a, type) ==
    SumFunction([e \in Entries |-> Delta([Types EXCEPT ![a] = type], journal[e].lines, a)])

Given(new, old) == IF new = None THEN old ELSE new

UpdateCommit(p) ==
    /\ At(p, "updating")
    /\ LET a    == req[p].id
           type == Given(req[p].body.type, account[a].type)
           typeChanged == req[p].typeChanged
       IN  /\ account' = [account EXCEPT ![a] =
                 [type |-> type,
                  isActive |-> Given(req[p].body.isActive, @.isActive),
                  balance |-> IF typeChanged THEN Recomputed(a, type) ELSE @.balance]]
           /\ disturbed' = IF typeChanged THEN disturbed \ {a}
                           ELSE IF type # account[a].type THEN disturbed \cup {a}
                           ELSE disturbed
    /\ Goes(p, Idle)
    /\ UNCHANGED journal

\* The seed script sets the types of its chart and leaves the balances.
Seed(a) ==
    /\ a \in DOMAIN Chart
    /\ account' = [account EXCEPT ![a].type = Chart[a]]
    /\ disturbed' = IF account[a].type = Chart[a] THEN disturbed ELSE disturbed \cup {a}
    /\ UNCHANGED <<journal, req>>

\* The reset script empties the journal and sets all balances to zero, at once.
Reset ==
    /\ journal' = [e \in EntryIds |-> IF journal[e] = None THEN None ELSE Gone]
    /\ account' = [a \in Accounts |-> IF Exists(a) THEN [account[a] EXCEPT !.balance = 0] ELSE None]
    /\ disturbed' = {}
    /\ UNCHANGED req

----------------------------------------------------------------------------
(* Postings and reversals *)

\* Mutant: unbalanced lines are posted.
AcceptedAlways(lines) == TRUE

Accepted(lines) == Balanced(lines)

TypesFor(lines) == [a \in {lines[i].account : i \in DOMAIN lines} |-> account[a].type]

\* postJournal and reverseEntriesByReference as far as they read: the entry is
\* made or found, then the types of its accounts are asked for.
PostRead(p, e, post) ==
    /\ At(p, "idle")
    /\ journal[e] = None /\ \A q \in Procs : req[q].id # e
    /\ Accepted(post.lines)
    /\ \A a \in Accounts : Touches(post.lines, a) => Exists(a)
    /\ Goes(p, [Idle EXCEPT !.pc = "posting", !.id = e, !.post = post,
                  !.types = TypesFor(post.lines)])
    /\ UNCHANGED <<account, journal, disturbed>>

ReverseRead(p, e) ==
    /\ At(p, "idle")
    /\ e \in Entries
    /\ Goes(p, [Idle EXCEPT !.pc = "reversing", !.id = e, !.post = journal[e],
                  !.types = TypesFor(journal[e].lines)])
    /\ UNCHANGED <<account, journal, disturbed>>

\* Each balance is incremented in the database, by the type that was read.
Incremented(r, sign) ==
    [a \in Accounts |->
        IF Touches(r.post.lines, a)
        THEN [account[a] EXCEPT !.balance = @ + sign * Delta(r.types, r.post.lines, a)]
        ELSE account[a]]

Misread(p) == {a \in Accounts : Touches(req[p].post.lines, a) /\ req[p].types[a] # account[a].type}

PostCommit(p) ==
    /\ At(p, "posting")
    /\ journal' = [journal EXCEPT ![req[p].id] = req[p].post]
    /\ account' = Incremented(req[p], 1)
    /\ disturbed' = disturbed \cup Misread(p)
    /\ Goes(p, Idle)

ReverseCommit(p) ==
    /\ At(p, "reversing")
    /\ req[p].id \in Entries
    /\ journal' = [journal EXCEPT ![req[p].id] = Gone]
    /\ account' = Incremented(req[p], -1)
    /\ disturbed' = disturbed \cup Misread(p)
    /\ Goes(p, Idle)

Abort(p) ==
    /\ ~At(p, "idle")
    /\ Goes(p, Idle)
    /\ UNCHANGED <<account, journal, disturbed>>

Step(p) ==
    \/ \E a \in Accounts, body \in Bodies : UpdateRead(p, a, body)
    \/ UpdateCommit(p)
    \/ \E e \in EntryIds, post \in Postings : PostRead(p, e, post)
    \/ PostCommit(p)
    \/ \E e \in EntryIds : ReverseRead(p, e)
    \/ ReverseCommit(p)
    \/ Abort(p)

Next ==
    \/ \E a \in Accounts, type \in AccountTypes : Create(a, type)
    \/ \E a \in Accounts : Seed(a)
    \/ Reset
    \/ \E p \in Procs : Step(p)

Spec == Init /\ [][Next]_vars

----------------------------------------------------------------------------
(* reports.service.ts *)

\* Mutant: the last month of a year is not in it.
monthYearRangeShort(month, year) ==
    IF year = None THEN Nat
    ELSE IF month = None THEN (12 * year)..(12 * year + 10) ELSE {12 * year + month - 1}

\* The months from gte up to but not including lt; without a year, all time.
monthYearRange(month, year) ==
    IF year = None THEN Nat
    ELSE LET gte == IF month = None THEN 12 * year ELSE 12 * year + month - 1
             lt  == IF month = None THEN 12 * (year + 1) ELSE 12 * year + month
         IN  gte..(lt - 1)

\* What the posted lines of some months come to over the accounts of a type.
Total(type, months) ==
    LET accounts == {a \in Accounts : Types[a] = type}
        entries  == {e \in Entries : journal[e].month \in months}
    IN  SumFunction([e \in entries |->
            SumFunction([a \in accounts |-> Delta(Types, journal[e].lines, a)])])

NetProfit(months) == Total("REVENUE", months) - Total("EXPENSE", months)

\* The net profit of a month, of a year, or of all time.
ProfitLoss(month, year) == NetProfit(monthYearRange(month, year))

\* Balance sheet: the active accounts of some types by their stored balances.
Stored(types) ==
    LET accounts == {a \in Accounts : Exists(a) /\ account[a].isActive /\ account[a].type \in types}
    IN  SumFunction([a \in accounts |-> account[a].balance])

BalanceSheet ==
    LET assets      == Stored({"ASSET", "BANK"})
        liabilities == Stored({"LIABILITY"})
        equity      == Stored({"EQUITY"})
    IN  [totalAssets |-> assets, totalLiabilities |-> liabilities, contributedEquity |-> equity,
         retainedEarnings |-> assets - liabilities - equity]

\* The net profits of the twelve months of a year.
MonthlyTrend(year) ==
    [m \in 1..12 |->
        NetProfit({i \in monthYearRange(None, year) : i % 12 = m - 1})]

----------------------------------------------------------------------------
(* Properties *)

TypeOK ==
    /\ \A a \in Accounts : Exists(a) =>
          account[a].type \in AccountTypes /\ account[a].isActive \in BOOLEAN
              /\ account[a].balance \in Int
    /\ \A e \in Entries : journal[e] \in Postings
    /\ disturbed \subseteq Accounts

\* update recomputes a balance "keeping it consistent with what the ledger
\* drill-down shows": through postings, reversals and changes of type, the
\* stored balance of an account is the last running balance of its ledger,
\* unless a posting, a reversal, another update or the seed script acted on a
\* type that it did not have, and then again after the next change of type.
LedgerEndsAtBalance ==
    \A a \in Accounts \ disturbed : Exists(a) => account[a].balance = LedgerBalance(a)

\* "Retained earnings balances the sheet": the figure the balance sheet finds by
\* subtraction is the profit of all time, if the balances are those of the
\* ledger and no account with a balance is left out for being inactive.
RetainedEarningsAreProfit ==
    /\ disturbed = {}
    /\ \A a \in Accounts : Exists(a) /\ ~account[a].isActive => account[a].balance = 0
    => BalanceSheet.retainedEarnings = ProfitLoss(None, None)

\* The months of a trend, the year they belong to, and the years and all time:
\* an entry is in exactly one of each, on the first instant of a month as well.
TrendAddsUp ==
    LET Months == {post.month : post \in Postings}
        years  == {journal[e].month \div 12 : e \in Entries}
    IN  /\ \A y \in {m \div 12 : m \in Months} :
              LET trend == MonthlyTrend(y)
              IN  /\ SumFunction(trend) = ProfitLoss(None, y)
                  /\ \A i \in Months : i \div 12 = y => trend[(i % 12) + 1] = ProfitLoss((i % 12) + 1, y)
        /\ SumFunction([y \in years |-> ProfitLoss(None, y)]) = ProfitLoss(None, None)

\* "keeping it consistent with what the ledger drill-down shows", also for a posting
\* that read the type of an account before it changed.  It is not.
BalanceIsThatOfLedger ==
    \A a \in Accounts : Exists(a) => account[a].balance = LedgerBalance(a)

=============================================================================
