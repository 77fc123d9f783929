------------------------------ MODULE Deposits ------------------------------
(***************************************************************************)
(* Container deposits, deposits/deposits.service.ts.  A deposit a user     *)
(* enters is on the books (DR its account, CR bank; the reverse when it is *)
(* refunded).  A tracking deposit mirrors the deposit of a cost line and   *)
(* never reaches the ledger; the expense service creates, resizes and      *)
(* removes it through syncForCostLine, in a transaction of its own.        *)
(* This module holds the deposit table and its operations; module Expenses *)
(* extends it with the bills and composes the two.                         *)
(*                                                                         *)
(* As in module Income a request reads step by step and commits at once.   *)
(* No service here deletes a journal entry, so the entry number, which is  *)
(* unique, also serves as its primary key.                                 *)
(***************************************************************************)
EXTENDS Journal, Requests

CONSTANTS
    DepositIds,     \* primary keys of deposits, never used twice
    DepositDtos,    \* bodies of POST /deposits: [year, job, amount, account]
    Bank,           \* the account coded 1100
    MaxEntries,     \* bound on the journal
    Gone            \* a row that was deleted

VARIABLES deposit, journal, balance

depositVars == <<deposit, journal, balance>>

ASSUME DepositsAssumption ==
    /\ Bank \in Accounts
    /\ MaxEntries \in Nat
    /\ \A dto \in DepositDtos : dto.account \in Accounts /\ dto.amount \in Nat \ {0}
    /\ None # Gone /\ {None, Gone} \cap (DepositIds \cup Accounts) = {}

----------------------------------------------------------------------------
(* Rows and requests *)

\* The status may move one step along this list, either way.
DEPOSIT_LIFECYCLE ==
    <<"EIR_DOCS_COLLECTED", "ORIGINAL_RECEIPT_COLLECTED", "SUBMITTED_TO_SHIPPING_LINE",
      "AWAITING_DEPOSIT_REFUND", "DEPOSIT_REFUNDED">>

Refunded == "DEPOSIT_REFUNDED"

OneStep(from, to) ==
    \E i, j \in DOMAIN DEPOSIT_LIFECYCLE :
        /\ DEPOSIT_LIFECYCLE[i] = from
        /\ DEPOSIT_LIFECYCLE[j] = to
        /\ j \in {i - 1, i + 1}

Deposited(d)    == deposit[d] \notin {None, Gone}
DepositRows     == {deposit[d] : d \in {e \in DepositIds : Deposited(e)}}
TrackersOf(src) == {d \in DepositIds : Deposited(d) /\ deposit[d].source = src}

DepositRow(number, source, job, amount, account) ==
    [number |-> number, source |-> source, job |-> job, amount |-> amount,
     account |-> account, status |-> DEPOSIT_LIFECYCLE[1], refunded |-> 0]

DepositRef(d) == <<"DEPOSIT", d>>

Idle == [pc |-> "idle", id |-> None, dep |-> None, row |-> None, dto |-> None, to |-> None,
         number |-> None, entryNumber |-> None, cost |-> None, batch |-> <<>>,
         own |-> [entries |-> {}, payments |-> {}]]

Done(p)   == req' = [req EXCEPT ![p] = Idle]

\* postJournal: entries numbered so far stay; this one joins them.
Post(number, ref, lines) ==
    /\ Cardinality(journal) < MaxEntries
    /\ Balanced(lines)
    /\ ~Taken(journal, number)
    /\ journal' = journal \cup {NewEntry(number, number, ref, lines)}
    /\ balance' = Posted(balance, lines)

----------------------------------------------------------------------------
(* create: a deposit on the books *)

DepositNumber(p, dto) ==
    /\ At(p, "idle")
    /\ req' = [req EXCEPT ![p] = [Idle EXCEPT !.pc = "depositing", !.dto = dto,
                                              !.number = NextNumber(DepositRows, dto.year)]]
    /\ UNCHANGED depositVars

DepositEntryNumber(p) ==
    /\ At(p, "depositing")
    /\ req' = [req EXCEPT ![p].pc = "booking",
                          ![p].entryNumber = NextNumber(journal, req[p].dto.year)]
    /\ UNCHANGED depositVars

DepositCommit(p, d) ==
    LET dto == req[p].dto
    IN  /\ At(p, "booking")
        /\ deposit[d] = None
        /\ ~Taken(DepositRows, req[p].number)
        /\ deposit' = [deposit EXCEPT ![d] =
                DepositRow(req[p].number, None, dto.job, dto.amount, dto.account)]
        /\ Post(req[p].entryNumber, DepositRef(d),
                <<Debit(dto.account, dto.amount), Credit(Bank, dto.amount)>>)
        /\ Done(p)

----------------------------------------------------------------------------
(* syncForCostLine, entered with req[p].cost = [source, job, year, amount] *)

\* Mutant: a refunded deposit is not spared.
SyncPlanUnlocked(amount, d) ==
    IF amount > 0 THEN IF d = None THEN "tracking" ELSE "resizing"
    ELSE IF d = None THEN "idle" ELSE "removing"

\* What to do about the existing deposit d of a cost line, or None.
SyncPlan(amount, d) ==
    IF d = None THEN IF amount > 0 THEN "tracking" ELSE "idle"
    ELSE IF deposit[d].status = Refunded THEN "idle"
    ELSE IF amount > 0 THEN "resizing" ELSE "removing"

\* findFirst names no order: any match may come back.
SyncFind(p) ==
    LET found == TrackersOf(req[p].cost.source)
    IN  /\ At(p, "syncing")
        /\ \E d \in IF found = {} THEN {None} ELSE found :
              LET plan == SyncPlan(req[p].cost.amount, d)
              IN  req' = [req EXCEPT ![p] =
                            IF plan = "idle" THEN Idle
                            ELSE [@ EXCEPT !.pc = plan, !.dep = d]]
        /\ UNCHANGED depositVars

\* createForCostLine
TrackNumber(p) ==
    /\ At(p, "tracking")
    /\ req' = [req EXCEPT ![p].pc = "tracked",
                          ![p].number = NextNumber(DepositRows, req[p].cost.year)]
    /\ UNCHANGED depositVars

TrackCommit(p, d) ==
    LET cost == req[p].cost
    IN  /\ At(p, "tracked")
        /\ deposit[d] = None
        /\ ~Taken(DepositRows, req[p].number)
        /\ deposit' = [deposit EXCEPT ![d] =
                DepositRow(req[p].number, cost.source, cost.job, cost.amount, None)]
        /\ Done(p)
        /\ UNCHANGED <<journal, balance>>

\* Mutant: the new amount is forgotten.
ResizedNot(row, amount) == row

\* The job the deposit is filed under is not among the columns written.
Resized(row, amount) == [row EXCEPT !.amount = amount]

ResizeCommit(p) ==
    LET d == req[p].dep
    IN  /\ At(p, "resizing")
        /\ Deposited(d)
        /\ deposit' = [deposit EXCEPT ![d] = Resized(@, req[p].cost.amount)]
        /\ Done(p)
        /\ UNCHANGED <<journal, balance>>

RemoveCommit(p) ==
    LET d == req[p].dep
    IN  /\ At(p, "removing")
        /\ Deposited(d)
        /\ deposit' = [deposit EXCEPT ![d] = Gone]
        /\ Done(p)
        /\ UNCHANGED <<journal, balance>>

----------------------------------------------------------------------------
(* updateStatus: the row is read, and checked, before the transaction *)

OnTheBooks(row) == row.account # None

StatusRead(p, d, to) ==
    /\ At(p, "idle")
    /\ Deposited(d)
    /\ deposit[d].status # Refunded
    /\ OneStep(deposit[d].status, to)
    /\ req' = [req EXCEPT ![p] =
            [Idle EXCEPT !.pc = IF to = Refunded /\ OnTheBooks(deposit[d])
                                THEN "refunding" ELSE "advancing",
                         !.dep = d, !.row = deposit[d], !.to = to]]
    /\ UNCHANGED depositVars

\* The refund is the amount that was read.
Advanced(row, read, to) ==
    [row EXCEPT !.status   = to,
                !.refunded = IF to = Refunded THEN read.amount ELSE @]

AdvanceCommit(p) ==
    LET d == req[p].dep
    IN  /\ At(p, "advancing")
        /\ Deposited(d)
        /\ deposit' = [deposit EXCEPT ![d] = Advanced(@, req[p].row, req[p].to)]
        /\ Done(p)
        /\ UNCHANGED <<journal, balance>>

RefundNumber(p, year) ==
    /\ At(p, "refunding")
    /\ req' = [req EXCEPT ![p].pc = "repaying",
                          ![p].entryNumber = NextNumber(journal, year)]
    /\ UNCHANGED depositVars

\* Mutant: the refund is booked like the deposit itself.
RefundLinesSwapped(row) == <<Debit(row.account, row.amount), Credit(Bank, row.amount)>>

RefundLines(row) == <<Debit(Bank, row.amount), Credit(row.account, row.amount)>>

RefundCommit(p) ==
    LET d == req[p].dep
    IN  /\ At(p, "repaying")
        /\ Deposited(d)
        /\ deposit' = [deposit EXCEPT ![d] = Advanced(@, req[p].row, req[p].to)]
        /\ Post(req[p].entryNumber, DepositRef(d), RefundLines(req[p].row))
        /\ Done(p)

DepositStep(p, year) ==
    \/ \E dto \in DepositDtos : DepositNumber(p, dto)
    \/ DepositEntryNumber(p)
    \/ \E d \in DepositIds : DepositCommit(p, d)
    \/ SyncFind(p)
    \/ TrackNumber(p)
    \/ \E d \in DepositIds : TrackCommit(p, d)
    \/ ResizeCommit(p)
    \/ RemoveCommit(p)
    \/ \E d \in DepositIds, to \in {DEPOSIT_LIFECYCLE[i] : i \in 1..5} : StatusRead(p, d, to)
    \/ AdvanceCommit(p)
    \/ RefundNumber(p, year)
    \/ RefundCommit(p)

SyncPcs    == {"syncing", "tracking", "tracked", "resizing", "removing"}
DepositPcs == {"idle", "depositing", "booking", "advancing", "refunding", "repaying"}
                \cup SyncPcs

============================================================================
