# Verification of the customs-clearance back office

TLA+ models, TLC model-checking runs and TLAPS proofs for the NestJS + Prisma + PostgreSQL application
under `src/`. The application keeps a customs broker's books: clearance jobs and their containers,
income, invoices, bills, container deposits and the double-entry ledger below them, and the stock of a
bonded warehouse.

Everything here is about one question: what is still true of the database when HTTP requests run at the
same time, in any order, and some of them die half way? The code takes no row locks, sets no isolation
level and never retries, so under PostgreSQL's READ COMMITTED every read in a handler may be outdated by
the time its write happens. Unit tests with a mocked Prisma client do not reach any of that.

## 1. Inventory

### Components

| Component | Source (`src/src/`) | State | Operations that change it | Module |
|---|---|---|---|---|
| Journal | `journal/`, `common/accounting.constants.ts` | entries with lines, number per year; account balances | `postJournal`, `reverseEntriesByReference`, `createEntry` | `DoubleEntry`, `Journal` (used by the next four), `LedgerLemmas` |
| Income register | `income/` | income rows, approval badge | create, update, approve, reject, `createFromInvoiceTx` | `Income`, `IncomeRegister`, `IncomeProofs` |
| Invoices | `invoices/` | invoices with status and balances, payments | create, finalize, update, recordPayment | `Invoices`, `InvoicesProofs` |
| Bills and vouchers | `expense/` | bills with items, approval, posting; vendor payments | create, update, approve, reject, payBill, payBills | `Expenses`, `ExpensesProofs` |
| Container deposits | `deposits/` | deposits with a six-step lifecycle | create, `syncForCostLine`, updateStatus | `Deposits`, `ExpensesProofs` |
| Job costing | `costing/` | none of its own: cost lines are bills | addCostLine, updateCostLine, deleteCostLine | `Expenses`, `ExpensesProofs` |
| Bonded warehouse | `bonded-warehouse/`, `warehouse-locations/` | stock items, movements, locations | receipts, Excel import, edits, movements, batch release, locations | `BondedWarehouse`, `BondedProofs` |
| Clearance plans | `clearance-plans/`, `operations/` | jobs and their container rows | job save, container sync, single-row edits, status moves | `ClearancePlans`, `JobsPlansUploadsProofs` |
| Clearance jobs | `operations/` | jobs with number, B/Ls, inline bill rows, staff | create, update; customers and users deleted under them | `Jobs`, `JobsPlansUploadsProofs` (containers: `ClearancePlans`) |
| Chart of accounts | `accounts/` | account rows, a balance recomputed on a type change | create, update | `Books`, `BooksProofs` |
| Reports | `reports/`, `common/date-range.ts` | none | none: functions of the ledger | `Books`, `BooksProofs` (profit and loss, balance sheet, trend) |
| Permissions, auth, users | `permissions/`, `auth/`, `users/`, every controller's decorators | grants and their in-memory cache; users; tokens | setRolePermissions, guard, login, refresh, user edits | `Routes`, `Access`, `AccessRegistersProofs` |
| Uploads | `uploads/`, `storage/` | rows in the database, objects in S3, links to both | create, presign, client puts, confirm, link, remove; links in bodies | `Uploads`, `JobsPlansUploadsProofs` |
| Tax rates, types, customer status | `settings/`, `service-types/`, `expense-types/`, `customers/` | one default rate; codes that records name; a status with its remark | create, update, setDefault, remove | `Registers`, `AccessRegistersProofs` |
| Seed and reset scripts | `src/prisma/` | all tables | upserts, deletions beside the running service | `Books`, `Registers`, `Uploads`, `Access` |
| Bank reconciliation, tax filings | `bank-reconciliation/`, `tax/` | single rows | create, update, remove, submit | not modelled, see section 6 |
| Audit log, Telegram | `audit/`, `telegram/` | append-only rows; a send window | log; notify | not modelled, see section 6 |
| Exports, lists, bootstrap | `*-export.service.ts`, `payments/`, `main.ts` | none | none | not modelled: pure reads and wiring |

### How they interact

All calls are in-process and most pass the Prisma transaction client along. `income`, `invoices`, `expense`
and `deposits` call `journal` inside their own transaction, so an entry, its lines and the balances commit
with the row they belong to. The last payment of an invoice calls `income.createFromInvoiceTx` in the
payment's transaction. A bill that belongs to a job calls `deposits.syncForCostLine` *after* its own commit,
through `reconcileJobDeposit`. A job save calls `syncJobContainers` in its transaction; the Clearance Plan
page calls the same function in a transaction of its own. Two things are shared by everyone who posts: the
account balances, moved by SQL increments, and the entry numbers `JE-<year>-<nnnn>`, which are a row count
plus one.

Around the ledger, four things live in two places at once. Grants are rows of a table and a copy in the memory
of the one server process (`ecosystem.config.js` starts a single instance). The role of a user is in the row and in
every token signed so far. An upload is a row in PostgreSQL, an object in S3 and a link on the customer or user that
shows it, which bodies of customers and users may also write as any text. A stored balance is what the accounts page shows, and the lines are what the ledger and
the reports show. Customers, users and types are referred to by rows of other services, through foreign keys with
`RESTRICT` or `SET NULL`, or, for types, by a code that no foreign key guards. The seed and reset scripts run beside
the service and know nothing of it.

### What is hard

* **Reads that are outdated when they are used.** Status checks before the transaction (`invoice.update`,
  `expense.update`, `deposits.updateStatus`, `clearance-plans.updateStatus`), balances written as absolute
  values (`recordPayment`, `addMovement`), find-or-create (`getReleasedLocation`, the location of an imported row,
  `syncForCostLine`).
* **Numbers from counts.** Two requests get the same number, and after a deletion one request alone gets a
  number that is taken. The unique index turns both into a failed transaction.
* **Partial failure.** A request may end before its commit, between the commit of a bill and of its deposit, or
  between two rows of an import.
* **Two stores, no transaction.** An object is put before its row and deleted before its row; a client's PUT may
  come late or again; a cache is filled after an await and dropped after a commit.
* **Things that must die out.** Tokens carry old roles, caches old grants.
* **Long legal sequences.** Part payments, edits after posting, releases in parts, renamed containers.

`PROJECT.json` lists each hazard at its line, with the properties aimed at it.

### What makes each component correct

* Journal: stored balances are what the live entries add up to; nothing unbalanced is ever posted.
* Income: a hand-entered record has exactly one entry, with its facts; a row made from an invoice has none.
* Invoices: issued means in the ledger once, as the invoice reads now; paid is what the payments add up to;
  receivables in the ledger are what is owed; a settled invoice is on the income register.
* Bills: posted means in the ledger once, items against amount; payments stay within the bill; payables are
  what is owed.
* Deposits: a manual deposit leaves the bank and comes back once; a tracking deposit mirrors its bill and
  never moves money, so that what a bill charges is counted once; refunded is final.
* Bonded warehouse: the movement log, the released quantity, the stock and the duty flag tell one story.
* Clearance plans: a sync leaves the payload's containers, keeps the status of those that stay, and statuses
  move one step at a time until they are final.
* Clearance jobs: numbers of a series run without gaps; the primary B/L is the first of the list; a looked-up
  staff name is that of the assigned user.
* Chart of accounts and reports: the stored balance is the end of the ledger, under the account's present type;
  the sheet balances by the profit of the ledger; months, years and all time cover every entry once.
* Access: what is let in is granted at that moment; the cache is the table; a change of role or account takes hold in the end.
* Uploads: UPLOADED means stored as the row says; no removal leaves an object without a row; a link
  that an upload wrote shows that upload.
* Registers: one default rate; a named type exists; a status has its remark.

## 2. How the code is modelled

A request is a record `req[p]` with a program counter. **Every read whose result is used later is a step of
its own**, and **the writes of a transaction are one commit step**: under READ COMMITTED nobody sees them
before, and the guards of the commit are what the database enforces at that moment (unique numbers, rows
that must still be there). The names say which part of a handler a step is: `UpdateRead`, `UpdateFind`,
`UpdateEntryNumber`, `UpdateCommit`. `Abort(p)` ends a request at any point: a failed check, a unique
violation, a crash. A handler that writes in one statement and depends on no earlier read is one action.

Deleted rows keep their key with the value `Gone`, since ids are never reused. Texts, dates within a year
and reporting columns are dropped; amounts are integers in the smallest unit, and rounding is kept where the
code rounds. In `Invoices`, `Expenses`, `Deposits`, `BondedWarehouse` and `ClearancePlans` a **history variable**
(`contended` or `disturbed`) records which rows had requests overlapping on them, or cut off between two
commits. Several properties are claimed for the other rows only. That is not
for convenience: on overlapping requests the code does break them, and most of these overlaps have a property of
their own that states what the code says of the row and that TLC refutes (section 5). What is claimed and checked for the other rows is that *nothing
else* breaks them: not the other requests in flight, which share the journal, the numbers and the balances, and
not any sequence of requests on the row itself.

What a body may state, the model stores: the actual cost of a bill (`stated` remembers that it was given and not
computed), the place and the duty of a unit at receipt (`stated` and `since` remember the last body to name a duty,
and how long the log was), the picture of a customer or a user.

| Module | State | Remarks |
|---|---|---|
| `Requests` | `req` | the request record and its program counter, EXTENDed by every service |
| `DoubleEntry` | none (operators) | `balanceDelta`, `Balanced`, what lines and entries do to an account |
| `Journal` | none (operators) | entries, balances, numbers; EXTENDed by its users |
| `Income` | `income`, `journal`, `balance`, `used`, `req` | no history variable: its properties hold under every overlap |
| `IncomeRegister` | `book`, `postings` | what the register promises: a record and its posting change together in one step |
| `Invoices` | `invoice`, `payments`, `register`, `journal`, ... | `computeTotals` with VAT rounding and debit notes |
| `Deposits` | deposits and their requests | EXTENDed by `Expenses`, which schedules both |
| `Expenses` | `bill`, `payments`, `deposit`, `journal`, ... | bills, batches of payments, costing, the deposit reconciled after the bill's commit |
| `BondedWarehouse` | `item`, `movements`, `location`, ... | batch release; the Excel import row by row, with unvalidated quantities; the foreign keys as the migration declares them |
| `ClearancePlans` | `jobs`, `plan`, ... | `syncJobContainers` as operators on a table, used by three actions |
| `Jobs` | `job`, `customers`, `users`, ... | numbers as a series and a count; bodies with absent and null fields |
| `Books` | `account`, `journal`, ... | uses `DoubleEntry` under the account types of the moment; reports as operators |
| `LedgerLemmas` | none | facts about finite sums and about the lines of entries, for the proofs |
| `Routes` | none (operators) | every handler of every controller with the permission it asks for |
| `Access` | `grants`, `cache`, `user`, `token`, ... | the guard, the cache, sessions, users, the scripts, a restart |
| `Uploads` | `file`, `bucket`, `urls`, `link`, ... | each S3 call and each statement is a step; `Abort` after any of them; `link` says whether an upload or a body wrote it last |
| `Registers` | `rate`, `type`, `record`, `customer`, ... | three small registers that share nothing but the pattern check, then write |

The newer modules keep finer **history variables**: `torn`, `stray` and `rewritten` (`Uploads`), `stale`
(`Access`), `missed`, `chosen` and `slipped` (`Registers`), `handmade` (`Jobs`), `disturbed` (`Books`). Each names
one window in which the code does break the property: an object deleted whose row is not yet, a load overtaken
by a change, a number typed by hand. No guard reads a history variable. All of them are as narrow as the
code allows: the mutants that widen the windows by one dropped check are refuted.

Sums over rows, lines and movements are `SumFunction` of the community modules: a fold that TLC evaluates and
`LedgerLemmas` reasons about.

`MC*.tla` give the constants values; `PROJECT.json` maps every definition to its lines.

## 3. What the runs check

All runs allow the system to stop (`CHECK_DEADLOCK FALSE`): a back office without requests is idle, and the
models bound rows and entries. Symmetry is used on ids and requests only, and not in `access`, which checks liveness.

| Run | Question | Instance |
|---|---|---|
| `income` | Do register and ledger ever disagree, whatever overlaps? Does the service implement `IncomeRegister`? | 2 requests, 2 records, 3 entries, 2 years |
| `invoices` | Ledger, payments, receivables and register | 2 requests, 2 invoices, 2 payments, 3 entries |
| `expenses` | Posting, payments and payables of bills | 2 requests, 2 bills, 4 entries, 2 payments |
| `job_costing` | Bills and their deposits | 2 requests, 1 bill, 2 deposits |
| `bonded` | Stock, releases, duty, locations, imports | 2 requests, 2 items, 2 locations, 2 movements per item, a sheet of 3 rows |
| `clearance_plans` | The sync and the status moves | 2 requests, 2 jobs, 3 rows, payloads of up to 2 containers |
| `jobs` | Numbers, B/Ls and staff of jobs | 2 requests, 3 jobs, 2 customers, 2 users |
| `books` | Balances against ledger and reports | 2 requests, 3 accounts, 2 entries in 2 years |
| `access` | Grants, cache and tokens | 2 clients, 2 users, 2 roles, one route of each kind |
| `uploads` | Rows, objects and links | 3 requests, 1 file, a size within the limit and one above |
| `registers` | Tax rates, types, customer status | 2 requests, 3 rates, 2 types, 2 records, 1 customer |
| `income_edit_wedged` | Must be refuted, see section 5 | requests one after the other, 2 records |

What they show:

* `OneEntryPerIncome`, `BalancesMirrorJournal`, `ImplementsRegister`: for income, deleting and re-posting an
  entry inside the commit is safe even when two edits found the same entry, *because* the second delete
  finds no row and fails the whole transaction. The mutant that drops this check breaks them.
* `PaidIsOnRegister`: what survives every overlap of invoice requests.
* `LedgerMatchesInvoice`, `BalancesMatchPayments`, `ReceivableIsWhatIsOwed`: what holds of invoices whose own
  requests do not overlap, through issue, edit after issue, part payment and settlement.
* `BillMatchesLedger`, `PaidWithinAmount`, `PayableIsWhatIsOwed`: a bill is posted once whether approval or
  the first payment comes first, also when one batch pays it twice.
* `DepositOnTheBooks`, `TrackerMirrorsBill`, `RefundedIsLocked`, `ChargedOnce`: a deposit follows its
  bill through creation, resizing and clearing; refunds bring the money back once; and the computed actual cost of a
  bill and the money its deposit holds, written in two transactions, together are its amount and tax.
* `ReleasesAddUp`, `StockAddsUp`, `ReleasedWithinReceived`, `EmptiedIsReleased`: the bonded stock through partial
  releases, batch releases and quantity edits. `DutyIsAccountedFor`: an item is PAID because the last body that named
  its duty said so or a release since was under duty payment, and for no other reason, under every overlap.
* `ImportedInPlace`, and `StockAddsUp` for what was imported: rows of a sheet are skipped, take the location of their name, found or
  made, or none, whatever is done to locations since the import looked, and a negative quantity is never stock.
* `SyncMatchesPayload`, `KeptRowsKeepStatus`, `StatusMovesOneStep`: containers through
  syncs with ids, foreign ids, no ids and two spellings of one number, while statuses move in between.
  The first two exclude payloads whose containers resolve to one row (section 5).
* `NumbersConsecutive`: a series in which nobody typed a number has no gap, although every create counts
  without a lock: the unique index fails all but one of the creates that counted the same.
* `PrimaryIsFirst`, `NameIsAssigned`: B/Ls and staff names through bodies with either, both or no field.
* `LedgerEndsAtBalance`: a change of account type recomputes the balance so that postings before and after it agree.
  `RetainedEarningsAreProfit`, `TrendAddsUp`: three reports that are computed apart tell the same figures.
* `CacheIsCurrent`, `ServedWithinGrants`: the memory holds the table except in two windows, a load overtaken by a
  change or a script (`stale`) and a change between its commit and its drop; outside these, a request to any route of
  any controller is let in only while the table grants the route's own permission to the role in its token. In every
  state, reserved routes are for SUPER_ADMIN and no write is let in for a permission to look.
  `RoleChangeTakesHold` (liveness): once a user's row stays as it is, all tokens agree with it in the end, because
  refresh reads the row.
* `UploadedIsStored`, `ObjectHasRow`, `LinkShowsUpload`: the order put, insert, link and delete object, delete row is
  enough to never lose an object and to show, where an upload wrote the link last, what was uploaded for that very
  owner, with any of the calls missing.
* `DefaultIsSingle`, `NamedTypeExists`, `StatusHasRemark`: checks that are made before the write still hold after it,
  outside the named windows.

Every module states a type invariant. Those of `Income`, `Invoices`, `BondedWarehouse`, `Access`, `Jobs`, `Uploads`,
`Registers`, `Books` and `ClearancePlans` are proved; that of `BondedWarehouse` is in a run as well. The type
invariants of `Income`, `Invoices`, `Expenses`, `ClearancePlans` and `Books`, `BalancesMirrorJournal` and
`PaymentsPosted` of `Invoices` and `SyncIdempotent` of `ClearancePlans` hold on the instances above too; they say less
than the properties listed, and are not part of the standing runs. Add the name to the `INVARIANTS` of the cfg to check one.

### Bounds

Two requests are what every overlap in this code needs: each handler races with one other. (`uploads` has three: a
removal, a confirmation and the reset meet on one file.) Two rows of each kind are what number collisions, batches
and shared balances need; three jobs are what a gap needs. Amounts are chosen so that a part payment,
an exact one, one too many, and a half cent of VAT occur. Where two requests *and* two rows are too many
states together, a named CONSTRAINT of the MC module splits the space and says so: `OverlapsOnOneInvoice`,
`OverlapsOnOneBill` and `OverlapsOnOneDeposit` explore overlaps on a row while it is the only one, and with two rows let the
requests work on different ones; `Moderate` in `MCBonded`, `MCPlans` and `MCJobs` does the same for items,
containers and updated jobs; in `MCBonded` items come by a sheet or by bodies, since both are the same rows afterwards. In `MCPlans` one sync at most is in flight, because of two overlapping syncs of one job
nothing is claimed, and two of different jobs touch different rows. `OneRegister` lets one of the three registers
move at a time: they share no table. `Apart` in `MCAccess` varies either the users or the grants; a role in a token
and a grant of the role meet in both halves. `OneChanged` in `MCBooks` has one account at a time differ from the chart.
`MaxEntries`, `MaxPayments` and `MaxMovements` are guards of the actions that add a row; elsewhere the sets of ids
are the bound, and `Copies` bounds the suffix of a type's code. The Symmetry sets and the model values are in the
cfg files.

### Fairness

`Access` assumes weak fairness of `Continue(p)`, the next step of a request that has arrived, and of `Expire(t)`. The
first is what Node gives: an awaited query settles, with a result or an error (`Abort` is part of `Continue`), and the
handler goes on. The second is the `exp` claim of every token (`JWT_EXPIRY`, 7 days by default). Nobody has to send a
request: `Arrive` has no fairness. One process serves all requests, so one cache is the whole cache.

No other module states fairness or liveness: the code has no timers, queues or retries, so nothing else happens
unless a client asks for it, and a request that is refused is never tried again.

## 4. What is proved

`IncomeProofs.tla` proves, for any number of requests, records, entries, years, accounts and amounts:

* `TypeCorrect`: `Spec => []TypeOK`;
* `IncomePostedOnce`: `Spec => []OneEntryPerIncome`;
* `BalancesAlwaysMirror`: `Spec => []BalancesMirrorJournal`;
* `IncomeRefinesRegister`: `Spec => ImplementsRegister`, that is, each step of the service is a step of
  `IncomeRegister` or changes nothing it shows.

Assumptions: `IncomeAssumption` and `NoneAssumption` of `Income` (finitely many record ids, integer amounts,
accounts that exist, typed request bodies; `None` is no value of any column), which TLC evaluates in every run.

The argument. `OneEntryPerIncome` is not inductive by itself: an edit in flight holds the entry it found, and
when it commits it must be known that this was *the* entry of the record. `IInv` therefore adds that every
entry's id was drawn before (`e.id \in used`, so a fresh id is not in the journal) and `RequestOK`: an edit
found exactly one entry, of its own record, and if that entry is still in the journal when it re-posts then
the year its number was drawn for is still the year the record will have. `InitIInv` and `NextIInv` prove it
inductive, with one lemma per action. Requests that only read share the lemma `RequestStep`. For the
refinement, `PostingsExpected` shows that under `IInv` the postings are a function of the rows, so that each
commit maps to one step of the register.

`BondedProofs.tla` proves, for any number of requests, items, locations, names, quantities and bodies:

* `BondedTypeCorrect`: `Spec => []TypeOK`, which includes that no item refers to a location that is gone;
* `StockAlwaysAddsUp`: `Spec => []StockAddsUp`; `ReleasesAlwaysAddUp`: `Spec => []ReleasesAddUp`;
* `DutyAlwaysAccountedFor`: `Spec => []DutyIsAccountedFor`, disturbed items included;
* `EmptiedGoesToReleased` (`EmptiedIsReleased`), `ReleasesWithin` (`ReleasedWithinReceived`) and `ImportsGoInPlace`
  (`ImportedInPlace`), action properties.

Assumptions: `BondedAssumption` and `NoneAssumption` of `BondedWarehouse`: natural quantities in the bodies that are
validated and any integer in a cell of a sheet, a movement of at least one unit (`@Min(1)` of the body), `RELEASED`
is a possible name, `None` and `Gone` are no values of any column.

The argument. A commit writes quantities that follow from a row read earlier, so `StockAddsUp` needs to know that
the row has not changed in between. `IInv` says so with two parts: `Exclusive`, what two requests hold at the
same time is in `disturbed`, and `Fresh`, the stock of a row that is not `disturbed` is what its holder has read.
`RequestOK` adds what the checks before the write have established: a release fits the stock that was read, and
a request knows a RELEASED location exactly if it takes the last unit. `LocationOK` follows that location until
the commit: it still has the name, unless it was deleted, and then the foreign key stops the commit. A release that
passes these has `quantity - releasedQty` units left, which is where `Max({0, _})` is needed (`StockLeft`). `ItemOK`
ties the row to its log: the released quantity is the sum of the log, which one movement changes by its
quantity, and the duty flag to the last body that named one and the releases under duty payment logged after it,
which holds for disturbed items too, because a commit settles duty on the row as it is. For imports `RowOK` keeps the row that is worked on and `LocationOK` the name it gives; the
import is why `StockRight` speaks of negative quantities: such a row has no stock, and no release gets past its check.
Requests that read share `RequestStep`, commits share `CommitRequests` and `RowsStep` or `LocationsStep`,
operations that happen at once share `RequestsKept`.

`AccessRegistersProofs.tla` proves of `Access`, for any routes, users, roles, bodies and number of requests:

* `AccessTypeCorrect`, `CacheStaysCurrent` (`CacheIsCurrent`) and `AlwaysServedWithinGrants` (`ServedWithinGrants`).

The argument. `ServedWithinGrants` is about the step that lets a request in. That step asks the cache, or what the
request itself has just loaded, so it needs both to be the table: `CacheIsCurrent`, and `LoadsAreCurrent`, that what a
load has read is the table unless it was overtaken, and then `stale` says so until the next drop. `RequestOK` says how
far a request is and what it holds by then; the rest are facts about the decorators of all controllers.

`JobsPlansUploadsProofs.tla` proves of `Jobs`, for any jobs, requests, bodies, customers and users:

* `JobsTypeCorrect`, with the foreign keys; `JobNumbersConsecutive`; `PrimaryAlwaysFirst`; `NameAlwaysAssigned`.

The argument for the numbers. Jobs are never deleted, so the count a request took can only fall behind: the number it
holds is at most one more than the jobs its series has by now. A number that is free and at most one more than a run
without gaps is the next one, and the unique index admits no other. This uses facts about cardinalities of finite
sets from the library, and no sums. For the name: an update in flight without a name assigns a user that was gone
when it looked, and users do not come back, so the foreign key stops it.

`JobsPlansUploadsProofs.tla` proves of `Uploads`, for any files, sizes, owners, bodies and requests:

* `UploadsTypeCorrect`, `UploadedAlwaysStored`, `ObjectsHaveRows`, `LinksShowUploads`.

The argument. What a request knows of its file stays true under the others, and `RequestOK` says how far: a row that
is being inserted belongs to one request alone (`Alone`, since keys are fresh), a size that was measured is that of
the object unless the client put again (`outdated`) or it was deleted (`torn`), and an object deleted ahead of its
row comes back only as a stray. `Moves` and `Keeps` say what a step may do to a file; each action is shown to do no
more, and `StaysOK` carries every other request over. A link that an upload wrote needs only that rows keep their owner
and leave UPLOADED by being removed; a body that writes a link takes it out of what is claimed.

`JobsPlansUploadsProofs.tla` proves of `ClearancePlans`, for any jobs, rows, containers, payloads and requests:

* `PlansTypeCorrect`; `StatusesMoveOneStep` (`StatusMovesOneStep`), for rows not moved or removed under the request;
* `SyncsMatchPayloads` (`SyncMatchesPayload`) and `KeptRowsAlwaysKeepStatus` (`KeptRowsKeepStatus`), for syncs that no
  other write came between and payloads whose containers go to different rows. These three are action properties.

The argument. A sync writes row after row, and each write may fail at the unique index, so `Replaced` follows the
tables from place to place of the payload by a recursive function. `AfterExists` shows that this function is what
its equation says, by induction up to a bound (`UpTo`, from the well-foundedness of strict containment), and
`Rewrites` that what every write passes on holds at the end. With that, `SyncedTyped` shows that no write touches the
status of a row that was there, and `SyncedRows` what each row is afterwards, if no two containers go to one.
`FoundRows` is what a sync found when it read: targets are rows of the job, a container without one has a number no
row has, and the rows to be dropped are the others. `WaitingKnows` shows it once for all actions: what a request read
has either not changed or its job is in `disturbed`.

`AccessRegistersProofs.tla` proves of `Registers`, for any rates, types, records, customers and requests:

* `RegistersTypeCorrect`, with the unique columns; `OneDefault`; `NamedTypesExist`; `StatusesHaveRemarks`.

The argument. Each of them needs that what a request decided by is still so unless the request is `outdated`: a rate
under removal is not the default, no record names a type under removal, a type that was looked up is there, a
status change has its remark. `Survives` shows that a request that is only answered or outdated keeps this,
`RateWritten` and `TypeWritten` reduce each writer to what it does to its own table.

`InvoicesProofs.tla` proves, for any number of requests, invoices, bodies, accounts and years:

* `InvoicesTypeCorrect`; `PaidAlwaysOnRegister` (`PaidIsOnRegister`), under every overlap;
* `LedgerAlwaysMatches` (`LedgerMatchesInvoice`), for invoices whose own requests do not overlap;
* `AmountsAlwaysSettled`: for these, what is due is the total less what is paid, never negative, and the status is
  the one the two imply; `BalancesAlwaysMatchPayments` (`BalancesMatchPayments`): what is paid is the sum of the
  payment rows;
* `BalancesAlwaysMirror`: every stored balance is the sum of the lines of the entries, under every overlap;
* `ReceivableAlwaysOwed` (`ReceivableIsWhatIsOwed`), if no payment is paid into accounts receivable itself.

The argument. A commit writes what follows from a row that was read earlier. `Knows` says what a request still knows
when it writes: the row of an invoice outside `contended` is the one it read, with the status its handler checked,
and an edit that found entries to reverse found all there are. `Overlapping \subseteq contended` gives the exclusion
of two requests on one invoice; other requests change the journal only at references of their own. `NoStrayEntry`
adds that no entry refers to an invoice that is not there yet, so that one that is created starts without any.

`ExpensesProofs.tla` proves, for any number of requests, bills, deposits, bodies, batches and years:

* `LedgerHoldsEachBill` (`BillMatchesLedger`) and `RefundedStaysLocked` (`RefundedIsLocked`, an action property), for
  bills and deposits without overlaps;
* `NeverOverpaid` (`PaidWithinAmount`), for bills without overlaps;
* `DepositsAreOnTheBooks` (`DepositOnTheBooks`), for deposits without overlaps, if none is held on the bank account;
* `PayablesAreOwed` (`PayableIsWhatIsOwed`), if accounts payable is a liability and no bill, item, deposit or paying
  bank account is booked to it (`PayablesApart`);
* `TrackersMirrorBills` (`TrackerMirrorsBill`) and `BillsAreChargedOnce` (`ChargedOnce`), for bills without overlaps.

The argument. A payment transaction posts bills on its way and commits them all at the end, so what it has written and
not committed must be part of the invariant: `Knows` says that each bill in `own.entries` is there, is not posted yet
and has one entry in `own`, with its lines. A check that `updating`, `rejecting`, `deleting` and `posting` rest on still
holds at the write, and a deposit about to be written is there and not refunded. `BillMet` and `DepositMet` turn two
requests on one row into `disturbed`; `TableStep` carries all requests over a commit, `RequestStep` over a read. For
the actual cost, `RowOK` says that it is computed from the amount, tax and deposit of the very row unless the body
stated it, which holds under every overlap since each write has all four columns; `BillsAreChargedOnce` puts it
together with the mirror of the deposit.

Payments and deposits have invariants of their own on top of `IInv`. `PayInv` says that a transaction's uncommitted
payments, together with the committed ones, fit the bill at each step of the batch (`KnowsPaid`): that is what a second
payment of the same bill in one batch needs, and it is why posting first and paying later in the same batch agree on
the amount. `DepositInv` ties a deposit that is not refunded to its one entry and a refunded one to that entry and its
reversal (`BookedOnce`, `BookedBack`), and says that a status move still sees the row it read and that a sync only
resizes or removes tracking deposits. Its hypothesis `NoSuchRow` says that `None` and `Gone` are not rows.

`DueInv` compares the balance with a sum over the bills of what each is owed (`Owed`). A batch holds entries that are
not in the journal and payments that are not in the bill: `OwnOK` says that what its own entries add to the balance is
what its bills will be owed more when it commits, so the commit moves both sides by the same.

`SyncInv` is about the moment between a bill's commit and that of its tracking deposit, when the two differ and
`TrackerMirrorsBill` says nothing. At each moment a bill of a job is mirrored by its deposit, or some request is on its
way to make it so (`Syncs`), with the amount the bill has now and with what it found (no tracking deposit, or this one)
still true. Then each write of a sync settles its bill, and no bill has two tracking deposits. A status move writes a
deposit and not the bill, so it must be seen to disturb the bill when it meets a sync: `Ties` says that a request that
touches a deposit touches the bill it tracks, and `TiedToBill` that a disturbed deposit has a disturbed bill. The
deposit of an undisturbed bill then only leaves the sync's hands by being refunded.

`BooksProofs.tla` proves, for any chart of accounts, postings, bodies, entries and number of requests:

* `BalancesEndLedgers` (`LedgerEndsAtBalance`), `TrendsAlwaysAddUp` (`TrendAddsUp`), `SheetShowsProfit`
  (`RetainedEarningsAreProfit`), and `TypeCorrect`.

The argument. `Knows` says that an entry to be posted has a fresh key and is balanced, on accounts that exist, and that
an entry to be reversed is as it was found or gone, so that `LedgerGrows` and `LedgerShrinks` give the change of a
ledger by one entry, which is what the increments add when the types did not change in between; a type that changed
puts the account into `disturbed`. The reports are equations between sums over the same entries: months are a
partition of years and years of all time (`SumByKey`), and each entry, being balanced, moves assets less debts and
equity by what it moves revenue less expense (`DeltaBySign`), summed over the accounts by exchange of two sums.

**Sums.** What is proved of balances and totals rests on `LedgerLemmas.tla`. The library's sums are folds over recursive functions, and its
theorems about recursion and induction take operators as parameters, which the provers here cannot instantiate.
`LedgerLemmas` goes around them: a sum is read off a table over all subsets (`SumTable`), the table exists and is
unique (`TableExists`, `TablesAgree`), by induction over finite sets in a form that quantifies over a set of subsets
(`SetInduction`), which follows from the well-foundedness of strict containment. From that come the sums with one
element more or less, of two functions added, by key, and exchanged; and `DeltaOfOne`, `EntryCancels`,
`TotalDeltaAdds`, `TotalDeltaDrops` and their like for journal entries.

`RowsAssumption` says that `None` and `Gone` are not bills, `NoPlanAssumption` that `None` and `Removed` are not
container rows, `IdsAssumption` that no bill is a deposit, since ids are unique and one history holds both; and
`ChartAssumption` that accounts receivable is an asset and neither the revenue nor the VAT account, as the seeded chart
has it.

The assumptions are otherwise those the modules name (`AccessAssumption`, `PlansAssumption`, `AbsentAssumption`, `JobsAssumption`,
`BodiesAssumption`, `BooksAssumption`, `UploadsAssumption`, `RegistersAssumption`, `InvoicesAssumption`, `DepositsAssumption`,
`ExpensesAssumption`, `NoneAssumption`): sets of ids are finite where they are counted,
`None`, `Gone` and `Absent` are no values of a column, bodies have the types their DTOs declare. TLC evaluates all of
them in the runs.

What stays with TLC: `RoleChangeTakesHold`, which is liveness; and, among the properties outside the standing runs,
`SyncIdempotent`. Every other property of a passing run is stated by a theorem.

## 5. What the runs found

One standing run must be refuted: `income_edit_wedged` checks `EditCanPost`, that the number an edit asks for is free
when requests are served one after the other. Edit any record but the last of its year: its entry is deleted, the
count shrinks by one, and the number it asks for is taken. The edit fails every time.

The modules state further properties that the code, a comment or a message promises and the code does not keep. They
are not part of the standing runs; each is refuted when its name is added to the cfg of the run in the last column
(the action properties under `PROPERTIES`). What one request does to itself, or a load of the grants and a change:

| Property | Words in `src/` | What happens | Add to |
|---|---|---|---|
| `GrantsTakeEffect` | "invalidated on write" (`permissions.service.ts:8`) | A load reads the grants, a change commits and drops the cache, the load stores the old grants: they are in force until the next change or restart. | `access` |
| `VoucherAddsUp` | "amount = sum of item amounts" (`expense.prisma:85`) | PATCH `amount` of an itemised voucher leaves the items; it can no longer be approved or paid. | `expenses` |
| `TrackerFollowsJob` | "so the deposit tracker always mirrors the cost line" (`deposits.service.ts:161`) | A bill moved to another job leaves its deposit under the old one. | `job_costing`, with `UpdateDtos <- MoveDtos` |
| `LinkedLocationStays` | "has linked items or movements and cannot be deleted" (`warehouse-locations.service.ts:93`) | Deleting a location in use succeeds and blanks it on the stock: the keys are `ON DELETE SET NULL`. | `bonded` |
| `SyncLosesNothing` | "to match `containers`" (`container-sync.ts:25`) | Rename container A's row to B and add a new A in one save: both resolve to one row and one container is lost. | `clearance_plans` |
| `ExactlyOneDefault` | "Exactly one row is the default" (`tax.prisma:42`) | PATCH the default tax rate with `isDefault: false`: there is none. | `registers` |

The others are what overlapping requests on one row do, since nothing is locked and nothing is asked again at the
write. Each is the window that a history variable excludes from the properties of section 3:

| Property | Words in `src/` | What happens | Add to |
|---|---|---|---|
| `NeverOverpaid` | "exceeds balance due" (`invoices.service.ts:423`) | Two payments read the same balance; both are booked, one is lost from `paidAmount`. | `invoices` |
| `IssuedIsPosted` | "must be re-posted" (`invoices.service.ts:331`) | An edit that read DRAFT overwrites an invoice issued meanwhile; its entry keeps the old amounts. | `invoices` |
| `BillNeverOverpaid` | "Payment exceeds outstanding balance" (`expense.service.ts:553`) | Two payments of one bill both fit what was outstanding. | `expenses` |
| `PostedAmountStays` | "Posted expense records cannot be edited" (`expense.service.ts:284`) | An edit read before the approval changes the amount of a posted bill. | `expenses` |
| `RefundedIsTerminal` | "Refunded is terminal" (`deposits.service.ts:270`) | A step back that was read before the refund re-opens a refunded deposit. | `job_costing` |
| `OnlyStockIsReleased` | "only ... remain in stock" (`bonded-warehouse.service.ts:171`) | Two releases both fit the stock; more units leave than there were. | `bonded` |
| `CompletedIsTerminal` | "Completed is terminal" (`clearance-plans.service.ts:192`) | A step back that was read before completion re-opens a completed container. | `clearance_plans`, with one job and one row and without its `CONSTRAINT` |
| `BalanceIsThatOfLedger` | "keeping it consistent with what the ledger drill-down shows" (`accounts.service.ts:60`) | A posting increments a balance with the sign of the type the account had before. | `books` |
| `UsedTypeStays` | "is used by income records and cannot be deleted" (`service-types.service.ts:101`) | A record is written between the count of a type's records and its removal. | `registers` |

`QuantitiesNatural` of `BondedWarehouse` is refuted when it is added to `bonded`: "@Min(0) quantity" of the item body
(`create-bonded-item.dto.ts:111`) is not asked of a cell, so an imported row may have less than nothing.

Known as well, visible in the models as what the history variables exclude:

* two finalize requests, or an approval and a payment, post twice; two reconciliations of one bill make two deposits;
  a sync that another write came between leaves what its ids still find;
* a PATCH with `blBookingNumber: null` clears the primary B/L and leaves the list (`PrimaryIsFirst` excepts it);
* a rate removed by hand and seeded again, or a rate created while another is made the default, leaves two defaults;
* `createFromInvoiceTx` writes the type `OTHER` without looking whether there still is one;
* the seed script sets account types back without recomputing balances; its demonstration rows are POSTED without
  journal entries, so reports over them and balances differ from the first day;
* a client may put other bytes to a presigned URL after the size was confirmed; links to a picture stay when the
  picture is removed (`LinkShowsUpload` excepts the second);
* an invoice that comes to zero can never become PAID, since payments must be positive and within the balance;
* a deleted cost line leaves its deposit behind with no source.

## 6. Not modelled

* *Tax filings*: DRAFT to FILED in one guarded write that posts nothing.
* *Bank reconciliation*: a statement and its lines are written and deleted as one, and nothing refers to them. Its
  number is a row count, like those of `Journal.NextNumber`, and collides in the same way after a deletion.
* *Audit log*: one insert after each commit. A crash between the two loses the line; nothing but the list reads it.
* *Telegram*: fire-and-forget messages with a window of 60 s per error; nothing depends on them.
* *Payments list, exports, vouchers in PDF and Excel*: reads and layout.
* *Bootstrap, configuration, health, the exception filter*: wiring.
* *Suppliers, the columns of customers, the company profile*: rows that no operation decides by.
* *Listings of costing, deposits and bills*: sums over rows whose correctness the properties state.

## 7. How it was built, and what could follow

In this order: `Journal`, `Income` with its proofs; `Invoices`; `Expenses` with `Deposits`; `BondedWarehouse` with its
proofs; `ClearancePlans`; `Routes` and `Access` with their proofs; `Jobs` with its proofs; `Books`; `Uploads` and
`Registers` with their proofs; the proofs of `Invoices` and of `Expenses` with `Deposits`; `LedgerLemmas`, with the
proofs that need sums: balances, receivables, the movement log, the reports; the Excel import with its proofs; the
proofs about payables and tracking deposits, and about container syncs.

What could follow: abstract specifications for a settled invoice and for a stock item, with `Invoices` and
`BondedWarehouse` shown to implement them for rows without overlaps; a proof that `syncJobContainers` is idempotent
(`SyncIdempotent`).
