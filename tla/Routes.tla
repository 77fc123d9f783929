------------------------------- MODULE Routes -------------------------------
(***************************************************************************)
(* The HTTP surface: every handler of every controller with the permission *)
(* its decorators ask for.  A handler's own @RequirePermission overrides   *)
(* that of its class; without either the route is open to every            *)
(* authenticated user.  A permission key `module.capability` is the pair   *)
(* <<module, capability>>.                                                 *)
(***************************************************************************)
EXTENDS Requests, FiniteSets

View(m)   == <<m, "view">>
Edit(m)   == <<m, "edit">>
Action(m) == <<m, "action">>

----------------------------------------------------------------------------
(* The catalog *)

MODULES ==
    [operation  |-> {"view", "edit", "action"},
     accounting |-> {"view", "edit", "action"},
     documents  |-> {"view", "edit", "action"},
     reports    |-> {"view"},
     settings   |-> {"edit"},
     users      |-> {"view", "edit"},
     audit      |-> {"view"}]

ALL_PERMISSIONS == UNION {{m} \X MODULES[m] : m \in DOMAIN MODULES}

DEFAULT_ROLE_PERMISSIONS ==
    [ACCOUNTING |-> ({"accounting", "documents"} \X {"view", "edit", "action"})
                       \cup {View("operation"), View("reports"), View("audit")},
     OWNER      |-> {"operation", "accounting", "documents", "reports", "audit"} \X {"view"},
     OPERATION  |-> ({"operation"} \X {"view", "edit", "action"})
                       \cup {View("documents"), Edit("documents")}]

\* Keys that are asked for but that no role can be granted.
Reserved == {<<"roles", "manage">>, <<"users", "delete">>}

----------------------------------------------------------------------------
(* Controllers *)

\* What follows builds a controller from handlers that share their decorators.
Handlers(name, class, own, writes, names) ==
    [controller : {name}, handler : names, class : {class}, own : {own},
     writes : {writes}, public : {FALSE}]

\* @Public(): no token is asked for.
Public(name, writes, names) ==
    [controller : {name}, handler : names, class : {None}, own : {None},
     writes : {writes}, public : {TRUE}]

Reads(name, class, names)       == Handlers(name, class, None, FALSE, names)
Writes(name, class, own, names) == Handlers(name, class, own, TRUE, names)

\* Mutant: the writes of a table are left under the permission of its class.
CrudByClass(name, m, edits) ==
    Reads(name, View(m), {"findAll", "findOne"}) \cup Writes(name, View(m), None, edits)

\* A list, a row of it, and the writes of rows.
Crud(name, m, edits) ==
    Reads(name, View(m), {"findAll", "findOne"}) \cup Writes(name, View(m), Edit(m), edits)

AccountsController ==
    Crud("accounts", "accounting", {"create", "update"})
        \cup Reads("accounts", View("accounting"), {"ledger"})

AuditController == Handlers("audit-logs", None, View("audit"), FALSE, {"findAll"})

BankReconciliationController ==
    Crud("bank-reconciliation", "accounting", {"create", "update", "remove"})
        \cup Reads("bank-reconciliation", View("accounting"), {"export"})

BondedWarehouseController ==
    LET writes(own, names) == Writes("bonded-warehouse", View("operation"), own, names)
    IN  Reads("bonded-warehouse", View("operation"),
              {"findAll", "findOne", "summary", "export", "summaryExport"})
          \cup writes(Edit("operation"),
                      {"create", "import", "createShipment", "updateShipment", "update"})
          \cup writes(Action("operation"), {"batchRelease", "remove", "addMovement"})

ClearancePlansController ==
    Crud("clearance-plans", "operation", {"create", "syncForJob", "update", "remove"})
        \cup Reads("clearance-plans", View("operation"), {"export"})
        \cup Writes("clearance-plans", View("operation"), Action("operation"), {"updateStatus"})

CostingController ==
    Reads("costing", View("accounting"), {"list", "statement"})
        \cup Writes("costing", View("accounting"), Edit("accounting"),
                    {"addCostLine", "updateCostLine", "deleteCostLine",
                     "addIncomeLine", "updateIncomeLine", "deleteIncomeLine"})

CustomersController == Crud("customers", "operation", {"create", "update", "remove"})

DepositsController ==
    Crud("deposits", "operation", {"create"})
        \cup Writes("deposits", View("operation"), Action("operation"), {"updateStatus"})

ExpenseTypesController == Crud("expense-types", "accounting", {"create", "update", "remove"})

ExpenseController ==
    Crud("expenses", "accounting", {"create", "update", "approve", "reject", "pay", "payBills"})
        \cup Reads("expenses", View("accounting"), {"export", "voucherExcel", "payables"})

IncomeController ==
    Crud("income", "accounting", {"create", "update", "approve", "reject"})
        \cup Reads("income", View("accounting"), {"export"})

InvoicesController ==
    Crud("invoices", "accounting", {"create", "update"})
        \cup Reads("invoices", View("accounting"), {"export", "invoiceExcel"})
        \cup Writes("invoices", View("accounting"), Action("accounting"),
                    {"finalize", "recordPayment"})

JournalController ==
    Reads("journal-entries", View("accounting"), {"findAll"})
        \cup Writes("journal-entries", View("accounting"), Edit("accounting"), {"create"})

OperationsController ==
    Crud("clearance-jobs", "operation", {"create", "update"})
        \cup Reads("clearance-jobs", View("operation"), {"nextNumber"})

PaymentsController == Reads("payments", View("accounting"), {"findAll"})

PermissionsController ==
    Reads("permissions", <<"roles", "manage">>, {"catalog", "matrix"})
        \cup Writes("permissions", <<"roles", "manage">>, None, {"setRole"})

ReportsController ==
    Reads("reports", View("reports"),
          {"profitLoss", "balanceSheet", "incomeSummary", "expenseSummary",
           "aging", "taxSummary", "monthlyTrend", "export"})

ServiceTypesController == Crud("service-types", "accounting", {"create", "update", "remove"})

SettingsController ==
    Reads("settings", None, {"listTaxRates", "getCompanySettings"})
        \cup Writes("settings", None, Edit("settings"),
                    {"createTaxRate", "updateTaxRate", "setDefaultTaxRate",
                     "removeTaxRate", "updateCompanySettings"})

SuppliersController == Crud("suppliers", "operation", {"create", "update", "remove"})

TaxController ==
    Reads("tax-filings", View("accounting"), {"findAll"})
        \cup Writes("tax-filings", View("accounting"), Edit("accounting"), {"create"})
        \cup Writes("tax-filings", View("accounting"), Action("accounting"), {"submit"})

TelegramController == Writes("telegram", None, None, {"sendTest", "sendMessage"})

UploadsController ==
    Reads("uploads", View("documents"), {"getUrl", "findAll"})
        \cup Writes("uploads", View("documents"), Edit("documents"),
                    {"create", "presign", "confirm", "update"})
        \cup Writes("uploads", View("documents"), Action("documents"), {"remove"})

UsersController ==
    Crud("users", "users", {"create", "update", "resetPassword"})
        \cup Writes("users", View("users"), <<"users", "delete">>, {"remove"})

WarehouseLocationsController ==
    Crud("warehouse-locations", "operation", {"create", "update", "remove"})

AuthController ==
    Public("auth", TRUE, {"register", "login"})
        \cup Reads("auth", None, {"me"}) \cup Writes("auth", None, None, {"refresh"})

HealthController == Public("health", FALSE, {"check"})

AppController == Public("app", FALSE, {"getHello"})

Controllers ==
    {AccountsController, AppController, AuditController, AuthController, BankReconciliationController,
     BondedWarehouseController, ClearancePlansController, CostingController,
     CustomersController, DepositsController, ExpenseController, ExpenseTypesController,
     HealthController, IncomeController, InvoicesController, JournalController,
     OperationsController, PaymentsController, PermissionsController, ReportsController, ServiceTypesController,
     SettingsController, SuppliersController, TaxController, TelegramController,
     UploadsController, UsersController, WarehouseLocationsController}

Routes == UNION Controllers

\* getAllAndOverride([handler, class]).
Required(route) == IF route.own # None THEN route.own ELSE route.class

=============================================================================
