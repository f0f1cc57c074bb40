# Verification of the petrol pump management system

This directory holds TLA+ models of PPMS, the back office of petrol stations
(a FastAPI service over SQLAlchemy in `ppms/app`, a Flutter client in
`ppms_flutter`), the TLC configurations that check them on small stations, and
proofs, checked by TLAPS, of some of their properties for every station.

Everything below refers to the back end. The client keeps no records of its own.
Paths are relative to the root of the repository; `services/x.py` is short for
`ppms/app/services/x.py`, `api/x.py` for `ppms/app/api/x.py`.

Contents: [inventory](#1-inventory) · [modules](#2-modules-and-how-they-correspond-to-the-code) ·
[runs](#3-runs) · [disagreements](#4-where-code-and-words-disagree) ·
[proofs](#5-proofs) · [limits](#6-what-is-only-model-checked-and-what-is-left-out) · [plan](#7-plan)

## 1. Inventory

All state is in one SQL database. A handler is a function in `api/`, which checks
the permission and calls a function of `services/`, which checks, changes rows and
commits. Handlers are plain functions: FastAPI runs them in a thread pool, so two
requests really overlap; each has a session of its own (`core/database.py`). No
query takes a row lock, no model has a version column.

| Component | State | Operations | Interacts with | What makes it correct |
|---|---|---|---|---|
| Fuel sales, nozzle meters (`services/fuel_sales.py`, `services/nozzle_meter.py`) | `fuel_sales`, `meter_adjustment_events`, `nozzles.meter_reading`, `.current_segment_start_reading` | create, reverse, request / approve / reject reversal, adjust a meter | takes litres from the nozzle's tank, raises a credit customer's balance, consumes an override, posts to a shift | the tank and the meter are explained by the documents; a sale is undone once |
| Shifts (`services/shifts.py`) | `shifts` | open, close (totals of the sales posted to it) | reads sales | one open shift per user; the totals of a closed shift stay true |
| Purchases (`services/purchases.py`) | `purchases` | create, approve, reject, reverse, request / approve / reject reversal | adds litres to a tank and raises a supplier's payable, when approved | counts once, only when approved; can be undone only while the litres and the debt are there |
| Tank dips (`services/tank_dips.py`) | `tank_dips` | record | sets a tank's volume | the loss or gain accounts for the jump |
| Payments (`services/payments.py`) | `customer_payments`, `supplier_payments` | create, reverse, request / approve / reject reversal, twice | lower and raise the balances | never more than is owed; nobody owes a negative amount |
| Customers and credit overrides (`services/customers.py`) | `customers.credit_limit`, `.credit_override_*` | set the limit; request, approve, reject an override | fuel sales check and consume it | a sale never takes a balance past limit and override |
| Ledgers (`api/ledger.py`) | none (a query) | customer, supplier | reads sales, purchases, payments | final balance = stored balance |
| Deliveries (`services/notifications.py`, `financial_documents.py`, `delivery_queue.py`, `delivery_worker.py`, `delivery_channels.py`) | `notification_deliveries`, `financial_document_dispatches` | create and attempt, retry, process what is due, the worker's loop | called inside other handlers' transactions; calls SMTP and HTTP providers | sent at most once, retried a bounded number of times, settled at last |
| Permissions (`core/permissions.py`, `core/access.py`) | users and roles | checks | guards every handler | station staff propose, administrators and head office decide |
| Sessions of the database (`core/database.py`) | identity map, buffered changes | query, flush, commit, close | every handler | see "overlap" below |
| Tanker trips (`services/tanker_ops.py`) | trips, deliveries, trip expenses | create, add delivery or expense, complete | completing posts an approved purchase, or raises customers' balances | completed once; its amounts are those of its deliveries |
| Point of sale (`services/pos.py`, `api/pos_product.py`) | `pos_products.stock_quantity`, `pos_sales` with `pos_sale_items` | create, edit, delete a product; sell, reverse | – | the stock is explained by the sales, which are reversed once |
| Expenses (`services/expenses.py`, `api/expense.py`) | `expenses` | create, update, delete, approve, reject | reports and dashboard sum the approved ones | what counts was decided by somebody else and is final |
| Log-in sessions (`services/auth_sessions.py`) | `auth_sessions`, lock-out counters | log in, refresh, log out, log out everywhere else, change or reset the password | every request | a refresh token works once; a session that was logged out stays so; no lock is lifted by accident |
| Attendance, payroll, profiles (`services/attendance.py`, `payroll.py`, `employee_profiles.py`) | `attendance_records`, `payroll_runs` with lines, `employee_profiles` | check in / out, enter, edit; make and finalize a run; create, edit, delete a profile | payroll reads attendance and the staff of a station; profiles are linked to users | one record a day; nobody is paid more days than there are; a run stays as it was made; a profile fits its user |
| Equipment (`api/tank.py`, `nozzle.py`, `dispenser.py`, `fuel_type.py`) | the master records | create, edit, delete | sales, purchases, dips and devices name them | what documents name stays; every litre of a tank is explained |
| Other set-up (`api/supplier.py`, parts of `api/customer.py`, `api/tanker.py`) | the master records | create, edit, delete | – | – |
| Tenants: organizations, stations, roles, users (`api/organization.py`, `station.py`, `role.py`, `user.py`, `core/permissions.py`), the seed script (`ppms/seed.py`) | the rows of that name | create, edit, delete; log in; seed again | every permission check reads them | a user stays in the scope of its role; nothing refers to what was deleted |
| Subscriptions and modules (`services/saas.py`, `organization_modules.py`, `station_modules.py`) | plans, subscriptions, settings | create and edit a plan, read (which opens) and set a subscription, switch a module | read by permission checks | one default plan |
| Hardware (`services/hardware.py`, `hardware_adapters.py`) | devices, events | create, edit, delete a device; simulate, poll | names dispensers, nozzles, tanks; appends events; meters and tanks are not touched | a vendor device has an adapter and a link that fit |
| Reports, dashboard (`services/reports.py`, `api/dashboard.py`) | none (queries) | closing, stock, balances, trips; the totals of the dashboard | read every table | figures of one set of books agree |
| Online hooks, maintenance, exports, document rendering, audit log, notifications' texts and preferences | own rows or files | – | – | – |

What is hard here, and hard to test:

* **Long legal sequences.** Stock, meters, balances and shift totals are running
  figures, changed by deltas from a dozen handlers. Whether they still agree with
  the documents depends on orders of sales, reversals, adjustments, approvals, dips
  and payments that no test walks through.
* **Overlap.** A handler decides on rows it selected before others committed, and
  writes values computed from them.
* **Two-step decisions.** Reversals, purchases and overrides are requested by one
  role and decided by another, while an administrator can act directly in between.
* **Messages.** A provider acts when it is called, the row says so only after a
  commit that covers a whole batch. Restarts, time-outs, rows that raise and a retry
  button that competes with the worker lie in between.
* **Rows that go away.** Foreign keys are not enforced (`core/database.py` sets no pragma)
  and SQLite gives a new row the id after the largest in use, so ids come back; what a
  deleting handler does not look for is left naming nothing, or something else.
* **Partial updates.** A request that leaves a column out keeps it: rules over several columns have
  to be checked on the mixture, and the seed script writes past them.
* **Boundaries.** Limit 0 means no limit; an override is consumed in part; a reversal
  may overflow a tank that was refilled; the attempt that is the last.

`PROJECT.json` lists these hazards one by one at their lines, with the properties
that watch them.

## 2. Modules and how they correspond to the code

```
Totals                     sums of columns
Permissions                users, and what the matrix grants their roles
StationState               records, the sales table
 ├─ Reversals              the workflow columns and their four steps
 │   ├─ Purchases          + tank dips
 │   └─ Payments           both tables
 ├─ Shifts
 │   └─ FuelSales          (with Reversals) + meter adjustments
 └─ CreditOverrides
      StationBooks         all of them over the same records; the properties
        ├─ MCStationBooks          small stations for TLC (with Reports)
        └─ StationProofs           types, bounds, the reversal protocol; stock, payables,
                                   balances, meters, shifts, credit
 TankerTrips               trips, over the tables of Purchases
      HaulageBooks         StationBooks composed with TankerTrips
Reports                    what reports and dashboard show of StationBooks
      HaulageReports       and of HaulageBooks
        ├─ MCHaulageBooks          a small station with one tanker
        └─ HaulageProofs           (with StationProofs) types, balances, stock, trips,
                                   purchases, the protocols, the reports
ReversalProtocol           abstract: what the workflow promises
ConcurrentPostings         requests that overlap, read by read
  └─ PostingsStaffProofs           (with StaffBooks)
ConcurrentClosings         requests that close shifts and trips others add to
  └─ ClosingsProofs
AuthSessions               log-in sessions of an account, requests that overlap
  └─ AccessProofs                  (with TenantBooks)
DeliveryQueue              notification and document deliveries, the worker
PosSales, Expenses         over Permissions
      ShopBooks            both; the properties; values for TLC
        └─ ShopDeliveryProofs      (with DeliveryQueue)
ApprovalProtocol           abstract: what the approval of expenses and purchases promises
Tenancy                    organizations, stations, roles
 └─ Accounts               users and their scope, the seed script
     └─ Saas               plans, subscriptions, modules
         TenantBooks       all of them together; the properties; values for TLC
Attendance                 (over Permissions) records, requests that overlap
 └─ Payroll                runs
     └─ EmployeeProfiles
         StaffBooks        all of them together; the properties
           └─ MCStaffBooks         three users at two stations
Equipment                  fuel types, tanks, dispensers, nozzles
 └─ Hardware               devices and events
     EquipmentBooks        with sales, purchases and dips; the properties
       └─ EquipmentProofs
TotalsProofs               lemmas about sums
```

A module of proofs about two subjects (postings and staff, sessions and tenants, shop and
deliveries) has a part for each, one after the other; the subjects share no variable.

**StationBooks** and the modules it extends. A table is a sequence of rows, a row's
id its position. One action is one handler with everything it does before it
returns: `CreateFuelSale` takes the litres, moves the meter, charges the customer,
consumes the override and posts to the shift. The guard of an action is the
conjunction of the permission and of the refusals in the handler: a request that
is refused changes nothing, because every refusal is an exception before the
commit and `get_db` closes the session. That matters in `create_fuel_sale` (the credit limit
is checked after the sale is flushed) and in `approve_…_reversal` (the decision is
flushed before `reverse_…` may refuse); both are one action that happens or does not.

* `FuelSales`: `services/fuel_sales.py` behind `api/fuel_sale.py` and
  `services/nozzle_meter.py`. `Charged` is the credit block of `create_fuel_sale`,
  `ShiftChoice` its choice of the shift, `UndoSale` is `reverse_fuel_sale`, reached
  from `POST /reverse` of an administrator and from an approval.
* `Reversals`: the columns `reversal_request_status`, `reversal_requested_by`,
  `is_reversed`, `reversed_by` and the guards and assignments that the four services
  repeat for them.
* `Purchases`, `Payments`, `Shifts`, `CreditOverrides`: the services of that name.
* `TankerTrips`: `services/tanker_ops.py`. A trip is a row with its deliveries and
  expenses; `Recomputed` is `_recompute_trip_financials`, which each call that adds
  to a trip ends with, and which `complete_trip` runs before it posts. `CompleteStationTrip`
  and `CompleteCustomerTrip` are the two branches of `complete_trip`: the first inserts a
  purchase that is approved from the start, the second charges the credit deliveries.
* `HaulageBooks`: StationBooks and TankerTrips over the same records. Its properties say
  how those of StationBooks read at a station with tankers: `PurchaseAccountedFor` adds the
  purchases that trips posted to those a reviewer approved, `HauledBalanceExplained` adds what trips
  charged to what the ledger lists. `PurchaseDocs` maps the purchases that staff enter to the documents of
  ApprovalProtocol (below); a purchase that a trip posted is no document there, as nobody submitted it for approval.
* `ReversalProtocol`: per document *standing*, *asked* or *reversed*. StationBooks
  instantiates it four times, each with a refinement mapping from the workflow columns
  (`DocOf`); `…FollowWorkflow` are those instances.

What is abstracted: litres, readings and money are integers (the columns are `Float`;
rounding is not modelled). Everything belongs to one station of one organisation, so
the station checks pass. `sale_type` is `cash` or `credit`, the two values the rest of
the code tells apart. A purchase that a request creates names no tanker. Audit rows, nozzle readings, times and notifications are
left out, except that two history columns of a sale stand for comparing its time with
others: how many adjustments came before it, and whether its reversal came after its
shift closed. `initial_cash` and the counted cash are inputs nothing reads.

**ConcurrentPostings** takes the handlers apart. A request on one nozzle, tank and
supplier *opens* (the document or the nozzle is selected), *checks* (tank and
supplier are selected, refusals decided, new values computed) and *commits* (the
changed columns are written with the values computed from what was read; SQLAlchemy
writes a column only if its value changed). The sessions use `autoflush=False` and
SQLite begins its transaction at the first write, so reads before it see whatever is
committed at that moment; from the first flush to the commit the request holds the
write lock, so the last step is atomic. `approve_purchase_reversal` flushes
before it selects the supplier and so sees a current payable next to an older volume.
`stale` remembers whether some commit rested on a column or document that had changed
since it was read.

**ConcurrentClosings** takes apart, in the same way, the requests that close something and those that
still add to it: `create_shift`, `close_shift` and the sales and reversals in between; `complete_trip` and
`add_trip_delivery`. A request in flight carries what it has read (`seen`, `standing`, `deliveries`); it is overtaken
if that has changed when it commits, and then marks the row (`doubled`, `overtaken`). The properties say that nothing goes
wrong without such a mark, and what holds even with it. `SumShift` and `LoadDeliveries` are reads of
their own, after the row was selected; the totals are written by the rule that SQLAlchemy leaves a column alone
whose value it thinks has not changed, which is why a trip can show another total than it posted.

**AuthSessions** takes the handlers of `api/auth.py` apart in the same way, for one account
and its sessions. A log-in reads the account, checks the password (which takes long: bcrypt) and
commits either a failure or a session; a refresh finds the session by the token's hash, then
loads the user, then updates the row by its id; a log-out or a change of the password is
authorized, selects the sessions it will revoke, and commits. The columns are written by the rule of
ConcurrentPostings: `ResetLoginFailures` says what that means for the counter and the lock.
Passwords and refresh tokens are numbered in the order in which they come to exist.
History: `exchanged` are the tokens a refresh accepted; `late` marks sessions of a log-in and a
change of the password that did not see each other; `denials` and `miscounted` say what
the counter of failures should be, and that a log-in was decided on a count that had moved.
That tokens and sessions expire is no action of its own: it refuses requests, as if the client
no longer made them. Nothing else depends on the clock but a lock, which is `none`, `future` or `past`.

**DeliveryQueue** follows the two tables of messages. A session (of a request or of
the worker) selects rows, and for each in turn calls the provider (`Call`), flushes
the outcome (`Record`), and commits them all (`Commit`). What can go wrong: the
provider refuses; a document no longer renders and its exception rolls the batch back
(`RenderingFails`); another session holds the write lock too long (`LockTimeout`); the
process restarts (`Crash`); a retry request overlaps the worker. `accepted` and
`calls` are history: what the provider has seen. `disturbed` collects the rows two
sessions had at a time and those whose call was rolled back; "at most once" is
claimed for the others, since for these it does not hold. The retry time is `null`,
`future` or `past`; `Ripen` is the passing of time. Batches are never as long as the limit of 100.
"sent" stands for a notification's "delivered". Rows in `Unaddressed` are
those whose provider call returns "skipped".

**PosSales** follows `services/pos.py`. A sale is a row with its lines; `LinesAvailable` are
the refusals of `create_pos_sale`, made for each line before any stock is taken, and `Moved`
is what the lines then take (`n = -1`) or a reversal puts back (`n = 1`): only of products that are
tracked at that moment, wherefore a product whose `track_inventory` is switched between a sale and its
reversal is left with more or less than there is. `opening` and `kept` are history: what the stock would be
without the standing sales, and that the tracking was never switched. Products are deleted, and SQLite
gives a new row the id after the largest one, so the table is a function from ids to rows and ids come back.

**Expenses** follows `services/expenses.py` and the deletion in `api/expense.py`, with a table of the same kind.
It is shown to implement **ApprovalProtocol**, in which a document is *unused*, *submitted*,
*accepted* or *refused*; `Document` in ShopBooks is the refinement mapping. Purchases implement the same protocol (`PurchaseDocs`
in HaulageBooks). That an expense is not approved
by the one who submitted it is no check of the code: it follows from the permission matrix, where
nobody but administrators may both enter and approve.

**Reports**, **HaulageReports** are queries over those tables, written the way `services/reports.py`
and `api/dashboard.py` sum them: the closing by sale type, balances of the customers and
suppliers that have one, trip columns that were stored at completion against the rows of their deliveries
and expenses. The period is one that holds every document.

**Tenancy**, **Accounts**, **Saas**, composed by **TenantBooks**. Tables are functions: organizations and
stations by id, with `NextId` giving the highest + 1; roles by id, of which the seeded ones are called by
their names; users by username, which nobody changes. `Scope` is `resolve_role_scope` with the fallbacks of
`create_user` (the creator's organization) and `update_user` (the row's own columns), and `MayScope`, `MayManage`,
`MayGrant` are the refusals. A user acts once it has logged in (`Login`), after which its sessions keep it from
being deleted. `Seed` and `SeedSaas` are one run of `ppms/seed.py` on a database in use: they add what they do
not find by its code and write over the administrator and the demo users. `seeded` and `by_seed` mark rows
that the script, rather than a handler, wrote last; the properties that handlers keep name them
where the script does not. In `Saas`, `Cleared` is the bulk update that precedes saving a default plan, and
`UpdatePlan` follows the rule that SQLAlchemy writes only columns that differ from what was read.
`StationModuleAccess` is `ensure_station_module_access`, see `HeadOfficeReach` in section 4.

**Attendance**, **Payroll**, **EmployeeProfiles**, composed by **StaffBooks**. Requests that insert a
record or a run make their checks in one step (`StartRecord`, `StartRun`) and insert in another
(`InsertRecord`, `InsertRun`), so that two threads overlap; `overtaken` marks a row whose request was
overtaken by the commit of one for the same user, station and day, or the same station and period. In the same way a
run is read and found a draft in one step (`StartFinalizing`) and written in another (`FinalizePayrollRun`).
A request about a profile carries from its checks (`StartCreating`, `StartUpdating`, `StartDeleting`) to its commit the row
it loaded and the row it wants; what is written are the columns in which the two differ (`Overwrite`), over the row that
is there by then, and nothing if the row is gone or the unique `linked_user_id` refuses it. A row says whether another request
wrote it (`overtaken`) or its user was moved (`moved`) since the checks of the request that wrote it last. Threads of the server serve
any request; the model gives requests about profiles threads of their own (`Editors`), as they share no table with the
others but `users`. A run reads the staff with its checks, and the attendance once
it is inserted. `PayrollLine` is the arithmetic of `create_payroll_run`; salaries are multiples of 60, which makes it exact.
Requests that change a record are one step: none of their checks is about what another one writes, but for that of a check-out,
and a second check-out changes the time only. Of the times of a record, whether the check-out is there is modelled.
`UpdateEmployee` is what `api/user.py` may change of an employee meanwhile: station, salary, `payroll_enabled`; one step, as
it may write any row.

**Equipment**, **Hardware**, composed by **EquipmentBooks** with the fuel documents. Handlers check that
the rows a request names exist, where they do so at all: `UpdateNozzle` stores what is given. Sales,
purchases and dips are those of StationBooks cut down to what depends on the equipment: they are made and reversed by an
administrator, without customers, suppliers and shifts. History: `entered` is what creation, edits and dips account
for in a tank's volume; `drawn_from`, `returned_to` are the tanks whose volume a sale and its reversal
changed, and `repointed` marks sales whose nozzle was changed after them. In `Hardware` a device keeps its type, mode,
vendor and links; `Checked` is the validation that creation and every partial update end with.

Every definition that models code is listed in `PROJECT.json` under `map`, with its
lines. Definitions introduced as "Slip" are deliberate mistakes (a dropped guard, an
off-by-one): putting one in place of the definition after it makes the property named
with it in `mutants` fail, which shows that the property can see that mistake.

## 3. Runs

| Run | Module | Properties | What it shows |
|---|---|---|---|
| `Forecourt` | MCStationBooks | `StockBalances`, `StockWithinTank`, `MeterExplained`, `ClosedTotalsHold`, `SalesFollowWorkflow` | Two shifts, two sales, a meter adjustment and a tank dip by an administrator and an operator in any order: stock, meter and closed shift totals stay explained by the documents, and sales follow the reversal workflow. |
| `Credit` | MCStationBooks | `CustomerReportsReconcile`, `BalanceExplained`, `NoNegativeBalance`, `CreditRaisedOnlyWithinLimit`, `CustomerPaymentsFollowWorkflow` | One customer with a limit that changes, two sales, a payment and credit overrides by four roles: what the customer owes is explained by the ledger and the refunds of cash sales, never negative, raised by no sale beyond the credit, and the same in the closing report, the customer report and the dashboard. |
| `Haulage` | MCHaulageBooks | `HaulageReportsReconcile`, `PurchaseAccountedFor`, `HauledBalanceExplained`, `CompletedTripsFixed`, `SupplySideFollowsProtocols` | Two purchases, a supplier payment and a tanker trip with two deliveries and an expense: the payable is the final balance of the ledger and what report and dashboard show, trip profits are what the delivery and expense reports list, every purchase that counts was approved by somebody else or is what one completed trip unloaded, purchases that staff enter are approved as expenses are, and purchases and payments follow the reversal workflow. |
| `Overlap` | ConcurrentPostings | `OnlyStaleReadsLose` | Two overlapping requests on one nozzle, tank and supplier: stock is lost only by a commit computed from outdated reads. |
| `Closings` | ConcurrentClosings | `ShiftsKeptRight`, `TripsPostOnce` | Two overlapping requests that open and close shifts, post and reverse sales, and add deliveries to a trip or complete it: a user has one open shift, a closed shift shows its sales and a completed trip has posted its deliveries once, unless a commit overtook what a request had read; even then none shows or posts more than there was. |
| `Deliveries` | DeliveryQueue | `SentWasAccepted`, `OrderlyDelivery`, `RetriesSettle` | Two documents and two notifications, the worker under fair scheduling, a request thread, a restart and documents that stop rendering: a row is only recorded as sent if the provider accepted it, without overlap or rollback messages are sent once and within the attempts allowed, and what is to be retried is settled at last. |
| `Sessions` | AuthSessions | `SessionsKnowPassword`, `ExchangedOnce`, `FailuresCounted`, `RevokedForGood`, `LockHolds` | Two overlapping requests on one account with two sessions, among log-ins, refreshes, log-outs, changes and resets of the password, locks and deactivation: what was logged out or exchanged stays so, and a lock is not lifted by a log-in that did not see it. |
| `Shop` | ShopBooks | `StockExplained`, `OversoldOnlyByRepeatedLines`, `ExpensesFollowApproval` | Two products, two sales of one or two lines and an expense, by an administrator, a manager and a reviewer: the stock of a product is explained by the sales that stand, is oversold only by a sale that names it twice, and expenses follow the approval workflow. |
| `Tenancy` | TenantBooks | `ScopeFollowsRole`, `TenantsWellFormed`, `OneDefaultPlan`, `MasterFromMaster` | Four edits of organizations, stations, roles, users, plans, subscriptions and modules by any of the seeded users or one they made, the seed script run again included: every user stays in the scope of its role, nothing refers to a deleted organization, role or station, one plan is the default, and only master administrators make master administrators. |
| `Staff` | MCStaffBooks | `DuplicatesOnlyByOverlap`, `PaidWithinPeriod`, `ProfilesFit`, `RunsFixed` | Four requests of overlapping threads on attendance, payroll, profiles and transfers of two days: a record or run is doubled only by a request that one for the same overtook, nobody is paid more days than a period has, a payroll run never changes but to finalized, once more only by an overtaken finalization, and profiles fit their users unless they were rewritten, or the user moved, between checks and commit. |
| `Equipment` | EquipmentBooks | `ReferencesHold`, `TankStockExplained`, `DevicesPollable` | Four requests that create, edit, re-point and delete fuel types, tanks, dispensers, nozzles and hardware devices between sales, purchases, dips and their reversals: no row that others name disappears, every litre of a tank is explained, and every vendor device can be polled. |

A run that ends with a counterexample (section 4):

| Run | Module | Property | What it shows |
|---|---|---|---|
| `HeadOfficeReach` | TenantBooks | `HeadOfficeReach` | The head office user that the seed script makes is refused the module settings of its own organization's station. |

Each of the larger properties is a conjunction with the types of its module or of related statements:
`StaffTypeOK` in `DuplicatesOnlyByOverlap`, `TenantTypeOK` in `TenantsWellFormed`, `EquipmentTypeOK` in
`ReferencesHold`, `PayablesReconcile` in `HaulageReportsReconcile`, the reversals of the supply side's two tables
and the approval of purchases in `SupplySideFollowsProtocols`. The types of StationBooks, HaulageBooks, ConcurrentPostings, AuthSessions and the
shop are proved (section 5) and not checked again.

Bounds and why they are enough. The properties of StationBooks relate at most two
documents and one correction: a reversal that should be refused needs the sale, a later
sale or adjustment, and the reversal; a credit violation needs a sale within the limit
and one over it; a workflow violation needs one row and two users. So there are two
sales, two shifts, two purchases, one payment per table, one adjustment, one dip and one trip
of two deliveries and an expense, in runs that
leave out what their question does not involve, with a user of each role
that matters. The tank holds 6 litres, 4 at the start, and readings go up to 3, so that both
"not enough stock" and "does not fit" occur. Dips record a figure below zero or a full
tank. A delivery of a trip is paid in part (1 of 3) or, which must be
refused, with more than its value (4 of 3). Limits are 0 or 3 and rates 2, so that a sale can stay within,
exactly reach and exceed the credit. At the station with a tanker a purchase is 2 litres at 2 and a payment to its
supplier 4, so that one payment settles one purchase, and nothing can be paid before one was approved. Two threads are what a lost update takes, and an overtaken closing. Two sessions
and three refresh tokens let two refreshes, or a refresh and a log-out, meet on one session while another
exists; three failures lock, so that the counter has a middle. In
DeliveryQueue three attempts are the program's own limit, two documents
make a batch whose second row can fail after the first was sent, two notifications (one of them without an
address) one that commits before the documents do, and two requests
with a restart allow a retry to overlap the worker. In the shop, stock is
3 and lines are for 2, so that one line fits, two of one sale pass the check and oversell, and a second sale is refused;
two products tell a line of one from a line of the other, and one expense is enough for its id to be used again.

The runs of tenants, staff and equipment bound the number of requests instead (`MaxEdits`, `MaxRequests` = 4; log-ins,
days and commits are not counted): their tables hold two of everything, so that a row can be moved from
one to the other, deleted, and its id used again, and four requests are what the longest of
the hazards takes (sell, re-point, reverse and look; rename the role, give it, edit its user, run the
seed script again; check in twice while somebody is moved, and pay;
make a run and finalize it twice; make a profile, move its user, and let two edits of it overlap). Two days make a period with a day on either side of
an overlap. The seeded accounts are the master administrator, the administrator and the head office user; a request for one more, or
for another role, names a role of `RequestedRoles`: the master administrator's, whom the refusals are about, or a custom role, which
can be renamed, re-scoped and deleted under its users. Attendance is entered as "leave", the status that is
both paid and not worked, beside the days that checking in and out records as present; equipment holds 1 of 2 litres or none. The proofs are for all
roles, statuses and volumes.

The bounds (`MaxSales`, `MaxShifts`, `MaxRequests`, …) sit in the guards and stop a
model when its tables are full, so deadlock is checked only where a model never stops for that
reason: in `Sessions` and `Deliveries`, where requests end and the worker always has a next step.

Symmetry is used for threads (ConcurrentPostings, ConcurrentClosings with its users, StaffBooks) and for the stations of EquipmentBooks; the one property
that is not an invariant there, `RunsFixed`, is a property of single steps, for which that is sound.

**Fairness** (`FairSpec` in DeliveryQueue). Weakly fair are: the worker's turns, where the worker is
enabled (`DELIVERY_WORKER_ENABLED`, which is off by default),
because `run_delivery_worker` loops and catches every exception of an iteration; each
step of a session that has begun, because a provider call has a time-out of 20 seconds
and a flush waits at most 5 for the lock; and the passing of time. Not
fair: requests, restarts (bounded in number: a process that restarts for ever settles
nothing), breaking and repairing documents. For documents `RetriesSettle` therefore assumes that
from some time on all of them render; without that assumption it fails, because one
document that raises keeps every batch of documents from committing. For notifications it
holds without: they are committed before documents are looked at.

## 4. Where code and words disagree

TLC ends this run with a counterexample:

* **HeadOfficeReach.** README.md and a test promise the head office the module settings of its own stations.
  `ensure_station_module_access` takes the organization of the *station* of the user, and the scope rule
  of the role, `create_user` and the seed script give it none, so every such request is refused; the test
  passes because it inserts a user with a station. The lists of attendance records and payroll runs filter the same way.

Noticed, and described by what holds instead rather than by a run:

* `reverse_fuel_sale` takes `total_amount` off the balance of the sale's
  customer also for a cash sale, which never charged it. The stored balance and the
  customer ledger part (`LedgerShowsBalance`). What holds is `BalanceExplained`: the
  difference is exactly the reversed cash sales.
* A sale can be reversed once an adjustment has brought the meter back to
  its closing reading, whatever was sold in between; the meter then stands below the
  start of its segment (`SegmentSum`). What holds is `MeterExplained`, over all segments.
* The worker, which had selected a row before a retry request sent it,
  overwrites `sent` with the failure of its own attempt (`services/financial_documents.py:560`).
* A sale that uses up part of an old override sets
  `credit_override_requested_amount` to 0 (`services/fuel_sales.py:139`) also when a new request is pending, and leaves it
  pending; approving that request grants nothing. At every over-limit sale the whole
  excess of the balance over the limit is taken from the override, so an excess that an earlier
  sale has already paid for is taken again. The credit is exceeded by no sale
  (`CreditRaisedOnlyWithinLimit`), the headroom shrinks faster than the sales.
* Two overlapping sales from one tank write the volume each computed (`services/fuel_sales.py:126`); the later one
  wins and litres are lost (`StockAddsUp`). What holds is `OnlyStaleReadsLose` and, by proof, `Bounded`.
  The same lost update makes `reject_purchase` reject a purchase whose approval was committed after
  the rejection had read it: its litres and payable stay posted. `OnlyStaleReadsLose` covers it.

About closings: a sale that found its shift open is posted to it after it was closed, and is in no total; a
delivery that overlaps a completion is in the trip's total and in no purchase (`ShiftsKeptRight`, `TripsPostOnce`
say when, and bound what can be wrong).

About sessions: two refreshes that overlap are both answered with a new token, and only the
one whose commit comes last works. A lock refuses log-ins and refreshes, not the requests of
access tokens already given out. A log-in that overlaps a change of the password is not
revoked by it.

About the shop: `create_pos_sale` compares each line with the stock before it takes any, so a sale with one
product on two lines takes more than there is; `OversoldOnlyByRepeatedLines` says that this is the only
way. `GET /accounting/profit-summary` (`api/accounting.py:23`) subtracts all expenses, pending and rejected ones
too, where the README says that only approved ones are included in report totals, as they are in
`services/reports.py:66` and `api/dashboard.py:102`. A rejected expense can be approved, but not amended or deleted.

About trips, likewise: completing one to customers compares no balance with a limit, and no row
of the sales table stands for what it charges, so at a station with tankers neither
`CreditRaisedOnlyWithinLimit` nor `BalanceExplained` holds as it stands; `HauledBalanceExplained`
is what does, and `OnlyTripsPassTheLimit` (proved) says that nothing but such a trip, and a payment taken back, leaves a
customer owing more than was allowed. A cash delivery that is not paid in full is owed by nobody, though it keeps
the trip's settlement at "partial" or "unpaid". A trip to the station that was created without a supplier
can never be completed, since no operation sets one. Any of the forecourt staff completes
a trip and thereby approves its purchase. An expense added after completion changes the net profit
that was audited. The daily closing leaves out what tanker deliveries were paid in cash.

About tenants: `update_user` keeps the station a user had when a request names another organization only; moving
a station leaves its users in the old organization, and that an organization which is asked for exists is checked only
by way of a station. `delete_organization` looks for stations, so users, subscription and settings stay and belong to the next
organization that gets the id. Saving the default plan as the default leaves no default, because the bulk update cleared the row
and SQLAlchemy sees no difference to write; a request for a subscription to a plan that does not exist opens one before
it is refused. Run again, the seed script makes a second head office if the station HQ had lost its organization,
and a second default plan if the starter plan was given another code.

About staff: a leave day is paid and also lowers the absent days that are deducted; runs of overlapping periods
pay a day twice; a user who was moved is not paid by the run of the old station. README.md:273 says that finalized runs
are locked for a traceable approval flow; the handler compares the status of the row it read (`payroll.py:136`) and commits later,
so of two finalizations that overlap both find a draft, and the second replaces the user and time that the first one recorded.
`RunsFixed` says that nothing else happens to a finalized run. Of two partial updates of a profile that overlap,
one may allow the login and the other take the user away, and a transfer between the checks of an edit and its commit leaves a
profile that does not fit though it was checked (`ProfilesFit` says which profiles are exposed).

About equipment: `update_nozzle` stores a tank and a fuel that need not exist, `create_nozzle` does not compare the tank's
station or fuel. A nozzle can be deleted with sales on it; the reversal of such a sale puts the litres into the tank of the
nozzle that has the id by then, even of another fuel (`TankStockExplained` says which sales are exposed). A vendor's poll
records events for links that no longer exist.

## 5. Proofs

Every safety invariant and every action property of the passing runs is a theorem: TLAPS checks it for every value
of the constants that satisfies the assumptions their modules name (`RolesAssumption`, `RecordsAssumption`,
`FuelSalesAssumption`, …, `PostingsAssumption`, `AuthAssumption`, `TenancyAssumption`, `EquipmentAssumption`), so for any number of users, tanks,
customers, documents, rows and threads. The assumptions say what kind of value a constant is; those that say more
state something of the code: what the permission matrix grants the built-in roles, that the seed script's names are
among those in use (`seed.py:326-380`), that the customers, suppliers and tanks of a database are finitely many (`ReportsAssumption`,
for the sums over them), that the first id of a table is not beyond the bound on ids.

| Theorem | States | Argument |
|---|---|---|
| `StationProofs!TypeCorrect` | `Spec => []TypeOK` | `TypeOK` is inductive. One lemma per service shows that its operations keep the types; the work is in what is *not* typing alone: the remaining override is a natural number (`ChargedTyped`: it is clamped at zero), a meter is set to readings that are naturals, sums of columns are integers (`Totals`). |
| `StationProofs!BalancesNeverNegative` | `Spec => []NoNegativeBalance` | Inductive together with `TypeOK`: each step that lowers a balance has compared first. The steps are first reduced to what they do (`FuelSalesCases`, `PurchasesCases`, `PaymentsCases`: create, undo, mark), so each case is proved once for the direct reversal and the approved one. |
| `StationProofs!StockStaysInTank` | `Spec => []StockWithinTank` | Needs the strengthening `SalesMoveForward`: a sale's closing reading is not below its opening one. Without it a reversal could take litres out of the tank, which `reverse_fuel_sale` does not check for. Then every step leaves a tank, moves it within its bounds, or is a dip that explains itself. |
| `StationProofs!SalesAreReversedByProtocol`, `!CustomerPaymentsAreReversedByProtocol`, `!SupplySideIsReversedByProtocol` | `Spec => SalesFollowWorkflow`, `…CustomerPaymentsFollowWorkflow`, `…SupplySideFollowsWorkflow` | Refinements of ReversalProtocol, one instance per table. A workflow column changes by one of the four steps of Reversals (`WorkflowStep`), so a row's abstract document makes one step of the protocol or none (`DocStep`), and a table that changes in one row or grows by a fresh one makes one step of the whole (`TableFollows`). Needs the invariant `RowsInOrder`: a row that is approved is reversed, one that is pending was asked for by somebody who does not review. |
| `StationProofs!StockIsBooked`, `!PayablesAreBooked`, `!BalancesAreBooked`, `!MetersAreBooked` | `Spec => []StockBalances`, `…PayableMatchesLedger`, `…BalanceExplained`, `…MeterExplained` | Each stored figure is a sum over the rows of a table; each is inductive with the types. Each of the cases above changes one row of one table or appends one, the sum follows by `AmountsChange` or `AmountsAppend` of TotalsProofs, and the handler moves the figure by the same amount. The balances need that what is reversed of a payment was once approved or direct; the meters need the readings that adjustments record. |
| `StationProofs!ShiftsHoldTheirTotals` | `Spec => []ClosedTotalsHold` | The rows of a closed shift are those it summed, less what was reversed since: a sale is posted only to an open shift (`SalesHaveShifts`, `OneOpen`), and a reversal after the closing says so (`LateMarksClosed`). |
| `StationProofs!CreditStaysWithinLimit` | `Spec => CreditRaisedOnlyWithinLimit` | An action property from the types: the only step that raises a balance is a credit sale, which compared it with limit and override. |
| `HaulageProofs!HaulageTypeCorrect` | `HaulageSpec => []HaulageTypeOK` | The same for trips. What is not typing: the outstanding amount is a natural, because `add_trip_delivery` refuses a payment beyond the value, and sums of naturals are naturals (`TotalNatural`), so what completion posts is one too. |
| `HaulageProofs!HauledBalancesNeverNegative`, `!HauledStockStaysInTank` | `HaulageSpec => []NoNegativeBalance`, `HaulageSpec => []StockWithinTank` | A step of StationBooks keeps them by the lemmas above; completing a trip only raises balances, and is refused when the litres do not fit. |
| `HaulageProofs!CompletedTripsStayFixed` | `HaulageSpec => CompletedTripsFixed` | An action property from the type invariant: only an expense gets past a completed trip's guards, and recomputing leaves the columns in question alone. |
| `HaulageProofs!HauledBooksAgree` | `HaulageSpec => [](StockBalances /\ PayableMatchesLedger /\ MeterExplained /\ ClosedTotalsHold)` | What StationProofs shows of each step of a station is stated there without its specification, so it is used again for the steps that a station with tankers shares; a trip of its own touches neither meters nor shifts, and one that completes to the station appends a purchase to the table and the same litres and amount to tank and payable (`TripsPost`). |
| `HaulageProofs!HauledDocumentsFollowWorkflow` | `HaulageSpec => SalesFollowWorkflow /\ CustomerPaymentsFollowWorkflow /\ SupplySideFollowsWorkflow` | The refinements of ReversalProtocol once more: the purchase that a trip posts is a fresh row in order, approved and not asked to be reversed, so the table makes the step of a new document (`HauledRowsRefine`). |
| `HaulageProofs!SupplySideKeepsItsProtocols` | `HaulageSpec => SupplySideFollowsProtocols` | With the refinement of ApprovalProtocol by the purchases that staff enter: each step submits, approves or rejects one document or none. Needs that a purchase keeps its submitter and amount while it is decided, that nothing but what waits is decided, and that what waits, or is not there yet, no trip has posted (`PendingUnposted`, from `PurchasesAccounted`). |
| `HaulageProofs!OnlyTripsPassTheLimit` | `HaulageSpec => [][` for each customer, `RaisedWithinLimit` or a trip `DeliveredOnCredit` to it`]_haulageVars` | A step of StationBooks by the lemma behind `CreditStaysWithinLimit`; of the trips' steps only a completion moves a balance, and that of a customer it delivered to on credit (`TripsRaiseTheirOwn`). |
| `HaulageProofs!HauledBalancesAreBooked` | `HaulageSpec => []HauledBalanceExplained` | Inductive (`HauledBooked`): what a customer owes is what the ledger and the refunds of reversed cash sales give, as for a station without tankers, plus the sum over trips of what a completed one left unpaid. A step of StationBooks leaves the sum over trips, by the lemmas of StationProofs; a trip that completes raises the balance by the same sum over its deliveries that it adds to the sum over trips. |
| `HaulageProofs!PurchasesAreAccountedFor` | `HaulageSpec => []PurchaseAccountedFor` | Needs `PurchasesAccounted`: the purchase that a trip names exists and is what that trip posts (`TripsLinked`), no two trips name the same one (`LinksDistinct`), and a purchase that is approved was reviewed or is named by a trip (`OthersReviewed`). The steps are reduced to what they do to a purchase: kept, moved on in its workflow, or new (`PurchasesEvolve`). |
| `HaulageProofs!CustomerReportsAgree`, `!HaulageReportsAgree` | `Spec => []CustomerReportsReconcile`, `HaulageSpec => []HaulageReportsReconcile` | Two ways to sum the same rows: by customer and as a column, by trip and by delivery or expense. What the reports sum over a set is the fold of a function; `HasSums` to `Agree` show that over a finite set this is one number, whatever the order, and additive, so that a column can be grouped by the owners of its rows (`Columns`, `Owned`). With it go the balances and payables proved above, and `FiguresKept`: the figures a trip stores are the totals of its deliveries and expenses. |
| `AccessProofs!LoggedOutForGood`, `!LocksHold` | `Spec => RevokedForGood`, `Spec => LockHolds` | Action properties, from the invariant `IInv` and from `Evolves`, which every step satisfies: rows of sessions stay, none is revived, a token that changes is new. |
| `AccessProofs!SessionsTypeCorrect`, `!PasswordEndsSessions`, `!TokensExchangedOnce`, `!FailuresAreCounted` | `Spec => []SessionsTypeOK`, `…SessionsKnowPassword`, `…ExchangedOnce`, `…FailuresCounted` | One inductive invariant, `IInv`: tokens are issued once, to one session; a refresh under way holds a token no other session will get (`FoundByToken`); a log-in was let in without a lock (`LetIn`); of the sessions there were when a change of the password selected them, all the others are inactive (`SelectedAll`). A lemma shows that a request which does not move stays in order while the tables evolve (`RequestKept`), so each action is left with its own row. |
| `AccessProofs!ScopesFollowRoles`, `!TenantsStayWellFormed`, `!DefaultPlanIsUnique` | `TenantSpec => []ScopeFollowsRole`, `…TenantsWellFormed`, `…OneDefaultPlan` | One inductive invariant, `TenantInv`, with a part for each table: organizations, roles, stations, users, plans. That of the users says of a row that it fits its role (`RowFits`), but for the administrator's while it is as the seed script wrote it. It lasts because the built-in roles keep their names and no other role takes one of them (`RolesKept`); what is deleted, no row names; a head office or a default plan is made where there is none, or takes the place of the one there is, unless the seed script makes it. |
| `AccessProofs!MastersComeFromMasters` | `TenantSpec => MasterFromMaster` | An action property, from the same invariant: a user is a master administrator by the role of its row or its flag (`MasterRow`, no other role can take the name), and a row that becomes one was written by the seed script or while a master administrator was logged in (`MadeByMaster`, shown with the step of the invariant). |
| `ShopDeliveryProofs!StockIsExplained`, `!OversoldByRepetition` | `ShopSpec => []StockExplained`, `ShopSpec => []OversoldOnlyByRepeatedLines` | Inductive together with the types and with `ItemsNameProducts`: a product that a sale names is not deleted, so nothing stands of a new product, even under an id that was used before. A sale adds to the standing total what it takes (`StandingAppend`), a reversal takes away what it puts back (`StandingReversed`), both by the sum lemmas of `Totals`; lines that name a product once sell no more than was compared (`SoldOnce`). |
| `ShopDeliveryProofs!ExpensesAreApproved` | `ShopSpec => ExpensesFollowApproval` | A refinement: each request maps to a step of ApprovalProtocol or changes nothing (a second rejection). Needs that submitters are expense staff, which no reviewer but an administrator is (`DecidersApart`), and that an expense names an approver only while approved. |
| `ShopDeliveryProofs!SentMeansAccepted` | `Spec => []SentWasAccepted` | Inductive with the types: whatever a session holds as sent, flushed or not, was accepted (`AcceptedKept`), and a commit writes only that. A rollback, a time-out or a restart forgets columns, never an acceptance. |
| `ShopDeliveryProofs!UndisturbedDeliveryIsOrderly` | `Spec => []OrderlyDelivery` | `DeliveryInv` says for each row that nothing has disturbed: one session at most holds it, as it was selected; what that session flushed is one attempt more than what is committed; the row was accepted as often as it says it was sent. A row is disturbed by a second session or the rollback of one that had called for it, and stays so; a step of any other session does not reach an undisturbed row. |
| `PostingsStaffProofs!AlwaysBounded` | `Spec => []Bounded` | For any number of threads, however stale their reads. The inductive invariant says of each thread that what it is about to write was checked against what it read: a planned volume is within the tank, a planned payable is not negative; a commit writes such values or leaves the column. |
| `PostingsStaffProofs!OnlyOutdatedCommitsLose` | `Spec => []OnlyStaleReadsLose` | A second invariant, `StockInv`: every write that a thread plans is what it read plus the effect of its document (`Planned`), so a commit whose reads are still true moves a figure by what it moves the sum; until something outdated is committed, the figures add up and what is reversed was approved. |
| `PostingsStaffProofs!DuplicatesNeedOverlap` | `StaffSpec => []DuplicatesOnlyByOverlap` | Part of `StaffInv`: a request between its check and its commit carries a record or run that nobody else has yet, unless it was overtaken (`UpToDate`); a commit that adds the same overtakes it. |
| `PostingsStaffProofs!PayStaysWithinPeriod` | `StaffSpec => []PaidWithinPeriod` | A line of a run counts days by cardinalities. Payable and absent days split the period, and a user recorded once a day has at most as many payable days as there are days, because its records inject into the period (FiniteSetTheorems); so the gross pay is at most the salary's share for those days. |
| `PostingsStaffProofs!ProfilesKeepFitting`, `!FinalizedRunsAreLocked` | `StaffSpec => []ProfilesFit`, `StaffSpec => RunsFixed` | Also from `StaffInv`. A request about a profile in flight has checked the row it wants, as long as its user is not moved (`EditsKept`); if the row it loaded is still there, what it writes is that row (`OverwriteLoaded`), otherwise the profile is marked; two profiles of a user are refused by the unique column. A finalization in flight that was not overtaken still has a draft before it (`UpToDate`); of a run, only its status and who finalized it are ever written. |
| `ClosingsProofs!ClosedShiftsAreRight`, `!TripsPostTheirDeliveries` | `Spec => []ShiftsKeptRight`, `Spec => []TripsPostOnce` | `Inv` has a part for the trip, one for the shifts and one for every request in flight (`Holds`): the shift it read was open, the sales it summed are sales of that shift, the deliveries it loaded are no more than there are. Sales and deliveries are never taken away (`Grows`), so what a request holds it keeps while others move; a commit that nobody overtook then writes the sum of what is there. |
| `EquipmentProofs!ReferencesStayInPlace` | `EquipmentSpec => []ReferencesHold` | Each operation is first reduced to what it does to the tables (`EquipmentKept`, `DocumentMade`); the invariant `Sound` says of each table that its rows name rows (`TanksFueled`, `NozzlesPlaced`, `PurchasesPlaced`, …). A fuel type, a tank or a dispenser is deleted only when no row names it; `delete_tank` need not look at sales, since a sale's tank is its nozzle's while nobody changed or deleted the nozzle (`SalesPlaced`). |
| `EquipmentProofs!TankStockIsExplained` | `EquipmentSpec => []TankStockExplained` | An id that is given again is one that no row names (`NextIdIsNew`), so the books of the new tank are empty (`NetOfNewTank`); what a sale drew from a tank it returns to the same one while its nozzle was left alone (`StillConnected`). The volume then moves as the sums of purchases, dips and sales do. |
| `EquipmentProofs!DevicesStayPollable` | `EquipmentSpec => []DevicesPollable` | Every write of a device is checked on the mixture of the row and the request, which is the row that results (`DevicesFit`). |

`TotalsProofs` proves what the sums do when a row is appended, changed or left alone, for sums of a
column (`Total`) and of an amount that a function gives to each row (`Amounts`), that the sum of two columns is the column of
sums (`TotalPlus`), and that sums of naturals are naturals.

Some definitions are written as they are so that they can be reasoned about: the alternatives of a handler
are an IF where several could apply (a CASE of overlapping guards chooses any of them), a table with one row more is a function on
its ids (`Added`, `Put`), and sums are `Total` of a column or folds of functions rather than sums of a set of values.

## 6. What is only model-checked, and what is left out

Only model-checked: liveness (`RetriesSettle`), because it rests on fairness, thus on when actions are enabled, which the prover
cannot reason about; and, as a violation, `HeadOfficeReach`.

Not modelled, by decision: rendering, exports, the client, migrations, the audit
log, the brand catalogue, suppliers' and tankers' own records, texts and preferences of notifications, online hooks.
They have no protocol: a row is written or a text is made. That
rendering may raise is in DeliveryQueue. Maintenance copies files under open sessions; what a copy
of a database file in use contains is SQLite's to say, and no code of the repository guards it.

Simplifications a reader should know of: money and litres are exact; StationBooks has one
station, so its station checks pass (TenantBooks is about them), and its modules are on; in StationBooks, TenantBooks and EquipmentBooks handlers are atomic, and in StaffBooks those that change an attendance record or an employee; in
ConcurrentPostings there is one nozzle, one tank, one supplier, a price of 1 and no customer;
in ConcurrentClosings one trip, to the station, without expenses, and sales of 1; the database is SQLite, the default: on
PostgreSQL reads and locks differ, and ids do not come back.

## 7. Plan

Done, in this order: the books of a station (StationBooks);
overlapping requests (ConcurrentPostings, ConcurrentClosings); deliveries (DeliveryQueue); tanker
trips (TankerTrips, HaulageBooks); log-in sessions (AuthSessions); the shop and expenses (ShopBooks); reports (Reports, HaulageReports);
tenants (TenantBooks), staff (StaffBooks) and equipment (EquipmentBooks). All their safety invariants and action properties, and
the refinements of ReversalProtocol (four tables) and ApprovalProtocol (expenses, purchases), are proved, for a station with tankers as for one
without. Credit overrides are no refinement of ApprovalProtocol and are not meant as one: a new
request may follow an approved one, and no approval compares the reviewer with who requested it (`CreditRaisedOnlyWithinLimit` is what they promise).

Next, most important first:

1. **Overlap elsewhere** – dips and payments in ConcurrentPostings.
2. **Messages and their causes** – the transaction of the handler that creates a notification, related to what was sent.
3. **Tenants across handlers** – the filters of list requests, as functions of a user's scope.
