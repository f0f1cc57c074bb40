------------------------------- MODULE Reports ------------------------------
(***************************************************************************)
(* What the reports and the dashboard show of a station's books            *)
(* (services/reports.py, api/dashboard.py): queries over the tables, here  *)
(* for the one station and a period that holds every document. Sales of    *)
(* the shop and expenses, which the daily closing adds, are the tables of  *)
(* ShopBooks.                                                              *)
(***************************************************************************)
EXTENDS StationBooks, Functions

ASSUME ReportsAssumption ==
  IsFiniteSet(Customers) /\ IsFiniteSet(Suppliers) /\ IsFiniteSet(Tanks)

Standing(table) == {i \in 1..Len(table) : ~table[i].rev.reversed}

\* func.sum of a column, over the rows that a query selects.
SumOf(table, field, rows) ==
  Total([i \in 1..Len(table) |-> IF i \in rows THEN table[i][field] ELSE 0])

\* Slip: reversed sales are summed as well.
SalesOfTypeSlip(sale_type) ==
  SumOf(sales, "total_amount", {i \in 1..Len(sales) : sales[i].sale_type = sale_type})

SalesOfType(sale_type) ==
  SumOf(sales, "total_amount", {i \in Standing(sales) : sales[i].sale_type = sale_type})

DailyClosing ==
  [fuel_cash_sales   |-> SalesOfType("cash"),
   fuel_credit_sales |-> SalesOfType("credit"),
   customer_payments |-> SumOf(customer_payments, "amount", Standing(customer_payments)),
   supplier_payments |-> SumOf(supplier_payments, "amount", Standing(supplier_payments))]

\* purchased and sold litres of a tank, the sales by the tank its nozzle feeds from.
StockMovement(t) == Total(DeliveredTo(t)) - Total(SoldFrom(t))

SumOver(set, value) == FoldFunctionOnSet(+, 0, value, set)

Balances == [c \in Customers |-> customer[c].outstanding_balance]

\* Only customers that owe something are listed.
CustomerBalances == {c \in Customers : Balances[c] > 0}

ApprovedPurchases == {i \in Standing(purchases) : purchases[i].status = "approved"}

\* The balance by supplier, of those that are owed something.
SupplierBalance(s) ==
  SumOf(purchases, "total_amount", {i \in ApprovedPurchases : purchases[i].supplier = s})
    - SumOf(supplier_payments, "amount",
            {i \in Standing(supplier_payments) : supplier_payments[i].supplier = s})

SupplierBalances == {s \in Suppliers : SupplierBalance(s) > 0}

-----------------------------------------------------------------------------
\* The dashboard.

DashboardSales == SumOf(sales, "total_amount", Standing(sales))

Receivables == SumOver(Customers, Balances)

DashboardPayables ==
  LET owed == SumOf(purchases, "total_amount", ApprovedPurchases)
                - SumOf(supplier_payments, "amount", Standing(supplier_payments))
  IN  IF owed < 0 THEN 0 ELSE owed

FuelStock == SumOver(Tanks, current_volume)

\* Ninety per cent of the limit, or more.
CreditAlerts ==
  {c \in Customers : /\ customer[c].credit_limit > 0
                     /\ 10 * customer[c].outstanding_balance >= 9 * customer[c].credit_limit}

-----------------------------------------------------------------------------
CashRefunded == SumOver(Customers, [c \in Customers |-> Total(CashRefundsTo(c))])

\* What the reports show of one set of books fits together, after any payments,
\* reversals and limit changes: the receivables of the dashboard (dashboard.py:125)
\* are the balances that the customer report lists (reports.py:217) and the credit
\* sales of the closing less its payments and the refunds of reversed cash sales; and
\* a sale on credit that passed the limit shows in the credit alerts until the
\* balance falls again.
CustomerReportsReconcile ==
  /\ Receivables = SumOver(CustomerBalances, Balances)
  /\ Receivables =
       DailyClosing.fuel_credit_sales - DailyClosing.customer_payments - CashRefunded
  /\ DashboardSales = DailyClosing.fuel_cash_sales + DailyClosing.fuel_credit_sales
  /\ \A c \in Customers :
       customer[c].outstanding_balance > customer[c].credit_limit
         => c \in CreditAlerts \/ customer[c].credit_limit = 0

\* What is owed to suppliers is the same on the dashboard (dashboard.py:158), which
\* subtracts all payments from all purchases and stops at zero, in the supplier
\* report (reports.py:262), which leaves out suppliers that are owed nothing, on the
\* suppliers' own records and on the final balances of their ledgers, whoever
\* submitted, approved and reversed what.
PayablesReconcile ==
  /\ PayableMatchesLedger
  /\ DashboardPayables = SumOver(Suppliers, payable_balance)
  /\ DashboardPayables = SumOver(SupplierBalances, [s \in Suppliers |-> SupplierBalance(s)])
  /\ FuelStock = SumOver(Tanks, [t \in Tanks |->
                   OpeningStock[t] + StockMovement(t) + Total(DipGains(t))])

=============================================================================
