---------------------------- MODULE StationBooks ----------------------------
(***************************************************************************)
(* The books of one station: shifts, fuel sales, purchases, tank dips,     *)
(* payments and credit overrides over the same tanks, nozzles, customers   *)
(* and suppliers, and what must hold between the records and the tables    *)
(* that explain them.  Users act in any order.                             *)
(***************************************************************************)
EXTENDS FuelSales, Purchases, Payments, CreditOverrides

salesVars    == <<shifts, adjustments>>
purchaseVars == <<purchases, dips>>
paymentVars  == <<customer_payments, supplier_payments>>
vars == <<current_volume, nozzle, customer, payable_balance, sales,
          salesVars, purchaseVars, paymentVars>>

Init ==
  /\ StateInit
  /\ ShiftsInit
  /\ FuelSalesInit
  /\ PurchasesInit
  /\ PaymentsInit

Next ==
  \/ ShiftsNext          /\ UNCHANGED <<adjustments, purchaseVars, paymentVars>>
  \/ FuelSalesNext       /\ UNCHANGED <<purchaseVars, paymentVars>>
  \/ PurchasesNext       /\ UNCHANGED <<salesVars, paymentVars>>
  \/ PaymentsNext        /\ UNCHANGED <<salesVars, purchaseVars>>
  \/ CreditOverridesNext /\ UNCHANGED <<salesVars, purchaseVars, paymentVars>>

Spec == Init /\ [][Next]_vars

-----------------------------------------------------------------------------
\* Every record and every row of every table has the columns of its model.
TypeOK ==
  /\ current_volume \in [Tanks -> Int]
  /\ nozzle \in [Nozzles -> Nozzle]
  /\ customer \in [Customers -> Customer]
  /\ payable_balance \in [Suppliers -> Int]
  /\ sales \in Seq(FuelSaleRow)
  /\ shifts \in Seq(ShiftRow)
  /\ adjustments \in Seq(AdjustmentRow)
  /\ purchases \in Seq(PurchaseRow)
  /\ dips \in Seq(DipRow)
  /\ customer_payments \in Seq(CustomerPaymentRow)
  /\ supplier_payments \in Seq(SupplierPaymentRow)

-----------------------------------------------------------------------------
\* Stock.

SoldFrom(t) ==
  [i \in 1..Len(sales) |->
     IF Feeds[sales[i].nozzle] = t /\ ~sales[i].rev.reversed THEN Quantity(sales[i]) ELSE 0]

Counted(p) == p.status = "approved" /\ ~p.rev.reversed

DeliveredTo(t) ==
  [i \in 1..Len(purchases) |->
     IF purchases[i].tank = t /\ Counted(purchases[i]) THEN purchases[i].quantity ELSE 0]

DipGains(t) ==
  [i \in 1..Len(dips) |-> IF dips[i].tank = t THEN dips[i].loss_gain ELSE 0]

\* The volume of a tank is what its documents say: opening stock, plus approved
\* purchases, minus sales, reversed ones not counted, plus the recorded losses
\* and gains.  No order of sales, approvals, reversals and dips loses a litre.
StockBalances ==
  \A t \in Tanks :
    current_volume[t] = OpeningStock[t] + Total(DeliveredTo(t)) - Total(SoldFrom(t))
                                        + Total(DipGains(t))

\* The volume stays between empty and full; only a dip that recorded a figure
\* outside the tank can put it there (create_tank_dip checks nothing).
StockWithinTank ==
  \A t \in Tanks :
    \/ current_volume[t] \in 0..Capacity[t]
    \/ \E i \in 1..Len(dips) : dips[i].tank = t /\ dips[i].calculated_volume \notin 0..Capacity[t]

-----------------------------------------------------------------------------
\* Money.

OnLedger(sale, c) == sale.customer = c /\ sale.sale_type = "credit" /\ ~sale.rev.reversed

\* customer_ledger: credit sales less payments, reversed ones not listed.
CreditSalesTo(c) ==
  [i \in 1..Len(sales) |-> IF OnLedger(sales[i], c) THEN sales[i].total_amount ELSE 0]
PaidBy(c) ==
  [i \in 1..Len(customer_payments) |->
     IF customer_payments[i].customer = c /\ ~customer_payments[i].rev.reversed
     THEN customer_payments[i].amount ELSE 0]
CustomerLedger(c) == Total(CreditSalesTo(c)) - Total(PaidBy(c))

\* What reversing a cash sale took off the balance of the customer it names.
CashRefundsTo(c) ==
  [i \in 1..Len(sales) |->
     IF sales[i].customer = c /\ sales[i].sale_type = "cash" /\ sales[i].rev.reversed
     THEN sales[i].total_amount ELSE 0]

\* A customer owes what the ledger says, less the refunds of reversed cash
\* sales, which the ledger does not show.
BalanceExplained ==
  \A c \in Customers :
    customer[c].outstanding_balance = CustomerLedger(c) - Total(CashRefundsTo(c))

\* Without that exception, as README.md:41 would have it, the code does not keep it:
\* reversing a cash sale that names a customer refutes this one.
LedgerShowsBalance ==
  \A c \in Customers : customer[c].outstanding_balance = CustomerLedger(c)

PurchasedFrom(s) ==
  [i \in 1..Len(purchases) |->
     IF purchases[i].supplier = s /\ Counted(purchases[i]) THEN purchases[i].total_amount ELSE 0]
PaidTo(s) ==
  [i \in 1..Len(supplier_payments) |->
     IF supplier_payments[i].supplier = s /\ ~supplier_payments[i].rev.reversed
     THEN supplier_payments[i].amount ELSE 0]

\* What is owed to a supplier is the final balance of supplier_ledger.
PayableMatchesLedger ==
  \A s \in Suppliers :
    payable_balance[s] = Total(PurchasedFrom(s)) - Total(PaidTo(s))

\* Nobody ever owes a negative amount, whatever is paid, reversed or refunded in
\* whatever order.
NoNegativeBalance ==
  /\ \A c \in Customers : customer[c].outstanding_balance >= 0
  /\ \A s \in Suppliers : payable_balance[s] >= 0

\* A customer's balance rises beyond the credit allowed (limit and override)
\* only when a payment is taken back: a sale never takes it there.
CreditRaisedOnlyWithinLimit ==
  [][\A c \in Customers :
       (/\ customer'[c].outstanding_balance > customer[c].outstanding_balance
        /\ UNCHANGED customer_payments)
       => \/ customer[c].credit_limit = 0
          \/ customer'[c].outstanding_balance
               <= customer[c].credit_limit + customer[c].override_amount]_vars

-----------------------------------------------------------------------------
\* Meters.

MeteredBy(n) ==
  [i \in 1..Len(sales) |->
     IF sales[i].nozzle = n /\ ~sales[i].rev.reversed THEN Quantity(sales[i]) ELSE 0]
Corrections(n) ==
  [i \in 1..Len(adjustments) |->
     IF adjustments[i].nozzle = n
     THEN adjustments[i].new_reading - adjustments[i].old_reading ELSE 0]

\* A meter shows its first reading plus the litres of the standing sales plus
\* the recorded corrections: a reversal never leaves a gap or an overlap.
MeterExplained ==
  \A n \in Nozzles :
    nozzle[n].meter_reading
      = OpeningMeter[n] + Total(MeteredBy(n)) + Total(Corrections(n))

LastAdjustment(n) ==
  LET its == {i \in 1..Len(adjustments) : adjustments[i].nozzle = n}
  IN  IF its = {} THEN 0 ELSE CHOOSE i \in its : \A j \in its : j <= i
InSegment(sale, n) == sale.nozzle = n /\ sale.adjustments_before >= LastAdjustment(n)
SegmentSales(n) ==
  [i \in 1..Len(sales) |->
     IF InSegment(sales[i], n) /\ ~sales[i].rev.reversed THEN Quantity(sales[i]) ELSE 0]

\* README.md:394: the current segment of a nozzle holds the sales since its start. The
\* code does not keep it: once an adjustment has brought the meter back to the reading
\* of an earlier sale, reversing that sale refutes it.
SegmentSum ==
  \A n \in Nozzles :
    nozzle[n].meter_reading - nozzle[n].segment_start = Total(SegmentSales(n))

-----------------------------------------------------------------------------
\* Shifts.

PostedTo(k, sale_type) ==
  [i \in 1..Len(sales) |->
     IF /\ sales[i].shift = k
        /\ sales[i].sale_type = sale_type
        /\ (~sales[i].rev.reversed \/ sales[i].after_close)
     THEN sales[i].total_amount ELSE 0]

\* The totals stored for a closed shift are the sales that stood when it was
\* closed: none is posted to it afterwards, and a later reversal is the only
\* difference to what still stands.  No user has two open shifts, and every sale of
\* a shift was posted to one that exists (shifts.py:18, :62).
ClosedTotalsHold ==
  /\ \A k \in 1..Len(shifts) : ~shifts[k].open =>
       /\ shifts[k].total_cash = Total(PostedTo(k, "cash"))
       /\ shifts[k].total_credit = Total(PostedTo(k, "credit"))
  /\ \A u \in Users : Cardinality(OpenShiftsOf(u)) <= 1
  /\ \A i \in 1..Len(sales) : sales[i].shift \in 0..Len(shifts)

-----------------------------------------------------------------------------
\* The reversal workflow, once for each table that has it.

DocOf(d) ==
  CASE d.reversed -> [state |-> "reversed", who |-> d.reversed_by]
    [] ~d.reversed /\ d.request = "pending" -> [state |-> "asked", who |-> d.requested_by]
    [] OTHER -> [state |-> "standing", who |-> Nobody]

DocsOf(table) == [i \in 1..Len(table) |-> DocOf(table[i].rev)]

SaleReversals == INSTANCE ReversalProtocol
  WITH docs <- DocsOf(sales), Staff <- ForecourtStaff, Deciders <- Reviewers,
       Admins <- Administrators
PurchaseReversals == INSTANCE ReversalProtocol
  WITH docs <- DocsOf(purchases), Staff <- ForecourtStaff, Deciders <- Reviewers,
       Admins <- Administrators
CustomerPaymentReversals == INSTANCE ReversalProtocol
  WITH docs <- DocsOf(customer_payments), Staff <- PaymentStaff, Deciders <- Reviewers,
       Admins <- Administrators
SupplierPaymentReversals == INSTANCE ReversalProtocol
  WITH docs <- DocsOf(supplier_payments), Staff <- PaymentStaff, Deciders <- Reviewers,
       Admins <- Administrators

\* No request is left approved without its reversal, and one that waits was made
\* by somebody who may not decide it.
ApprovedMeansReversed(table) ==
  \A i \in 1..Len(table) :
    LET d == table[i].rev IN
    /\ d.request = "approved" => d.reversed
    /\ d.request = "pending" => d.requested_by \in Users \ Reviewers

\* Fuel sales, purchases and both kinds of payments each implement the reversal
\* protocol (fuel_sales.py:201-282 and its copies): a document is reversed once, by
\* an administrator or on the request of one and the decision of another, and a
\* decision whose reversal is refused goes with it (fuel_sales.py:248).
SalesFollowWorkflow == SaleReversals!ProtocolSpec /\ []ApprovedMeansReversed(sales)

\* The same of customer payments (payments.py:118-198).
CustomerPaymentsFollowWorkflow ==
  /\ CustomerPaymentReversals!ProtocolSpec
  /\ []ApprovedMeansReversed(customer_payments)

\* The same of purchases and of the payments to their suppliers.
SupplySideFollowsWorkflow ==
  /\ PurchaseReversals!ProtocolSpec /\ []ApprovedMeansReversed(purchases)
  /\ SupplierPaymentReversals!ProtocolSpec /\ []ApprovedMeansReversed(supplier_payments)

=============================================================================
