------------------------------ MODULE FuelSales -----------------------------
(***************************************************************************)
(* ppms/app/services/fuel_sales.py behind ppms/app/api/fuel_sale.py: a     *)
(* sale moves the nozzle's meter, takes its litres out of the tank and, on *)
(* credit, charges the customer; its reversal undoes all three.            *)
(*                                                                         *)
(* The NozzleReading row written beside a sale and deleted by its reversal *)
(* mirrors rev.reversed and is left out, as are the audit and notification *)
(* rows.  Two columns stand for timestamps: adjustments_before is how many *)
(* meter adjustments were recorded when the sale was (its place in the     *)
(* nozzle's segments) and after_close whether the sale was reversed once   *)
(* its shift had closed.                                                   *)
(***************************************************************************)
EXTENDS Shifts, Reversals

CONSTANTS
  MeterReadings,  \* readings that users enter: closing meters and adjustments
  Rates,          \* rate_per_liter
  MaxSales,       \* bound: rows of the fuel_sales table
  MaxAdjustments  \* bound: rows of the meter_adjustment_events table

ASSUME FuelSalesAssumption ==
  /\ MeterReadings \subseteq Nat
  /\ Rates \subseteq Nat \ {0}
  /\ MaxSales \in Nat /\ MaxAdjustments \in Nat

VARIABLE adjustments   \* the meter_adjustment_events table

SaleTypes == {"cash", "credit"}

FuelSaleRow ==
  [nozzle : Nozzles, customer : Customers \cup {NoCustomer}, sale_type : SaleTypes,
   shift : Nat, opening_meter : Nat, closing_meter : Nat, total_amount : Nat,
   adjustments_before : Nat, after_close : BOOLEAN, rev : Workflow]

AdjustmentRow == [nozzle : Nozzles, old_reading : Nat, new_reading : Nat]

Quantity(sale) == sale.closing_meter - sale.opening_meter

-----------------------------------------------------------------------------
\* The credit check and the consumption of an approved override.

\* Slip: the sale alone is compared with the credit, not the balance it leads to.
SaleWithinCredit(k, amount) ==
  k.credit_limit > 0 => amount <= k.credit_limit + k.override_amount

WithinCredit(k, amount) ==
  k.credit_limit > 0 => k.outstanding_balance + amount <= k.credit_limit + k.override_amount

OverLimit(k, amount) ==
  k.outstanding_balance + amount > k.credit_limit /\ k.override_amount > 0

OverrideLeft(k, amount) ==
  LET excess == (k.outstanding_balance + amount) - k.credit_limit
  IN  IF k.override_amount > excess THEN k.override_amount - excess ELSE 0

Charged(k, amount) ==
  LET owing == [k EXCEPT !.outstanding_balance = @ + amount]
  IN  IF ~OverLimit(k, amount) THEN owing
      ELSE [owing EXCEPT !.override_amount = OverrideLeft(k, amount),
                         !.override_requested = 0,
                         !.override_status = IF OverrideLeft(k, amount) = 0 THEN "none" ELSE @]

-----------------------------------------------------------------------------
\* Slip: the shift the caller names may have closed.
ShiftChoiceUnchecked(u, shift_id) ==
  IF shift_id # NoShift THEN {shift_id}
  ELSE IF OpenShiftsOf(u) = {} THEN {NoShift} ELSE OpenShiftsOf(u)

\* The shift a sale is posted to: the one the caller names, which must be open
\* (anybody's), else the caller's own open shift, if there is one.
ShiftChoice(u, shift_id) ==
  IF shift_id # NoShift THEN {k \in 1..Len(shifts) : k = shift_id /\ shifts[k].open}
  ELSE IF OpenShiftsOf(u) = {} THEN {NoShift} ELSE OpenShiftsOf(u)

CreateFuelSale(u, n, c, sale_type, closing, rate, shift_id) ==
  LET tank     == Feeds[n]
      opening  == nozzle[n].meter_reading
      quantity == closing - opening
      amount   == quantity * rate
      on_credit == sale_type = "credit"
  IN
  /\ u \in ForecourtStaff
  /\ Len(sales) < MaxSales
  /\ on_credit => c # NoCustomer
  /\ closing >= opening
  /\ quantity <= current_volume[tank]
  /\ on_credit => WithinCredit(customer[c], amount)
  /\ \E shift \in ShiftChoice(u, shift_id) :
       sales' = Append(sales,
         [nozzle |-> n, customer |-> c, sale_type |-> sale_type, shift |-> shift,
          opening_meter |-> opening, closing_meter |-> closing, total_amount |-> amount,
          adjustments_before |-> Len(adjustments), after_close |-> FALSE, rev |-> Fresh])
  /\ nozzle' = [nozzle EXCEPT ![n].meter_reading = closing]
  /\ current_volume' = [current_volume EXCEPT ![tank] = @ - quantity]
  /\ customer' = IF on_credit THEN [customer EXCEPT ![c] = Charged(@, amount)] ELSE customer
  /\ UNCHANGED <<payable_balance, shifts, adjustments>>

\* Slips: one of the three refusals is forgotten.
MayUndoLater(sale) ==
  /\ current_volume[Feeds[sale.nozzle]] + Quantity(sale) <= Capacity[Feeds[sale.nozzle]]
  /\ sale.customer # NoCustomer =>
       customer[sale.customer].outstanding_balance >= sale.total_amount
MayUndoOverflowing(sale) ==
  /\ nozzle[sale.nozzle].meter_reading = sale.closing_meter
  /\ sale.customer # NoCustomer =>
       customer[sale.customer].outstanding_balance >= sale.total_amount
MayUndoPaid(sale) ==
  /\ nozzle[sale.nozzle].meter_reading = sale.closing_meter
  /\ current_volume[Feeds[sale.nozzle]] + Quantity(sale) <= Capacity[Feeds[sale.nozzle]]

\* The refusals of reverse_fuel_sale after the workflow's own.  The customer's
\* balance is credited whatever the type of the sale.
MayUndo(sale) ==
  /\ nozzle[sale.nozzle].meter_reading = sale.closing_meter
  /\ current_volume[Feeds[sale.nozzle]] + Quantity(sale) <= Capacity[Feeds[sale.nozzle]]
  /\ sale.customer # NoCustomer =>
       customer[sale.customer].outstanding_balance >= sale.total_amount

\* reverse_fuel_sale: rev is what the workflow record of sale i becomes.
UndoSale(i, rev) ==
  LET sale == sales[i]
      tank == Feeds[sale.nozzle]
  IN
  /\ MayUndo(sale)
  /\ nozzle' = [nozzle EXCEPT ![sale.nozzle].meter_reading = sale.opening_meter]
  /\ current_volume' = [current_volume EXCEPT ![tank] = @ + Quantity(sale)]
  /\ customer' = IF sale.customer = NoCustomer THEN customer
                 ELSE [customer EXCEPT ![sale.customer].outstanding_balance = @ - sale.total_amount]
  /\ sales' = [sales EXCEPT ![i] = [@ EXCEPT
       !.rev = rev, !.after_close = sale.shift # NoShift /\ ~shifts[sale.shift].open]]
  /\ UNCHANGED <<payable_balance, shifts, adjustments>>

MarkSale(i, rev) ==
  /\ sales' = [sales EXCEPT ![i] = [@ EXCEPT !.rev = rev]]
  /\ UNCHANGED <<current_volume, nozzle, customer, payable_balance, shifts, adjustments>>

ReverseFuelSale(u, i) ==
  /\ u \in Administrators
  /\ MayReverse(sales[i].rev, u)
  /\ UndoSale(i, Reversed(sales[i].rev, u))

RequestFuelSaleReversal(u, i) ==
  /\ u \in ForecourtStaff \ Administrators
  /\ MayRequest(sales[i].rev)
  /\ MarkSale(i, Requested(sales[i].rev, u))

\* Slip: whoever may request a reversal may approve it.
ApproveFuelSaleReversalByStaff(u, i) ==
  /\ u \in ForecourtStaff
  /\ MayApprove(sales[i].rev)
  /\ UndoSale(i, Approved(sales[i].rev, u))

ApproveFuelSaleReversal(u, i) ==
  /\ u \in Reviewers
  /\ MayApprove(sales[i].rev)
  /\ UndoSale(i, Approved(sales[i].rev, u))

RejectFuelSaleReversal(u, i) ==
  /\ u \in Reviewers
  /\ MayReject(sales[i].rev)
  /\ MarkSale(i, Rejected(sales[i].rev))

-----------------------------------------------------------------------------
\* ppms/app/services/nozzle_meter.py: an administrator sets the meter to a new
\* reading, which starts a new sales segment.
AdjustNozzleMeter(u, n, new_reading) ==
  /\ u \in Administrators
  /\ Len(adjustments) < MaxAdjustments
  /\ new_reading # nozzle[n].meter_reading
  /\ adjustments' = Append(adjustments, [nozzle |-> n, new_reading |-> new_reading,
                                         old_reading |-> nozzle[n].meter_reading])
  /\ nozzle' = [nozzle EXCEPT ![n] = [meter_reading |-> new_reading,
                                      segment_start |-> new_reading]]
  /\ UNCHANGED <<current_volume, customer, payable_balance, sales, shifts>>

-----------------------------------------------------------------------------
FuelSalesInit == adjustments = << >>

SaleReversalNext(u, i) ==
  \/ ReverseFuelSale(u, i)
  \/ RequestFuelSaleReversal(u, i)
  \/ ApproveFuelSaleReversal(u, i)
  \/ RejectFuelSaleReversal(u, i)

FuelSalesNext ==
  \E u \in Users :
    \/ \E n \in Nozzles, c \in Customers \cup {NoCustomer}, sale_type \in SaleTypes,
          closing \in MeterReadings, rate \in Rates, shift_id \in 0..Len(shifts) :
         CreateFuelSale(u, n, c, sale_type, closing, rate, shift_id)
    \/ \E i \in 1..Len(sales) : SaleReversalNext(u, i)
    \/ \E n \in Nozzles, new_reading \in MeterReadings : AdjustNozzleMeter(u, n, new_reading)

=============================================================================
