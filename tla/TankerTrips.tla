----------------------------- MODULE TankerTrips ----------------------------
(***************************************************************************)
(* ppms/app/services/tanker_ops.py behind ppms/app/api/tanker.py.  A trip  *)
(* is filled with deliveries and expenses while it is in progress, and     *)
(* completing it posts it: a trip to the station becomes an approved       *)
(* purchase, a trip to customers raises the balances of those who took a   *)
(* delivery on credit.                                                     *)
(*                                                                         *)
(* The figures stored with a trip are recomputed by every call that adds   *)
(* to it.  A customer trip's supplier and tank, and a trip's destination   *)
(* and tanker, are stored and never read by a later step: left out.        *)
(***************************************************************************)
EXTENDS Purchases, Totals

CONSTANTS
  NoSupplier,          \* a trip without a supplier_id
  HaulQuantities,      \* quantity of a delivery, in litres
  HaulRates,           \* fuel_rate
  HaulCharges,         \* delivery_charge
  PaidAmounts,         \* paid_amount
  HaulExpenses,        \* amount of a trip expense
  MaxTrips,            \* bound: rows of the tanker_trips table
  MaxTripDeliveries,   \* bound: deliveries of one trip
  MaxTripExpenses      \* bound: expenses of one trip

ASSUME TankerTripsAssumption ==
  /\ NoSupplier \notin Suppliers
  /\ HaulQuantities \subseteq Nat \ {0} /\ HaulRates \subseteq Nat \ {0}
  /\ HaulCharges \subseteq Nat /\ PaidAmounts \subseteq Nat
  /\ HaulExpenses \subseteq Nat \ {0}
  /\ MaxTrips \in Nat /\ MaxTripDeliveries \in Nat /\ MaxTripExpenses \in Nat

VARIABLE trips   \* the tanker_trips table, each row with its deliveries and expenses

ToStation   == [type : {"supplier_to_station"}, tank : Tanks,
                supplier : Suppliers \cup {NoSupplier}]
ToCustomers == [type : {"supplier_to_customer"}]

DeliveryRow ==
  [customer : Customers \cup {NoCustomer}, quantity : Nat, fuel_amount : Nat,
   delivery_charge : Nat, sale_type : {"cash", "credit"}, outstanding_amount : Nat]

TripRow ==
  [route : ToStation \cup ToCustomers, completed : BOOLEAN,
   deliveries : Seq(DeliveryRow), expenses : Seq(Nat),
   total_quantity : Nat, fuel_revenue : Nat, net_profit : Int,
   settlement_status : {"paid", "partial", "unpaid"},
   linked_purchase : Nat]   \* the id of the purchase, 0 for none

Column(rows, field) == [k \in 1..Len(rows) |-> rows[k][field]]

-----------------------------------------------------------------------------
\* _recompute_trip_financials
Settlement(rows) ==
  LET owed  == Total(Column(rows, "outstanding_amount"))
      value == Total(Column(rows, "fuel_amount")) + Total(Column(rows, "delivery_charge"))
  IN  IF owed <= 0 THEN "paid" ELSE IF owed < value THEN "partial" ELSE "unpaid"

Earnings(trip) ==
  IF trip.route.type = "supplier_to_station" THEN 0
  ELSE Total(Column(trip.deliveries, "fuel_amount"))
       + Total(Column(trip.deliveries, "delivery_charge"))

Recomputed(trip) ==
  [trip EXCEPT
     !.total_quantity    = Total(Column(trip.deliveries, "quantity")),
     !.fuel_revenue      = Total(Column(trip.deliveries, "fuel_amount")),
     !.net_profit        = Earnings(trip) - Total(trip.expenses),
     !.settlement_status = Settlement(trip.deliveries)]

-----------------------------------------------------------------------------
tripOnly == <<current_volume, payable_balance, otherBooks, purchases>>

CreateTrip(u, route) ==
  /\ u \in ForecourtStaff
  /\ Len(trips) < MaxTrips
  /\ trips' = Append(trips,
       [route |-> route, completed |-> FALSE, deliveries |-> << >>, expenses |-> << >>,
        total_quantity |-> 0, fuel_revenue |-> 0, net_profit |-> 0,
        settlement_status |-> "unpaid", linked_purchase |-> 0])
  /\ UNCHANGED tripOnly

DeliveryOf(c, sale_type, quantity, rate, charge, paid) ==
  [customer |-> c, quantity |-> quantity, fuel_amount |-> quantity * rate,
   delivery_charge |-> charge, sale_type |-> sale_type,
   outstanding_amount |-> quantity * rate + charge - paid]

WithDelivery(trip, delivery) ==
  Recomputed([trip EXCEPT !.deliveries = Append(trip.deliveries, delivery)])

\* Slip: a completed trip is not computed again.
WithExpenseOnly(trip, amount) ==
  IF trip.completed
  THEN [trip EXCEPT !.expenses = Append(trip.expenses, amount)]
  ELSE Recomputed([trip EXCEPT !.expenses = Append(trip.expenses, amount)])

WithExpense(trip, amount) ==
  Recomputed([trip EXCEPT !.expenses = Append(trip.expenses, amount)])

\* Slip: a delivery may be added to a trip that is completed.
AddDeliveryAnytime(u, i, c, sale_type, quantity, rate, charge, paid) ==
  /\ u \in ForecourtStaff
  /\ Len(trips[i].deliveries) < MaxTripDeliveries
  /\ paid <= quantity * rate + charge
  /\ sale_type = "credit" => c # NoCustomer
  /\ trips' = [trips EXCEPT ![i] = WithDelivery(trips[i],
                  DeliveryOf(c, sale_type, quantity, rate, charge, paid))]
  /\ UNCHANGED tripOnly

AddTripDelivery(u, i, c, sale_type, quantity, rate, charge, paid) ==
  /\ u \in ForecourtStaff
  /\ ~trips[i].completed
  /\ Len(trips[i].deliveries) < MaxTripDeliveries
  /\ paid <= quantity * rate + charge
  /\ sale_type = "credit" => c # NoCustomer
  /\ trips' = [trips EXCEPT ![i] = WithDelivery(trips[i],
                  DeliveryOf(c, sale_type, quantity, rate, charge, paid))]
  /\ UNCHANGED tripOnly

\* An expense is accepted after completion too, and changes the profit shown.
AddTripExpense(u, i, amount) ==
  /\ u \in PaymentStaff
  /\ Len(trips[i].expenses) < MaxTripExpenses
  /\ trips' = [trips EXCEPT ![i] = WithExpense(trips[i], amount)]
  /\ UNCHANGED tripOnly

-----------------------------------------------------------------------------
\* Slip: a trip can be completed again.
MayCompleteAgain(trip) == trip.deliveries # << >>

MayComplete(trip) == ~trip.completed /\ trip.deliveries # << >>

\* Completing a trip to the station posts a purchase that nobody else approves.
CompleteStationTrip(u, i) ==
  LET trip == Recomputed(trips[i])
      route == trip.route
  IN
  /\ u \in ForecourtStaff
  /\ MayComplete(trip)
  /\ route.type = "supplier_to_station"
  /\ route.supplier # NoSupplier
  /\ FitsTank(route.tank, trip.total_quantity)
  /\ Len(purchases) < MaxPurchases
  /\ purchases' = Append(purchases,
       [supplier |-> route.supplier, tank |-> route.tank, quantity |-> trip.total_quantity,
        total_amount |-> trip.fuel_revenue, status |-> "approved", submitted_by |-> u,
        approved_by |-> u, rev |-> Fresh])
  /\ ApplyPurchaseEffects(route.tank, route.supplier, trip.total_quantity, trip.fuel_revenue)
  /\ trips' = [trips EXCEPT ![i] =
       [trip EXCEPT !.completed = TRUE, !.linked_purchase = Len(purchases) + 1]]
  /\ UNCHANGED otherBooks

\* Slip: cash deliveries that were not paid in full are charged as well.
ChargedForAll(rows, c) ==
  [k \in 1..Len(rows) |-> IF rows[k].customer = c THEN rows[k].outstanding_amount ELSE 0]

\* What completing a trip with these deliveries adds to the balance of customer c.
ChargedFor(rows, c) ==
  [k \in 1..Len(rows) |->
     IF rows[k].customer = c /\ rows[k].sale_type = "credit"
     THEN rows[k].outstanding_amount ELSE 0]

\* Completing a trip to customers checks no credit limit, and nothing in the
\* sales table stands for what it adds to a balance.
CompleteCustomerTrip(u, i) ==
  LET trip == Recomputed(trips[i]) IN
  /\ u \in ForecourtStaff
  /\ MayComplete(trip)
  /\ trip.route.type = "supplier_to_customer"
  /\ customer' = [c \in Customers |->
       [customer[c] EXCEPT !.outstanding_balance = @ + Total(ChargedFor(trip.deliveries, c))]]
  /\ trips' = [trips EXCEPT ![i] = [trip EXCEPT !.completed = TRUE]]
  /\ UNCHANGED <<current_volume, payable_balance, nozzle, sales, purchases>>

-----------------------------------------------------------------------------
TankerTripsInit == trips = << >>

TripRowNext(u, i) ==
  \/ \E c \in Customers \cup {NoCustomer}, sale_type \in {"cash", "credit"},
        quantity \in HaulQuantities, rate \in HaulRates, charge \in HaulCharges,
        paid \in PaidAmounts :
       AddTripDelivery(u, i, c, sale_type, quantity, rate, charge, paid)
  \/ \E amount \in HaulExpenses : AddTripExpense(u, i, amount)
  \/ CompleteStationTrip(u, i)
  \/ CompleteCustomerTrip(u, i)

TankerTripsNext ==
  \E u \in Users :
    \/ \E route \in ToStation \cup ToCustomers : CreateTrip(u, route)
    \/ \E i \in 1..Len(trips) : TripRowNext(u, i)

=============================================================================
