--------------------------- MODULE HaulageReports ---------------------------
(***************************************************************************)
(* The reports on tanker trips (services/reports.py) and the section of    *)
(* the dashboard for them (api/dashboard.py).                              *)
(***************************************************************************)
EXTENDS HaulageBooks, Reports

CompletedTrips == {i \in 1..Len(trips) : trips[i].completed}

\* Sums of the columns that completed trips store; the dashboard's are the same.
TankerProfit ==
  [completed_trips  |-> Cardinality(CompletedTrips),
   fuel_revenue     |-> SumOf(trips, "fuel_revenue", CompletedTrips),
   total_net_profit |-> SumOf(trips, "net_profit", CompletedTrips)]

OverTrips(rows, value(_)) ==
  Total([i \in 1..Len(trips) |-> IF i \in rows THEN value(trips[i]) ELSE 0])

\* The rows of deliveries, whether their trips are completed or not.
TankerDeliveries(rows) ==
  [total_quantity |-> OverTrips(rows, LAMBDA t : Total(Column(t.deliveries, "quantity"))),
   fuel_revenue   |-> OverTrips(rows, LAMBDA t : Total(Column(t.deliveries, "fuel_amount"))),
   delivery_revenue |->
     OverTrips(rows, LAMBDA t : Total(Column(t.deliveries, "delivery_charge"))),
   credit_outstanding |->
     OverTrips(rows, LAMBDA t : Total(Column(t.deliveries, "outstanding_amount")))]

TankerExpenses(rows) == OverTrips(rows, LAMBDA t : Total(t.expenses))

CustomerTrips == {i \in CompletedTrips : trips[i].route.type = "supplier_to_customer"}

\* The profit that the tanker report and the dashboard add up from the columns stored
\* with completed trips (reports.py:310, dashboard.py:214) is what the delivery and
\* expense reports list for those trips (reports.py:355, :398), including expenses
\* that were entered after completion, and the suppliers' figures reconcile when
\* trips post purchases of their own.
HaulageReportsReconcile ==
  /\ TankerProfit.fuel_revenue = TankerDeliveries(CompletedTrips).fuel_revenue
  /\ TankerProfit.total_net_profit =
       TankerDeliveries(CustomerTrips).fuel_revenue
         + TankerDeliveries(CustomerTrips).delivery_revenue
         - TankerExpenses(CompletedTrips)
  /\ PayablesReconcile

=============================================================================
