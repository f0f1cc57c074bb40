---------------------------- MODULE HaulageProofs ---------------------------
(***************************************************************************)
(* Proofs about HaulageBooks for any station: trips keep the types, the    *)
(* bounds of tanks and balances hold although completing a trip passes by  *)
(* the approval of purchases, a completed trip keeps what it posted, and   *)
(* balances and purchases are explained by the documents and the trips.    *)
(* The reports show what these books say, with or without trips: their     *)
(* sums range over finite sets of rows, and come after the trips.  Last,   *)
(* what StationBooks guarantees holds with trips too, and the purchases    *)
(* that staff enter implement ApprovalProtocol.                            *)
(***************************************************************************)
EXTENDS HaulageReports, StationProofs

\* The columns of a trip's deliveries are tables of naturals.
LEMMA ColumnsTyped ==
  ASSUME NEW rows \in Seq(DeliveryRow)
  PROVE  /\ Column(rows, "quantity") \in Seq(Nat)
         /\ Column(rows, "fuel_amount") \in Seq(Nat)
         /\ Column(rows, "delivery_charge") \in Seq(Nat)
<1>1. \A k \in 1..Len(rows) : rows[k] \in DeliveryRow
  OBVIOUS
<1>2. \A k \in 1..Len(rows) : /\ rows[k].quantity \in Nat /\ rows[k].fuel_amount \in Nat
                              /\ rows[k].delivery_charge \in Nat
  BY <1>1 DEF DeliveryRow
<1>3. Len(rows) \in Nat
  OBVIOUS
<1>4. Column(rows, "quantity") \in Seq(Nat)
  BY <1>2, <1>3 DEF Column
<1>5. Column(rows, "fuel_amount") \in Seq(Nat)
  BY <1>2, <1>3 DEF Column
<1>6. Column(rows, "delivery_charge") \in Seq(Nat)
  BY <1>2, <1>3 DEF Column
<1> QED BY <1>4, <1>5, <1>6

\* Recomputing the figures of a trip keeps it a trip and what it carries.
LEMMA RecomputedTyped ==
  ASSUME NEW trip \in TripRow
  PROVE  /\ Recomputed(trip) \in TripRow
         /\ Recomputed(trip).route = trip.route
         /\ Recomputed(trip).completed = trip.completed
         /\ Recomputed(trip).deliveries = trip.deliveries
         /\ Recomputed(trip).linked_purchase = trip.linked_purchase
<1> DEFINE quantity == Total(Column(trip.deliveries, "quantity"))
           revenue == Total(Column(trip.deliveries, "fuel_amount"))
           profit == Earnings(trip) - Total(trip.expenses)
           settled == Settlement(trip.deliveries)
<1>1. /\ trip.deliveries \in Seq(DeliveryRow) /\ trip.expenses \in Seq(Nat)
  BY DEF TripRow
<1>2. quantity \in Nat /\ revenue \in Nat
  BY <1>1, ColumnsTyped, TotalNatural
<1>3. profit \in Int
  <2>1. Earnings(trip) \in Int
    <3>1. Total(Column(trip.deliveries, "delivery_charge")) \in Nat
      BY <1>1, ColumnsTyped, TotalNatural
    <3> QED BY <1>2, <3>1 DEF Earnings
  <2>2. Total(trip.expenses) \in Int
    BY <1>1, TotalNatural
  <2> QED BY <2>1, <2>2
<1>4. settled \in {"paid", "partial", "unpaid"}
  BY DEF Settlement
<1>5. Recomputed(trip) =
        [trip EXCEPT !.total_quantity = quantity, !.fuel_revenue = revenue,
                     !.net_profit = profit, !.settlement_status = settled]
  BY DEF Recomputed
<1> HIDE DEF quantity, revenue, profit, settled
<1> QED BY <1>2, <1>3, <1>4, <1>5 DEF TripRow

\* A delivery that is not paid beyond its value is a row.
LEMMA DeliveryTyped ==
  ASSUME NEW c \in Customers \cup {NoCustomer}, NEW sale_type \in {"cash", "credit"},
         NEW quantity \in HaulQuantities, NEW rate \in HaulRates, NEW charge \in HaulCharges,
         NEW paid \in PaidAmounts, paid <= quantity * rate + charge
  PROVE  DeliveryOf(c, sale_type, quantity, rate, charge, paid) \in DeliveryRow
<1> DEFINE amount == quantity * rate
<1>1. quantity \in Nat /\ rate \in Nat /\ charge \in Nat /\ paid \in Nat
  BY TankerTripsAssumption
<1>2. amount \in Nat
  BY <1>1
<1>3. DeliveryOf(c, sale_type, quantity, rate, charge, paid) =
        [customer |-> c, quantity |-> quantity, fuel_amount |-> amount,
         delivery_charge |-> charge, sale_type |-> sale_type,
         outstanding_amount |-> amount + charge - paid]
  BY DEF DeliveryOf
<1>4. paid <= amount + charge
  OBVIOUS
<1> HIDE DEF amount
<1>5. amount + charge - paid \in Nat
  BY <1>1, <1>2, <1>4
<1> QED BY <1>1, <1>2, <1>3, <1>5 DEF DeliveryRow

\* What a customer is charged for a trip is a natural.
LEMMA ChargedForTyped ==
  ASSUME NEW rows \in Seq(DeliveryRow), NEW c \in Customers
  PROVE  Total(ChargedFor(rows, c)) \in Nat
<1>1. \A k \in 1..Len(rows) : rows[k] \in DeliveryRow
  OBVIOUS
<1>2. \A k \in 1..Len(rows) : rows[k].outstanding_amount \in Nat
  BY <1>1 DEF DeliveryRow
<1>3. ChargedFor(rows, c) \in Seq(Nat)
  BY <1>2 DEF ChargedFor
<1> QED BY <1>3, TotalNatural

-----------------------------------------------------------------------------
\* A new trip is a row.
LEMMA CreateTripTyped ==
  ASSUME HaulageTypeOK, NEW u \in Users, NEW route \in ToStation \cup ToCustomers,
         CreateTrip(u, route)
  PROVE  trips' \in Seq(TripRow)
<1> DEFINE row == [route |-> route, completed |-> FALSE, deliveries |-> << >>,
                   expenses |-> << >>, total_quantity |-> 0, fuel_revenue |-> 0,
                   net_profit |-> 0, settlement_status |-> "unpaid", linked_purchase |-> 0]
<1>1. << >> \in Seq(DeliveryRow) /\ << >> \in Seq(Nat)
  OBVIOUS
<1>2. row \in TripRow
  BY <1>1 DEF TripRow
<1>3. trips' = Append(trips, row)
  BY DEF CreateTrip
<1> HIDE DEF row
<1> QED BY <1>2, <1>3 DEF HaulageTypeOK

\* A delivery or an expense is added to a row that stays one.
LEMMA AddedTyped ==
  ASSUME HaulageTypeOK, NEW i \in 1..Len(trips), NEW trip \in TripRow,
         trips' = [trips EXCEPT ![i] = Recomputed(trip)]
  PROVE  trips' \in Seq(TripRow)
<1> DEFINE row == Recomputed(trip)
<1>1. row \in TripRow
  BY RecomputedTyped
<1> HIDE DEF row
<1>2. trips' = [trips EXCEPT ![i] = row]
  BY DEF row
<1> QED BY <1>1, <1>2, RewriteRow DEF HaulageTypeOK

\* A delivery that is not overpaid keeps the row a trip.
LEMMA AddTripDeliveryTyped ==
  ASSUME HaulageTypeOK, NEW u \in Users, NEW i \in 1..Len(trips),
         NEW c \in Customers \cup {NoCustomer}, NEW sale_type \in {"cash", "credit"},
         NEW quantity \in HaulQuantities, NEW rate \in HaulRates, NEW charge \in HaulCharges,
         NEW paid \in PaidAmounts,
         AddTripDelivery(u, i, c, sale_type, quantity, rate, charge, paid)
  PROVE  trips' \in Seq(TripRow)
<1> DEFINE delivery == DeliveryOf(c, sale_type, quantity, rate, charge, paid)
           trip == [trips[i] EXCEPT !.deliveries = Append(trips[i].deliveries, delivery)]
<1>1. delivery \in DeliveryRow
  BY DeliveryTyped DEF AddTripDelivery
<1>2. trips[i] \in TripRow
  BY DEF HaulageTypeOK
<1>3. trips' = [trips EXCEPT ![i] = Recomputed(trip)]
  BY DEF AddTripDelivery, WithDelivery
<1> HIDE DEF delivery
<1>4. Append(trips[i].deliveries, delivery) \in Seq(DeliveryRow)
  BY <1>1, <1>2 DEF TripRow
<1>5. trip \in TripRow
  BY <1>2, <1>4 DEF TripRow
<1> QED BY <1>3, <1>5, AddedTyped

\* So does an expense.
LEMMA AddTripExpenseTyped ==
  ASSUME HaulageTypeOK, NEW u \in Users, NEW i \in 1..Len(trips), NEW amount \in HaulExpenses,
         AddTripExpense(u, i, amount)
  PROVE  trips' \in Seq(TripRow)
<1> DEFINE trip == [trips[i] EXCEPT !.expenses = Append(trips[i].expenses, amount)]
<1>1. amount \in Nat
  BY TankerTripsAssumption
<1>2. trips[i] \in TripRow
  BY DEF HaulageTypeOK
<1>3. trips' = [trips EXCEPT ![i] = Recomputed(trip)]
  BY DEF AddTripExpense, WithExpense
<1>4. Append(trips[i].expenses, amount) \in Seq(Nat)
  BY <1>1, <1>2 DEF TripRow
<1>5. trip \in TripRow
  BY <1>2, <1>4 DEF TripRow
<1> QED BY <1>3, <1>5, AddedTyped

\* Completing a trip to the station: what it posts, and that it fits.
LEMMA StationTripFacts ==
  ASSUME HaulageTypeOK, NEW u \in Users, NEW i \in 1..Len(trips), CompleteStationTrip(u, i)
  PROVE  \E t \in Tanks, s \in Suppliers, quantity \in Nat, amount \in Nat :
           /\ FitsTank(t, quantity)
           /\ ApplyPurchaseEffects(t, s, quantity, amount)
           /\ purchases' = Append(purchases,
                [supplier |-> s, tank |-> t, quantity |-> quantity, total_amount |-> amount,
                 status |-> "approved", submitted_by |-> u, approved_by |-> u, rev |-> Fresh])
           /\ trips' \in Seq(TripRow)
<1> DEFINE trip == Recomputed(trips[i])
           row == [trip EXCEPT !.completed = TRUE, !.linked_purchase = Len(purchases) + 1]
<1>1. trips[i] \in TripRow
  BY DEF HaulageTypeOK
<1>2. trip \in TripRow
  BY <1>1, RecomputedTyped
<1>3. /\ trip.route.type = "supplier_to_station" /\ trip.route.supplier # NoSupplier
      /\ FitsTank(trip.route.tank, trip.total_quantity)
      /\ ApplyPurchaseEffects(trip.route.tank, trip.route.supplier, trip.total_quantity,
                              trip.fuel_revenue)
      /\ purchases' = Append(purchases,
           [supplier |-> trip.route.supplier, tank |-> trip.route.tank,
            quantity |-> trip.total_quantity, total_amount |-> trip.fuel_revenue,
            status |-> "approved", submitted_by |-> u, approved_by |-> u, rev |-> Fresh])
      /\ trips' = [trips EXCEPT ![i] = row]
  BY DEF CompleteStationTrip
<1> HIDE DEF trip
<1>4. trip.route \in ToStation \cup ToCustomers
  BY <1>2 DEF TripRow
<1>5. trip.route \in ToStation
  BY <1>3, <1>4 DEF ToCustomers
<1>6. /\ trip.route.tank \in Tanks /\ trip.route.supplier \in Suppliers
      /\ trip.total_quantity \in Nat /\ trip.fuel_revenue \in Nat
  BY <1>2, <1>3, <1>5 DEF ToStation, TripRow
<1>7. Len(purchases) + 1 \in Nat
  BY DEF HaulageTypeOK, TypeOK
<1>8. row \in TripRow
  BY <1>2, <1>7 DEF TripRow
<1> HIDE DEF row
<1>9. trips' \in Seq(TripRow)
  BY <1>3, <1>8, RewriteRow DEF HaulageTypeOK
<1> QED BY <1>3, <1>6, <1>9

\* Completing a trip to customers raises balances, if anything.
LEMMA CustomerTripFacts ==
  ASSUME HaulageTypeOK, NEW u \in Users, NEW i \in 1..Len(trips), CompleteCustomerTrip(u, i)
  PROVE  /\ customer' \in [Customers -> Customer]
         /\ \A c \in Customers :
              customer'[c].outstanding_balance >= customer[c].outstanding_balance
         /\ trips' \in Seq(TripRow)
<1> DEFINE trip == Recomputed(trips[i])
           row == [trip EXCEPT !.completed = TRUE]
<1>1. trips[i] \in TripRow
  BY DEF HaulageTypeOK
<1>2. trip \in TripRow
  BY <1>1, RecomputedTyped
<1>3. /\ customer' = [c \in Customers |->
           [customer[c] EXCEPT !.outstanding_balance = @ + Total(ChargedFor(trip.deliveries, c))]]
      /\ trips' = [trips EXCEPT ![i] = row]
  BY DEF CompleteCustomerTrip
<1> HIDE DEF trip
<1>4. ASSUME NEW c \in Customers
      PROVE  /\ customer'[c] \in Customer
             /\ customer'[c].outstanding_balance >= customer[c].outstanding_balance
  <2> DEFINE charge == Total(ChargedFor(trip.deliveries, c))
  <2>1. trip.deliveries \in Seq(DeliveryRow)
    BY <1>2 DEF TripRow
  <2>2. charge \in Nat
    BY <2>1, ChargedForTyped
  <2>3. customer[c] \in Customer
    BY DEF HaulageTypeOK, TypeOK
  <2>4. customer'[c] = [customer[c] EXCEPT !.outstanding_balance = @ + charge]
    BY <1>3
  <2> HIDE DEF charge
  <2> QED BY <2>2, <2>3, <2>4 DEF Customer
<1>5. row \in TripRow
  BY <1>2 DEF TripRow
<1> HIDE DEF row
<1>6. trips' \in Seq(TripRow)
  BY <1>3, <1>5, RewriteRow DEF HaulageTypeOK
<1>7. customer' \in [Customers -> Customer]
  BY <1>3, <1>4
<1> QED BY <1>4, <1>6, <1>7

-----------------------------------------------------------------------------
\* Every operation on trips keeps the types.
LEMMA TripsTyped ==
  ASSUME HaulageTypeOK, TankerTripsNext, UNCHANGED <<salesVars, dips, paymentVars>>
  PROVE  HaulageTypeOK'
<1> USE DEF salesVars, paymentVars
<1>1. CASE UNCHANGED tripOnly /\ trips' \in Seq(TripRow)
  BY <1>1 DEF HaulageTypeOK, TypeOK, tripOnly, otherBooks
<1>2. PICK u \in Users :
        \/ \E route \in ToStation \cup ToCustomers : CreateTrip(u, route)
        \/ \E i \in 1..Len(trips) : TripRowNext(u, i)
  BY DEF TankerTripsNext
<1>3. ASSUME NEW route \in ToStation \cup ToCustomers, CreateTrip(u, route)
      PROVE  HaulageTypeOK'
  <2>1. UNCHANGED tripOnly
    BY <1>3 DEF CreateTrip
  <2> QED BY <1>1, <1>3, <2>1, CreateTripTyped
<1>4. ASSUME NEW i \in 1..Len(trips), TripRowNext(u, i)
      PROVE  HaulageTypeOK'
  <2>1. ASSUME NEW c \in Customers \cup {NoCustomer}, NEW sale_type \in {"cash", "credit"},
               NEW quantity \in HaulQuantities, NEW rate \in HaulRates,
               NEW charge \in HaulCharges, NEW paid \in PaidAmounts,
               AddTripDelivery(u, i, c, sale_type, quantity, rate, charge, paid)
        PROVE  HaulageTypeOK'
    <3>1. UNCHANGED tripOnly
      BY <2>1 DEF AddTripDelivery
    <3> QED BY <1>1, <2>1, <3>1, AddTripDeliveryTyped
  <2>2. ASSUME NEW amount \in HaulExpenses, AddTripExpense(u, i, amount)
        PROVE  HaulageTypeOK'
    <3>1. UNCHANGED tripOnly
      BY <2>2 DEF AddTripExpense
    <3> QED BY <1>1, <2>2, <3>1, AddTripExpenseTyped
  <2>3. CASE CompleteStationTrip(u, i)
    <3>1. PICK t \in Tanks, s \in Suppliers, quantity \in Nat, amount \in Nat :
            /\ ApplyPurchaseEffects(t, s, quantity, amount)
            /\ purchases' = Append(purchases,
                 [supplier |-> s, tank |-> t, quantity |-> quantity, total_amount |-> amount,
                  status |-> "approved", submitted_by |-> u, approved_by |-> u, rev |-> Fresh])
            /\ trips' \in Seq(TripRow)
      BY <2>3, StationTripFacts
    <3>2. Fresh \in Workflow
      BY DEF Fresh, Workflow, RequestStatuses
    <3>3. purchases' \in Seq(PurchaseRow)
      BY <3>1, <3>2 DEF PurchaseRow, PurchaseStatuses, HaulageTypeOK, TypeOK
    <3>4. current_volume' \in [Tanks -> Int] /\ payable_balance' \in [Suppliers -> Int]
      <4>1. current_volume \in [Tanks -> Int] /\ payable_balance \in [Suppliers -> Int]
        BY DEF HaulageTypeOK, TypeOK
      <4> QED BY <3>1, <4>1, EffectsTyped
    <3>5. UNCHANGED otherBooks
      BY <2>3 DEF CompleteStationTrip
    <3> QED BY <3>1, <3>3, <3>4, <3>5 DEF HaulageTypeOK, TypeOK, otherBooks
  <2>4. CASE CompleteCustomerTrip(u, i)
    <3>1. customer' \in [Customers -> Customer] /\ trips' \in Seq(TripRow)
      BY <2>4, CustomerTripFacts
    <3>2. UNCHANGED <<current_volume, payable_balance, nozzle, sales, purchases>>
      BY <2>4 DEF CompleteCustomerTrip
    <3> QED BY <3>1, <3>2 DEF HaulageTypeOK, TypeOK
  <2> QED BY <1>4, <2>1, <2>2, <2>3, <2>4 DEF TripRowNext
<1> QED BY <1>2, <1>3, <1>4

\* HaulageTypeOK is inductive.
LEMMA HaulageStepTyped == HaulageTypeOK /\ [HaulageNext]_haulageVars => HaulageTypeOK'
<1> SUFFICES ASSUME HaulageTypeOK, [HaulageNext]_haulageVars PROVE HaulageTypeOK'
  OBVIOUS
<1>1. CASE UNCHANGED haulageVars
  BY <1>1, StepTyped DEF HaulageTypeOK, haulageVars
<1>2. CASE Next /\ UNCHANGED trips
  BY <1>2, StepTyped DEF HaulageTypeOK
<1>3. CASE TankerTripsNext /\ UNCHANGED <<salesVars, dips, paymentVars>>
  BY <1>3, TripsTyped
<1> QED BY <1>1, <1>2, <1>3 DEF HaulageNext

\* In every reachable state of a station that hauls fuel, every record, row and
\* trip has the columns of its model: figures recomputed from any deliveries stay
\* naturals, nothing is owed in the negative, linked purchases are ids.
THEOREM HaulageTypeCorrect == HaulageSpec => []HaulageTypeOK
<1>1. HaulageInit => HaulageTypeOK
  BY InitTyped DEF HaulageInit, TankerTripsInit, HaulageTypeOK
<1> QED BY <1>1, HaulageStepTyped, PTL DEF HaulageSpec

-----------------------------------------------------------------------------
\* What the operations on trips do to the books: nothing, or what completing does.
LEMMA TripsCases ==
  ASSUME HaulageTypeOK, TankerTripsNext
  PROVE  \/ UNCHANGED tripOnly
         \/ \E u \in Users, i \in 1..Len(trips) : CompleteStationTrip(u, i)
         \/ \E u \in Users, i \in 1..Len(trips) : CompleteCustomerTrip(u, i)
<1>1. PICK u \in Users :
        \/ \E route \in ToStation \cup ToCustomers : CreateTrip(u, route)
        \/ \E i \in 1..Len(trips) : TripRowNext(u, i)
  BY DEF TankerTripsNext
<1>2. ASSUME NEW route \in ToStation \cup ToCustomers, CreateTrip(u, route)
      PROVE  UNCHANGED tripOnly
  BY <1>2 DEF CreateTrip
<1>3. ASSUME NEW i \in 1..Len(trips), TripRowNext(u, i)
      PROVE  UNCHANGED tripOnly \/ CompleteStationTrip(u, i) \/ CompleteCustomerTrip(u, i)
  BY <1>3 DEF TripRowNext, AddTripDelivery, AddTripExpense
<1> QED BY <1>1, <1>2, <1>3

\* Completing a trip never lowers a balance.
LEMMA TripsKeepBalances ==
  ASSUME HaulageTypeOK, NoNegativeBalance, TankerTripsNext
  PROVE  NoNegativeBalance'
<1>1. CASE UNCHANGED tripOnly
  BY <1>1 DEF tripOnly, otherBooks, NoNegativeBalance
<1>2. ASSUME NEW u \in Users, NEW i \in 1..Len(trips), CompleteStationTrip(u, i)
      PROVE  NoNegativeBalance'
  <2>1. PICK t \in Tanks, s \in Suppliers, quantity \in Nat, amount \in Nat :
          ApplyPurchaseEffects(t, s, quantity, amount)
    BY <1>2, StationTripFacts
  <2>2. UNCHANGED customer
    BY <1>2 DEF CompleteStationTrip, otherBooks
  <2>3. payable_balance \in [Suppliers -> Int]
    BY DEF HaulageTypeOK, TypeOK
  <2>4. payable_balance' = [payable_balance EXCEPT ![s] = payable_balance[s] + amount]
    BY <2>1 DEF ApplyPurchaseEffects
  <2>5. \A r \in Suppliers : payable_balance'[r] >= payable_balance[r]
    BY <2>3, <2>4
  <2>6. \A r \in Suppliers : payable_balance[r] \in Int /\ payable_balance'[r] \in Int
    BY <2>3, <2>4
  <2> QED BY <2>2, <2>5, <2>6 DEF NoNegativeBalance
<1>3. ASSUME NEW u \in Users, NEW i \in 1..Len(trips), CompleteCustomerTrip(u, i)
      PROVE  NoNegativeBalance'
  <2>1. /\ customer' \in [Customers -> Customer]
        /\ \A c \in Customers :
             customer'[c].outstanding_balance >= customer[c].outstanding_balance
    BY <1>3, CustomerTripFacts
  <2>2. UNCHANGED payable_balance
    BY <1>3 DEF CompleteCustomerTrip
  <2>3. ASSUME NEW c \in Customers
        PROVE  /\ customer[c].outstanding_balance \in Int
               /\ customer'[c].outstanding_balance \in Int
    <3>1. customer[c] \in Customer /\ customer'[c] \in Customer
      BY <2>1 DEF HaulageTypeOK, TypeOK
    <3> QED BY <3>1 DEF Customer
  <2> QED BY <2>1, <2>2, <2>3 DEF NoNegativeBalance
<1> QED BY <1>1, <1>2, <1>3, TripsCases

\* Hauling keeps every balance from going negative: what a trip posts only
\* raises what is owed, and its purchase is reversed like any other.
THEOREM HauledBalancesNeverNegative == HaulageSpec => []NoNegativeBalance
<1>1. HaulageInit => NoNegativeBalance
  BY DEF HaulageInit, Init, StateInit, NoNegativeBalance
<1>2. HaulageTypeOK /\ NoNegativeBalance /\ [HaulageNext]_haulageVars => NoNegativeBalance'
  <2> SUFFICES ASSUME HaulageTypeOK, NoNegativeBalance, [HaulageNext]_haulageVars
               PROVE  NoNegativeBalance'
    OBVIOUS
  <2>1. CASE UNCHANGED haulageVars
    BY <2>1, BalancesStep DEF HaulageTypeOK, haulageVars
  <2>2. CASE Next
    BY <2>2, BalancesStep DEF HaulageTypeOK
  <2>3. CASE TankerTripsNext
    BY <2>3, TripsKeepBalances
  <2> QED BY <2>1, <2>2, <2>3 DEF HaulageNext
<1> QED BY <1>1, <1>2, HaulageTypeCorrect, PTL DEF HaulageSpec

-----------------------------------------------------------------------------
\* A trip unloads into a tank only what fits.
LEMMA TripsKeepStock ==
  ASSUME HaulageTypeOK, StockWithinTank, TankerTripsNext, UNCHANGED dips
  PROVE  StockWithinTank'
<1>1. CASE UNCHANGED current_volume
  BY <1>1 DEF StockWithinTank
<1>2. ASSUME NEW u \in Users, NEW i \in 1..Len(trips), CompleteStationTrip(u, i)
      PROVE  StockWithinTank'
  <2>1. PICK t \in Tanks, s \in Suppliers, quantity \in Nat, amount \in Nat :
          FitsTank(t, quantity) /\ ApplyPurchaseEffects(t, s, quantity, amount)
    BY <1>2, StationTripFacts
  <2>2. quantity \in Int /\ ~(quantity < 0)
    OBVIOUS
  <2>3. StockMoved(t, quantity)
    BY <2>1, <2>2 DEF StockMoved, FitsTank, ApplyPurchaseEffects
  <2> QED BY <2>2, <2>3, StockMovedSafe DEF HaulageTypeOK
<1>3. ASSUME NEW u \in Users, NEW i \in 1..Len(trips), CompleteCustomerTrip(u, i)
      PROVE  StockWithinTank'
  BY <1>1, <1>3 DEF CompleteCustomerTrip
<1> QED BY <1>1, <1>2, <1>3, TripsCases DEF tripOnly

\* Tanks stay within their bounds although a trip posts its litres without the
\* approval of a purchase.
THEOREM HauledStockStaysInTank == HaulageSpec => []StockWithinTank
<1> DEFINE Safe == HaulageTypeOK /\ SalesMoveForward /\ StockWithinTank
<1>1. HaulageInit => SalesMoveForward /\ StockWithinTank
  BY RecordsAssumption DEF HaulageInit, Init, StateInit, SalesMoveForward, StockWithinTank
<1>2. Safe /\ [HaulageNext]_haulageVars => (SalesMoveForward /\ StockWithinTank)'
  <2> SUFFICES ASSUME Safe, [HaulageNext]_haulageVars
               PROVE  (SalesMoveForward /\ StockWithinTank)'
    OBVIOUS
  <2>1. CASE [Next]_vars
    BY <2>1, ForwardInductive, StockSafeStep DEF HaulageTypeOK, StockSafe
  <2>2. CASE TankerTripsNext /\ UNCHANGED <<salesVars, dips, paymentVars>>
    <3>1. UNCHANGED dips
      BY <2>2
    <3>2. UNCHANGED sales
      BY <2>2, TripsCases DEF tripOnly, otherBooks, CompleteStationTrip, CompleteCustomerTrip
    <3> QED BY <2>2, <3>1, <3>2, TripsKeepStock DEF SalesMoveForward
  <2> QED BY <2>1, <2>2 DEF HaulageNext, haulageVars
<1> QED BY <1>1, <1>2, HaulageTypeCorrect, PTL DEF HaulageSpec

-----------------------------------------------------------------------------
\* A step that rewrites one trip and leaves what it posted alone keeps the
\* completed trips.
LEMMA RewrittenTripKept ==
  ASSUME HaulageTypeOK, NEW i \in 1..Len(trips), NEW row,
         trips' = [trips EXCEPT ![i] = row],
         trips[i].completed => /\ row.completed
                               /\ row.deliveries = trips[i].deliveries
                               /\ row.linked_purchase = trips[i].linked_purchase
  PROVE  KeepsCompletedTrips
<1>1. ASSUME NEW k \in 1..Len(trips), trips[k].completed
      PROVE  /\ trips'[k].completed
             /\ trips'[k].deliveries = trips[k].deliveries
             /\ trips'[k].linked_purchase = trips[k].linked_purchase
  <2>1. CASE k = i
    <3>1. trips'[i] = row
      BY DEF HaulageTypeOK
    <3> QED BY <1>1, <2>1, <3>1
  <2>2. CASE k # i
    <3>1. trips'[k] = trips[k]
      BY <2>2 DEF HaulageTypeOK
    <3> QED BY <1>1, <3>1
  <2> QED BY <2>1, <2>2
<1> QED BY <1>1 DEF KeepsCompletedTrips

\* No operation on trips changes what a completed one posted.
LEMMA TripsKeepCompleted ==
  ASSUME HaulageTypeOK, TankerTripsNext
  PROVE  KeepsCompletedTrips
<1>1. PICK u \in Users :
        \/ \E route \in ToStation \cup ToCustomers : CreateTrip(u, route)
        \/ \E i \in 1..Len(trips) : TripRowNext(u, i)
  BY DEF TankerTripsNext
<1>2. ASSUME NEW route \in ToStation \cup ToCustomers, CreateTrip(u, route)
      PROVE  KeepsCompletedTrips
  <2>1. \A k \in 1..Len(trips) : trips'[k] = trips[k]
    BY <1>2 DEF CreateTrip, HaulageTypeOK
  <2> QED BY <2>1 DEF KeepsCompletedTrips
<1>3. ASSUME NEW i \in 1..Len(trips), TripRowNext(u, i)
      PROVE  KeepsCompletedTrips
  <2>0. trips[i] \in TripRow
    BY DEF HaulageTypeOK
  <2>1. CASE trips[i].completed
    <3>1. PICK amount \in HaulExpenses : AddTripExpense(u, i, amount)
      <4>1. ~CompleteStationTrip(u, i) /\ ~CompleteCustomerTrip(u, i)
        BY <2>0, <2>1, RecomputedTyped
        DEF CompleteStationTrip, CompleteCustomerTrip, MayComplete
      <4> QED BY <1>3, <2>1, <4>1 DEF TripRowNext, AddTripDelivery
    <3> DEFINE trip == [trips[i] EXCEPT !.expenses = Append(trips[i].expenses, amount)]
               row == Recomputed(trip)
    <3>2. trips' = [trips EXCEPT ![i] = row]
      BY <3>1 DEF AddTripExpense, WithExpense
    <3>3. amount \in Nat
      BY TankerTripsAssumption
    <3>4. Append(trips[i].expenses, amount) \in Seq(Nat)
      BY <2>0, <3>3 DEF TripRow
    <3>5. /\ trip \in TripRow /\ trip.completed = trips[i].completed
          /\ trip.deliveries = trips[i].deliveries
          /\ trip.linked_purchase = trips[i].linked_purchase
      BY <2>0, <3>4 DEF TripRow
    <3> HIDE DEF trip
    <3>6. /\ row.completed = trips[i].completed
          /\ row.deliveries = trips[i].deliveries
          /\ row.linked_purchase = trips[i].linked_purchase
      BY <3>5, RecomputedTyped
    <3> HIDE DEF row
    <3> QED BY <2>1, <3>2, <3>6, RewrittenTripKept
  <2>2. CASE ~trips[i].completed
    <3>1. PICK row : trips' = [trips EXCEPT ![i] = row]
      BY <1>3 DEF TripRowNext, AddTripDelivery, AddTripExpense, CompleteStationTrip,
                  CompleteCustomerTrip
    <3> QED BY <2>2, <3>1, RewrittenTripKept
  <2> QED BY <2>1, <2>2
<1> QED BY <1>1, <1>2, <1>3

\* What a completed trip posted stays as it was posted.
THEOREM CompletedTripsStayFixed == HaulageSpec => CompletedTripsFixed
<1>1. HaulageTypeOK /\ [HaulageNext]_haulageVars => [KeepsCompletedTrips]_haulageVars
  <2> SUFFICES ASSUME HaulageTypeOK, HaulageNext PROVE KeepsCompletedTrips
    OBVIOUS
  <2>1. CASE UNCHANGED trips
    BY <2>1 DEF KeepsCompletedTrips
  <2>2. CASE TankerTripsNext
    BY <2>2, TripsKeepCompleted
  <2> QED BY <2>1, <2>2 DEF HaulageNext
<1> QED BY <1>1, HaulageTypeCorrect, PTL DEF HaulageSpec, CompletedTripsFixed

-----------------------------------------------------------------------------
\* The figures stored with a trip are those of its deliveries and expenses.
Figured(trip) ==
  /\ trip.total_quantity = Total(Column(trip.deliveries, "quantity"))
  /\ trip.fuel_revenue = Total(Column(trip.deliveries, "fuel_amount"))
  /\ trip.net_profit = Earnings(trip) - Total(trip.expenses)
FiguresKept == \A i \in 1..Len(trips) : Figured(trips[i])

\* What an operation on trips does to them: a new one has nothing; otherwise one row
\* is written, whose figures are computed anew.
TripAdded ==
  \E row \in TripRow :
    /\ trips' = Append(trips, row)
    /\ ~row.completed /\ row.deliveries = << >> /\ row.linked_purchase = 0 /\ Figured(row)
    /\ UNCHANGED tripOnly

\* A delivery or an expense is added, the latter to a completed trip as well.
TripFilled(i) ==
  \E row \in TripRow :
    /\ trips' = [trips EXCEPT ![i] = row]
    /\ row.completed = trips[i].completed /\ row.route = trips[i].route
    /\ row.linked_purchase = trips[i].linked_purchase
    /\ trips[i].completed => row.deliveries = trips[i].deliveries
    /\ Figured(row)
    /\ UNCHANGED tripOnly

\* A trip to the station becomes a purchase, one to customers is charged to them.
TripUnloaded(i) ==
  \E row \in TripRow, p \in PurchaseRow :
    /\ ~trips[i].completed
    /\ trips' = [trips EXCEPT ![i] = row]
    /\ row.completed /\ row.route.type = "supplier_to_station"
    /\ row.linked_purchase = Len(purchases) + 1
    /\ Figured(row)
    /\ purchases' = Append(purchases, p)
    /\ p.status = "approved" /\ ~p.rev.reversed
    /\ p.quantity = row.total_quantity /\ p.total_amount = row.fuel_revenue
    /\ UNCHANGED otherBooks

TripCharged(i) ==
  \E row \in TripRow :
    /\ ~trips[i].completed
    /\ trips' = [trips EXCEPT ![i] = row]
    /\ row.completed /\ row.route.type = "supplier_to_customer"
    /\ row.linked_purchase = trips[i].linked_purchase
    /\ Figured(row)
    /\ \A c \in Customers :
         Owing(c)' = Owing(c) + Total(ChargedFor(row.deliveries, c))
    /\ UNCHANGED <<purchases, sales>>

LEMMA RecomputedFigured ==
  ASSUME NEW trip \in TripRow PROVE Figured(Recomputed(trip))
<1> DEFINE quantity == Total(Column(trip.deliveries, "quantity"))
           revenue == Total(Column(trip.deliveries, "fuel_amount"))
           profit == Earnings(trip) - Total(trip.expenses)
<1>1. Recomputed(trip).deliveries = trip.deliveries /\ Recomputed(trip).route = trip.route
  BY RecomputedTyped
<1>2. /\ Recomputed(trip).total_quantity = quantity /\ Recomputed(trip).fuel_revenue = revenue
      /\ Recomputed(trip).net_profit = profit /\ Recomputed(trip).expenses = trip.expenses
  <2> HIDE DEF quantity, revenue, profit
  <2> QED BY DEF Recomputed, TripRow, quantity, revenue, profit
<1>3. Earnings(Recomputed(trip)) = Earnings(trip)
  BY <1>1 DEF Earnings
<1> QED BY <1>1, <1>2, <1>3 DEF Figured

\* What the operations on trips do is one of four things.
LEMMA TripsSteps ==
  ASSUME HaulageTypeOK, TankerTripsNext
  PROVE  \/ TripAdded
         \/ \E i \in 1..Len(trips) :
              TripFilled(i) \/ TripUnloaded(i) \/ TripCharged(i)
<1>1. PICK u \in Users :
        \/ \E route \in ToStation \cup ToCustomers : CreateTrip(u, route)
        \/ \E i \in 1..Len(trips) : TripRowNext(u, i)
  BY DEF TankerTripsNext
<1>2. ASSUME NEW route \in ToStation \cup ToCustomers, CreateTrip(u, route)
      PROVE  TripAdded
  <2> DEFINE row == [route |-> route, completed |-> FALSE, deliveries |-> << >>,
                     expenses |-> << >>, total_quantity |-> 0, fuel_revenue |-> 0,
                     net_profit |-> 0, settlement_status |-> "unpaid", linked_purchase |-> 0]
  <2>1. << >> \in Seq(DeliveryRow) /\ << >> \in Seq(Nat)
    OBVIOUS
  <2>2. row \in TripRow
    BY <2>1 DEF TripRow
  <2>3. trips' = Append(trips, row) /\ UNCHANGED tripOnly
    BY <1>2 DEF CreateTrip
  <2>4. ~row.completed /\ row.deliveries = << >> /\ row.linked_purchase = 0
    OBVIOUS
  <2>5. Figured(row)
    <3>1. \A field : Column(<< >>, field) \in Seq(Int) /\ Len(Column(<< >>, field)) = 0
      BY DEF Column
    <3>2. Total(Column(<< >>, "quantity")) = 0
      BY <3>1, TotalEmpty
    <3>3. Total(Column(<< >>, "fuel_amount")) = 0
      BY <3>1, TotalEmpty
    <3>4. Total(Column(<< >>, "delivery_charge")) = 0
      BY <3>1, TotalEmpty
    <3>5. << >> \in Seq(Int) /\ Len(<< >>) = 0
      OBVIOUS
    <3>6. Total(<< >>) = 0
      BY <3>5, TotalEmpty
    <3>7. Earnings(row) = 0
      BY <3>3, <3>4 DEF Earnings
    <3> QED BY <3>2, <3>3, <3>6, <3>7 DEF Figured
  <2> HIDE DEF row
  <2> QED BY <2>2, <2>3, <2>4, <2>5 DEF TripAdded
<1>3. ASSUME NEW i \in 1..Len(trips), TripRowNext(u, i)
      PROVE  TripFilled(i) \/ TripUnloaded(i) \/ TripCharged(i)
  <2>0. trips[i] \in TripRow
    BY DEF HaulageTypeOK
  <2>1. ASSUME NEW c \in Customers \cup {NoCustomer}, NEW sale_type \in {"cash", "credit"},
               NEW quantity \in HaulQuantities, NEW rate \in HaulRates,
               NEW charge \in HaulCharges, NEW paid \in PaidAmounts,
               AddTripDelivery(u, i, c, sale_type, quantity, rate, charge, paid)
        PROVE  TripFilled(i)
    <3> DEFINE delivery == DeliveryOf(c, sale_type, quantity, rate, charge, paid)
               trip == [trips[i] EXCEPT !.deliveries = Append(trips[i].deliveries, delivery)]
    <3>1. delivery \in DeliveryRow
      BY <2>1, DeliveryTyped DEF AddTripDelivery
    <3>2. /\ trips' = [trips EXCEPT ![i] = Recomputed(trip)] /\ ~trips[i].completed
          /\ UNCHANGED tripOnly
      BY <2>1 DEF AddTripDelivery, WithDelivery
    <3> HIDE DEF delivery
    <3>3. Append(trips[i].deliveries, delivery) \in Seq(DeliveryRow)
      BY <2>0, <3>1 DEF TripRow
    <3>4. /\ trip \in TripRow /\ trip.completed = trips[i].completed
          /\ trip.route = trips[i].route /\ trip.linked_purchase = trips[i].linked_purchase
      BY <2>0, <3>3 DEF TripRow
    <3> HIDE DEF trip
    <3>5. /\ Recomputed(trip) \in TripRow /\ Figured(Recomputed(trip))
          /\ Recomputed(trip).completed = trip.completed
          /\ Recomputed(trip).route = trip.route
          /\ Recomputed(trip).linked_purchase = trip.linked_purchase
      BY <3>4, RecomputedTyped, RecomputedFigured
    <3> QED BY <3>2, <3>4, <3>5 DEF TripFilled
  <2>2. ASSUME NEW amount \in HaulExpenses, AddTripExpense(u, i, amount)
        PROVE  TripFilled(i)
    <3> DEFINE trip == [trips[i] EXCEPT !.expenses = Append(trips[i].expenses, amount)]
    <3>1. trips' = [trips EXCEPT ![i] = Recomputed(trip)] /\ UNCHANGED tripOnly
      BY <2>2 DEF AddTripExpense, WithExpense
    <3>2. Append(trips[i].expenses, amount) \in Seq(Nat)
      BY <2>0, TankerTripsAssumption DEF TripRow
    <3>3. /\ trip \in TripRow /\ trip.completed = trips[i].completed
          /\ trip.deliveries = trips[i].deliveries
          /\ trip.route = trips[i].route /\ trip.linked_purchase = trips[i].linked_purchase
      BY <2>0, <3>2 DEF TripRow
    <3> HIDE DEF trip
    <3>4. /\ Recomputed(trip) \in TripRow /\ Figured(Recomputed(trip))
          /\ Recomputed(trip).completed = trip.completed
          /\ Recomputed(trip).deliveries = trip.deliveries
          /\ Recomputed(trip).route = trip.route
          /\ Recomputed(trip).linked_purchase = trip.linked_purchase
      BY <3>3, RecomputedTyped, RecomputedFigured
    <3> QED BY <3>1, <3>3, <3>4 DEF TripFilled
  <2> DEFINE trip == Recomputed(trips[i])
  <2>3. /\ trip \in TripRow /\ Figured(trip)
        /\ trip.completed = trips[i].completed
        /\ trip.deliveries = trips[i].deliveries
        /\ trip.linked_purchase = trips[i].linked_purchase
    BY <2>0, RecomputedTyped, RecomputedFigured
  <2>4. CASE CompleteStationTrip(u, i)
    <3> DEFINE row == [trip EXCEPT !.completed = TRUE, !.linked_purchase = Len(purchases) + 1]
               p == [supplier |-> trip.route.supplier, tank |-> trip.route.tank,
                     quantity |-> trip.total_quantity, total_amount |-> trip.fuel_revenue,
                     status |-> "approved", submitted_by |-> u, approved_by |-> u,
                     rev |-> Fresh]
    <3>1. /\ ~trip.completed /\ trip.route.type = "supplier_to_station"
          /\ trip.route.supplier # NoSupplier
          /\ trips' = [trips EXCEPT ![i] = row]
          /\ purchases' = Append(purchases, p)
          /\ UNCHANGED otherBooks
      BY <2>4 DEF CompleteStationTrip, MayComplete
    <3> HIDE DEF trip
    <3>2. Len(purchases) + 1 \in Nat
      BY DEF HaulageTypeOK, TypeOK
    <3>3. /\ row \in TripRow /\ row.completed /\ row.route = trip.route
          /\ row.linked_purchase = Len(purchases) + 1
          /\ row.total_quantity = trip.total_quantity /\ row.fuel_revenue = trip.fuel_revenue
          /\ row.deliveries = trip.deliveries
      BY <2>3, <3>2 DEF TripRow
    <3>kept. row.net_profit = trip.net_profit /\ row.expenses = trip.expenses
      BY <2>3, <3>2 DEF TripRow
    <3>4. trip.route \in ToStation
      BY <2>3, <3>1 DEF TripRow, ToCustomers
    <3>5. trip.route.tank \in Tanks /\ trip.route.supplier \in Suppliers
      BY <3>1, <3>4 DEF ToStation
    <3>6. Fresh \in Workflow /\ ~Fresh.reversed
      BY DEF Fresh, Workflow, RequestStatuses
    <3>7. p \in PurchaseRow
      BY <2>3, <3>5, <3>6 DEF PurchaseRow, PurchaseStatuses, TripRow
    <3>8. /\ p.status = "approved" /\ ~p.rev.reversed
          /\ p.quantity = trip.total_quantity /\ p.total_amount = trip.fuel_revenue
      BY <3>6
    <3> HIDE DEF row, p
    <3>9. Figured(row)
      BY <2>3, <3>3, <3>kept DEF Figured, Earnings
    <3> QED BY <2>3, <3>1, <3>3, <3>7, <3>8, <3>9 DEF TripUnloaded
  <2>5. CASE CompleteCustomerTrip(u, i)
    <3> DEFINE row == [trip EXCEPT !.completed = TRUE]
    <3>1. /\ ~trip.completed /\ trip.route.type = "supplier_to_customer"
          /\ trips' = [trips EXCEPT ![i] = row]
          /\ customer' = [c \in Customers |->
               [customer[c] EXCEPT
                  !.outstanding_balance = @ + Total(ChargedFor(trip.deliveries, c))]]
          /\ UNCHANGED <<purchases, sales>>
      BY <2>5 DEF CompleteCustomerTrip, MayComplete
    <3> HIDE DEF trip
    <3>2. /\ row \in TripRow /\ row.completed /\ row.route = trip.route
          /\ row.linked_purchase = trip.linked_purchase
          /\ row.total_quantity = trip.total_quantity /\ row.fuel_revenue = trip.fuel_revenue
          /\ row.deliveries = trip.deliveries
      BY <2>3 DEF TripRow
    <3>kept. row.net_profit = trip.net_profit /\ row.expenses = trip.expenses
      BY <2>3 DEF TripRow
    <3> HIDE DEF row
    <3>3. Figured(row)
      BY <2>3, <3>2, <3>kept DEF Figured, Earnings
    <3>4. ASSUME NEW c \in Customers
          PROVE  Owing(c)' = Owing(c) + Total(ChargedFor(row.deliveries, c))
      <4> DEFINE charge == Total(ChargedFor(trip.deliveries, c))
      <4>1. customer[c] \in Customer
        BY DEF HaulageTypeOK, TypeOK
      <4>2. customer'[c] = [customer[c] EXCEPT !.outstanding_balance = @ + charge]
        BY <3>1
      <4>3. charge = Total(ChargedFor(row.deliveries, c))
        BY <3>2
      <4> HIDE DEF charge
      <4> QED BY <4>1, <4>2, <4>3 DEF Customer, Owing
    <3> QED BY <2>3, <3>1, <3>2, <3>3, <3>4 DEF TripCharged
  <2> QED BY <1>3, <2>1, <2>2, <2>4, <2>5 DEF TripRowNext
<1> QED BY <1>1, <1>2, <1>3

-----------------------------------------------------------------------------
\* What a customer owes is what the documents and the completed trips say.
Hauled(c) ==
  [trip \in TripRow |->
     IF trip.completed /\ trip.route.type = "supplier_to_customer"
     THEN Total(ChargedFor(trip.deliveries, c)) ELSE 0]

HauledBooked ==
  \A c \in Customers : Owing(c) = Account(c) + Total(Amounts(trips, Hauled(c)))

LEMMA HauledColumn ==
  ASSUME NEW c \in Customers PROVE Hauled(c) \in [TripRow -> Int]
<1>1. ASSUME NEW trip \in TripRow PROVE Total(ChargedFor(trip.deliveries, c)) \in Int
  BY ChargedForTyped DEF TripRow
<1> QED BY <1>1 DEF Hauled

\* The invariant in the words of HaulageBooks.
LEMMA HauledForm == HaulageTypeOK => (HauledBalanceExplained <=> HauledBooked)
<1> SUFFICES ASSUME HaulageTypeOK PROVE HauledBalanceExplained <=> HauledBooked
  OBVIOUS
<1>1. ASSUME NEW c \in Customers
      PROVE  CustomerLedger(c) - Total(CashRefundsTo(c)) = Account(c)
  <2>1. /\ CreditSalesTo(c) = Amounts(sales, BoughtOnCredit(c))
        /\ CashRefundsTo(c) = Amounts(sales, Refunded(c))
        /\ PaidBy(c) = Amounts(customer_payments, PaidFor(c))
    BY AccountColumnsForm DEF HaulageTypeOK
  <2> QED BY <2>1 DEF CustomerLedger, Account
<1>2. ASSUME NEW c \in Customers PROVE HauledTo(c) = Amounts(trips, Hauled(c))
  <2>1. ASSUME NEW i \in 1..Len(trips)
        PROVE  Hauled(c)[trips[i]] = HauledTo(c)[i]
    <3>1. trips[i] \in TripRow
      BY DEF HaulageTypeOK
    <3>2. [k \in 1..Len(trips[i].deliveries) |-> LeftUnpaid(trips[i].deliveries[k], c)]
            = ChargedFor(trips[i].deliveries, c)
      BY DEF LeftUnpaid, ChargedFor
    <3> QED BY <3>1, <3>2 DEF Hauled, HauledTo
  <2> QED BY <2>1 DEF HauledTo, Amounts
<1> QED BY <1>1, <1>2 DEF HauledBalanceExplained, HauledBooked, Owing

\* A trip that is added has been charged for nothing.
LEMMA HauledGrown ==
  ASSUME HaulageTypeOK, NEW c \in Customers, NEW row \in TripRow,
         trips' = Append(trips, row), ~row.completed
  PROVE  Total(Amounts(trips', Hauled(c))) = Total(Amounts(trips, Hauled(c)))
<1> DEFINE hauled == Hauled(c)
<1>1. hauled \in [TripRow -> Int] /\ hauled[row] = 0
  BY HauledColumn DEF Hauled
<1> HIDE DEF hauled
<1>2. /\ Total(Amounts(Append(trips, row), hauled)) = Total(Amounts(trips, hauled)) + hauled[row]
      /\ Total(Amounts(trips, hauled)) \in Int
  BY <1>1, AmountsAppended DEF HaulageTypeOK
<1>3. Total(Amounts(trips', hauled)) = Total(Amounts(trips, hauled))
  BY <1>1, <1>2
<1> QED BY <1>3 DEF hauled

\* Writing one trip changes the charges by what it is charged for now and was before.
LEMMA HauledChanged ==
  ASSUME HaulageTypeOK, NEW c \in Customers, NEW i \in 1..Len(trips), NEW row \in TripRow,
         trips' = [trips EXCEPT ![i] = row]
  PROVE  /\ Total(Amounts(trips', Hauled(c)))
              = Total(Amounts(trips, Hauled(c))) - Hauled(c)[trips[i]] + Hauled(c)[row]
         /\ Total(Amounts(trips, Hauled(c))) \in Int
         /\ Hauled(c)[trips[i]] \in Int /\ Hauled(c)[row] \in Int
<1> DEFINE hauled == Hauled(c)
<1>1. hauled \in [TripRow -> Int]
  BY HauledColumn
<1> HIDE DEF hauled
<1>2. /\ Total(Amounts([trips EXCEPT ![i] = row], hauled))
           = Total(Amounts(trips, hauled)) - hauled[trips[i]] + hauled[row]
      /\ Total(Amounts(trips, hauled)) \in Int
      /\ hauled[trips[i]] \in Int /\ hauled[row] \in Int
  BY <1>1, AmountsRewritten DEF HaulageTypeOK
<1> QED BY <1>2 DEF hauled

\* Operations on trips charge what they post.
LEMMA HauledBookedTrips ==
  ASSUME HaulageTypeOK, HauledBooked, TankerTripsNext, UNCHANGED paymentVars
  PROVE  HauledBooked'
<1> SUFFICES ASSUME NEW c \in Customers
             PROVE  Owing(c)' = Account(c)' + Total(Amounts(trips', Hauled(c)))
  BY DEF HauledBooked
<1> DEFINE hauled == Total(Amounts(trips, Hauled(c)))
           hauled_now == Total(Amounts(trips', Hauled(c)))
           account == Account(c)
<1>1. Owing(c) = account + hauled
  BY DEF HauledBooked
<1>2. UNCHANGED sales
  BY TripsSteps DEF TripAdded, TripFilled, TripUnloaded, TripCharged, tripOnly, otherBooks
<1>3. Account(c)' = account
  BY <1>2 DEF Account, paymentVars
<1>4. account \in Int
  BY AccountTyped DEF Account, HaulageTypeOK, TypeOK
<1>5. CASE TripAdded
  <2>1. hauled_now = hauled
    BY <1>5, HauledGrown DEF TripAdded
  <2>2. Owing(c)' = Owing(c)
    BY <1>5 DEF TripAdded, tripOnly, otherBooks, Owing
  <2> HIDE DEF hauled, hauled_now, account
  <2>3. Owing(c)' = Account(c)' + hauled_now
    BY <1>1, <1>3, <2>1, <2>2
  <2> QED BY <2>3 DEF hauled_now
<1>6. ASSUME NEW i \in 1..Len(trips), NEW row \in TripRow, trips' = [trips EXCEPT ![i] = row],
             Owing(c)' - Owing(c) = Hauled(c)[row] - Hauled(c)[trips[i]], Owing(c)' \in Int
      PROVE  Owing(c)' = Account(c)' + hauled_now
  <2> DEFINE before == Hauled(c)[trips[i]]
             after == Hauled(c)[row]
             owing_now == Owing(c)'
             owing == Owing(c)
  <2>1. /\ hauled_now = hauled - before + after
        /\ hauled \in Int /\ before \in Int /\ after \in Int
    BY <1>6, HauledChanged
  <2>2. owing_now - owing = after - before /\ owing_now \in Int
    BY <1>6
  <2>3. owing = account + hauled
    BY <1>1
  <2> HIDE DEF before, after, hauled, hauled_now, account, owing, owing_now
  <2>4. owing_now = account + hauled_now
    BY <1>4, <2>1, <2>2, <2>3
  <2> QED BY <1>3, <2>4 DEF owing_now
<1>7. Owing(c) \in Int
  BY DEF HaulageTypeOK, TypeOK, Customer, Owing
<1>8. ASSUME NEW i \in 1..Len(trips), TripFilled(i)
      PROVE  Owing(c)' = Account(c)' + hauled_now
  <2>1. PICK row \in TripRow :
          /\ trips' = [trips EXCEPT ![i] = row]
          /\ row.completed = trips[i].completed /\ row.route = trips[i].route
          /\ trips[i].completed => row.deliveries = trips[i].deliveries
          /\ UNCHANGED tripOnly
    BY <1>8 DEF TripFilled
  <2>2. trips[i] \in TripRow
    BY DEF HaulageTypeOK
  <2>3. Hauled(c)[row] = Hauled(c)[trips[i]] /\ Hauled(c)[row] \in Int
    BY <2>1, <2>2, HauledColumn DEF Hauled
  <2>4. Owing(c)' = Owing(c)
    BY <2>1 DEF tripOnly, otherBooks, Owing
  <2>5. Owing(c)' - Owing(c) = Hauled(c)[row] - Hauled(c)[trips[i]]
    BY <1>7, <2>3, <2>4
  <2> QED BY <1>6, <1>7, <2>1, <2>4, <2>5
<1>9. ASSUME NEW i \in 1..Len(trips), TripUnloaded(i)
      PROVE  Owing(c)' = Account(c)' + hauled_now
  <2>1. PICK row \in TripRow :
          /\ ~trips[i].completed
          /\ trips' = [trips EXCEPT ![i] = row]
          /\ row.completed /\ row.route.type = "supplier_to_station"
          /\ UNCHANGED otherBooks
    BY <1>9 DEF TripUnloaded
  <2>2. trips[i] \in TripRow
    BY DEF HaulageTypeOK
  <2>3. Hauled(c)[row] = 0 /\ Hauled(c)[trips[i]] = 0
    BY <2>1, <2>2 DEF Hauled
  <2>4. Owing(c)' = Owing(c)
    BY <2>1 DEF otherBooks, Owing
  <2>5. Owing(c)' - Owing(c) = Hauled(c)[row] - Hauled(c)[trips[i]]
    BY <1>7, <2>3, <2>4
  <2> QED BY <1>6, <1>7, <2>1, <2>4, <2>5
<1>10. ASSUME NEW i \in 1..Len(trips), TripCharged(i)
       PROVE  Owing(c)' = Account(c)' + hauled_now
  <2>1. PICK row \in TripRow :
          /\ ~trips[i].completed
          /\ trips' = [trips EXCEPT ![i] = row]
          /\ row.completed /\ row.route.type = "supplier_to_customer"
          /\ Owing(c)' = Owing(c) + Total(ChargedFor(row.deliveries, c))
    BY <1>10 DEF TripCharged
  <2>2. trips[i] \in TripRow
    BY DEF HaulageTypeOK
  <2>3. Hauled(c)[row] = Total(ChargedFor(row.deliveries, c)) /\ Hauled(c)[trips[i]] = 0
    BY <2>1, <2>2 DEF Hauled
  <2>4. Hauled(c)[row] \in Int
    BY HauledColumn
  <2>5. Owing(c)' - Owing(c) = Hauled(c)[row] - Hauled(c)[trips[i]] /\ Owing(c)' \in Int
    BY <1>7, <2>1, <2>3, <2>4
  <2> QED BY <1>6, <2>1, <2>5
<1> QED BY <1>5, <1>8, <1>9, <1>10, TripsSteps

\* Every other operation moves balance and account alike.
LEMMA HauledBookedBooks ==
  ASSUME HaulageTypeOK, HaulageTypeOK', HauledBooked, [Next]_vars, UNCHANGED trips
  PROVE  HauledBooked'
<1> SUFFICES ASSUME NEW c \in Customers
             PROVE  Owing(c)' = Account(c)' + Total(Amounts(trips', Hauled(c)))
  BY DEF HauledBooked
<1> DEFINE hauled == Total(Amounts(trips, Hauled(c)))
           account == Account(c)
           account_now == Account(c)'
           owing == Owing(c)
           owing_now == Owing(c)'
<1>1. /\ account \in Int /\ account_now \in Int
      /\ owing_now - owing = account_now - account
  BY OwingFollowsAccount DEF HaulageTypeOK
<1>2. owing = account + hauled
  BY DEF HauledBooked
<1>3. hauled \in Int
  BY HauledColumn, AmountsTyped DEF HaulageTypeOK
<1>4. Total(Amounts(trips', Hauled(c))) = hauled
  OBVIOUS
<1>5. owing_now \in Int
  BY DEF HaulageTypeOK, TypeOK, Customer, Owing
<1> HIDE DEF hauled, account, account_now, owing, owing_now
<1>6. owing_now = account_now + hauled
  BY <1>1, <1>2, <1>3, <1>5
<1> QED BY <1>4, <1>6 DEF owing_now, account_now

\* For every station that hauls fuel: a customer owes what the ledger says, less the
\* refunds of reversed cash sales, plus what the completed trips left unpaid
\* (tanker_ops.py:238-279, which writes to the balance and to no ledger).
THEOREM HauledBalancesAreBooked == HaulageSpec => []HauledBalanceExplained
<1>1. HaulageInit => HauledBooked
  <2> SUFFICES ASSUME HaulageInit, NEW c \in Customers
               PROVE  Owing(c) = Account(c) + Total(Amounts(trips, Hauled(c)))
    BY DEF HauledBooked
  <2>1. Owing(c) = Account(c)
    BY AccountsBookedInit DEF HaulageInit, AccountsBooked
  <2>2. trips \in Seq(TripRow) /\ Len(trips) = 0
    BY DEF HaulageInit, TankerTripsInit
  <2>3. Total(Amounts(trips, Hauled(c))) = 0
    BY <2>2, HauledColumn, AmountsEmpty
  <2>4. Owing(c) = 0
    BY DEF HaulageInit, Init, StateInit, Owing
  <2> QED BY <2>1, <2>3, <2>4
<1>2. HaulageTypeOK /\ HaulageTypeOK' /\ HauledBooked /\ [HaulageNext]_haulageVars => HauledBooked'
  <2>1. HaulageTypeOK /\ HaulageTypeOK' /\ HauledBooked /\ UNCHANGED haulageVars => HauledBooked'
    BY HauledBookedBooks DEF haulageVars
  <2> QED BY <2>1, HauledBookedBooks, HauledBookedTrips DEF HaulageNext
<1> QED BY <1>1, <1>2, HaulageTypeCorrect, HaulageStepTyped, HauledForm, PTL DEF HaulageSpec

-----------------------------------------------------------------------------
\* The figures of trips stay those of their deliveries.
LEMMA FiguresKeptStep ==
  ASSUME HaulageTypeOK, FiguresKept, TankerTripsNext
  PROVE  FiguresKept'
<1>1. CASE TripAdded
  <2>1. PICK row : trips' = Append(trips, row) /\ Figured(row)
    BY <1>1 DEF TripAdded
  <2> QED BY <2>1 DEF FiguresKept, HaulageTypeOK
<1>2. ASSUME NEW i \in 1..Len(trips),
             TripFilled(i) \/ TripUnloaded(i) \/ TripCharged(i)
      PROVE  FiguresKept'
  <2>1. PICK row : trips' = [trips EXCEPT ![i] = row] /\ Figured(row)
    BY <1>2 DEF TripFilled, TripUnloaded, TripCharged
  <2> QED BY <2>1 DEF FiguresKept, HaulageTypeOK
<1> QED BY <1>1, <1>2, TripsSteps

\* A purchase that waits was submitted by somebody who may not approve it, and one that
\* was approved was approved by a reviewer.
SelfApproved(p) == p.submitted_by \in Administrators
ReviewedBy(p) ==
  p.approved_by \in Reviewers /\ (p.approved_by # p.submitted_by \/ SelfApproved(p))

\* Nobody who is not an administrator both submits and reviews.
LEMMA StaffDoNotReview ==
  ASSUME NEW u \in ForecourtStaff, u \notin Administrators
  PROVE  u \notin Reviewers
BY DEF ForecourtStaff, Administrators, Reviewers, WithRole

LEMMA AdministratorsReview == Administrators \subseteq Reviewers
BY DEF Administrators, Reviewers, WithRole

SubmittedByOthers ==
  \A p \in 1..Len(purchases) :
    purchases[p].status = "pending" => purchases[p].submitted_by \notin Reviewers

\* A purchase keeps what it is of, who submitted it and, once decided, by whom.
SamePurchase(p, q) ==
  /\ q.quantity = p.quantity /\ q.total_amount = p.total_amount
  /\ q.submitted_by = p.submitted_by

\* What a step of the station does to the purchases: some are changed, one is added.
PurchaseKept(p, q) ==
  /\ SamePurchase(p, q)
  /\ \/ q.status = p.status /\ q.approved_by = p.approved_by
     \/ p.status = "pending" /\ q.status = "approved" /\ ReviewedBy(q)
     \/ p.status = "pending" /\ q.status = "rejected"
PurchaseNew(q) ==
  \/ q.status = "approved" /\ ReviewedBy(q)
  \/ q.status = "pending" /\ q.submitted_by \notin Reviewers

PurchasesEvolve ==
  \/ /\ Len(purchases') = Len(purchases)
     /\ \A k \in 1..Len(purchases) : PurchaseKept(purchases[k], purchases'[k])
  \/ \E q \in PurchaseRow : purchases' = Append(purchases, q) /\ PurchaseNew(q)

\* Rewriting one purchase, the others stay.
LEMMA OnePurchaseKept ==
  ASSUME TypeOK, NEW i \in 1..Len(purchases), NEW q,
         purchases' = [purchases EXCEPT ![i] = q], PurchaseKept(purchases[i], q)
  PROVE  PurchasesEvolve
<1>1. Len(purchases') = Len(purchases)
  BY DEF TypeOK
<1>2. ASSUME NEW k \in 1..Len(purchases) PROVE PurchaseKept(purchases[k], purchases'[k])
  <2>1. CASE k = i
    <3>1. purchases'[k] = q
      BY <2>1 DEF TypeOK
    <3> QED BY <2>1, <3>1
  <2>2. CASE k # i
    <3>1. purchases'[k] = purchases[k]
      BY <2>2 DEF TypeOK
    <3> QED BY <3>1 DEF PurchaseKept, SamePurchase
  <2> QED BY <2>1, <2>2
<1> QED BY <1>1, <1>2 DEF PurchasesEvolve

LEMMA PurchasesEvolveStep ==
  ASSUME TypeOK, SubmittedByOthers, [Next]_vars
  PROVE  PurchasesEvolve
<1>1. CASE UNCHANGED purchases
  BY <1>1 DEF PurchasesEvolve, PurchaseKept, SamePurchase
<1>2. CASE PurchasesNext
  <2>1. CASE PurchaseCreated
    <3>1. PICK u \in Users, s \in Suppliers, t \in Tanks, quantity \in Deliveries,
               rate \in PurchaseRates : CreatePurchase(u, s, t, quantity, rate)
      BY <2>1 DEF PurchaseCreated
    <3> DEFINE amount == quantity * rate
               q == [supplier |-> s, tank |-> t, quantity |-> quantity,
                     total_amount |-> amount,
                     status |-> IF u \in Administrators THEN "approved" ELSE "pending",
                     submitted_by |-> u,
                     approved_by |-> IF u \in Administrators THEN u ELSE Nobody, rev |-> Fresh]
    <3>2. purchases' = Append(purchases, q) /\ u \in ForecourtStaff
      BY <3>1 DEF CreatePurchase
    <3>3. PurchaseNew(q)
      BY <3>2, StaffDoNotReview, AdministratorsReview DEF PurchaseNew, ReviewedBy, SelfApproved
    <3>4. amount \in Nat /\ quantity \in Nat
      BY PurchasesAssumption
    <3>5. Fresh \in Workflow
      BY DEF Fresh, Workflow, RequestStatuses
    <3> HIDE DEF amount
    <3>6. q \in PurchaseRow
      BY <3>4, <3>5 DEF PurchaseRow, PurchaseStatuses
    <3> HIDE DEF q
    <3> QED BY <3>2, <3>3, <3>6 DEF PurchasesEvolve
  <2>2. CASE PurchaseApprovedStep
    <3>1. PICK u \in Users, i \in 1..Len(purchases) : ApprovePurchase(u, i)
      BY <2>2 DEF PurchaseApprovedStep
    <3> DEFINE q == [purchases[i] EXCEPT !.status = "approved", !.approved_by = u]
    <3>2. /\ purchases' = [purchases EXCEPT ![i] = q]
          /\ purchases[i].status = "pending" /\ u \in Reviewers
      BY <3>1 DEF ApprovePurchase
    <3>3. purchases[i] \in PurchaseRow
      BY PurchaseFields
    <3>4. /\ SamePurchase(purchases[i], q) /\ q.status = "approved" /\ q.approved_by = u
      BY <3>3 DEF SamePurchase, PurchaseRow
    <3>5. q.submitted_by # u
      BY <3>2, <3>4 DEF SubmittedByOthers, SamePurchase
    <3> HIDE DEF q
    <3>6. PurchaseKept(purchases[i], q)
      BY <3>2, <3>4, <3>5 DEF PurchaseKept, ReviewedBy
    <3> QED BY <3>2, <3>6, OnePurchaseKept
  <2>3. CASE PurchaseRejectedStep
    <3>1. PICK u \in Users, i \in 1..Len(purchases) : RejectPurchase(u, i)
      BY <2>3 DEF PurchaseRejectedStep
    <3> DEFINE q == [purchases[i] EXCEPT !.status = "rejected", !.approved_by = Nobody]
    <3>2. purchases' = [purchases EXCEPT ![i] = q] /\ purchases[i].status = "pending"
      BY <3>1 DEF RejectPurchase
    <3>3. purchases[i] \in PurchaseRow
      BY PurchaseFields
    <3>4. SamePurchase(purchases[i], q) /\ q.status = "rejected"
      BY <3>3 DEF SamePurchase, PurchaseRow
    <3> HIDE DEF q
    <3>5. PurchaseKept(purchases[i], q)
      BY <3>2, <3>4 DEF PurchaseKept
    <3> QED BY <3>2, <3>5, OnePurchaseKept
  <2>4. CASE PurchaseUndone \/ PurchaseMarked
    <3>1. PICK i \in 1..Len(purchases), rev \in Workflow :
            UndoPurchase(i, rev) \/ MarkPurchase(i, rev)
      BY <2>4 DEF PurchaseUndone, PurchaseMarked
    <3> DEFINE q == [purchases[i] EXCEPT !.rev = rev]
    <3>2. purchases' = [purchases EXCEPT ![i] = q]
      BY <3>1 DEF UndoPurchase, MarkPurchase
    <3>3. purchases[i] \in PurchaseRow
      BY PurchaseFields
    <3>4. PurchaseKept(purchases[i], q)
      BY <3>3 DEF PurchaseKept, SamePurchase, PurchaseRow
    <3> HIDE DEF q
    <3> QED BY <3>2, <3>4, OnePurchaseKept
  <2>5. CASE TankDipped
    BY <1>1, <2>5 DEF TankDipped, CreateTankDip
  <2> QED BY <1>2, <2>1, <2>2, <2>3, <2>4, <2>5, PurchasesCases
<1>3. CASE UNCHANGED purchaseVars
  BY <1>1, <1>3 DEF purchaseVars
<1>4. CASE UNCHANGED vars
  BY <1>1, <1>4 DEF vars, purchaseVars
<1> QED BY <1>2, <1>3, <1>4 DEF Next

-----------------------------------------------------------------------------
\* A trip that posted a purchase is completed, and the purchase says what it unloaded.
Posted(trip, p) ==
  /\ trip.completed /\ p.status = "approved"
  /\ trip.total_quantity = p.quantity /\ trip.fuel_revenue = p.total_amount

TripsLinked ==
  \A i \in 1..Len(trips) : trips[i].linked_purchase # 0 =>
    /\ trips[i].linked_purchase \in 1..Len(purchases)
    /\ Posted(trips[i], purchases[trips[i].linked_purchase])

\* No two trips posted the same purchase.
LinksDistinct ==
  \A i, k \in 1..Len(trips) :
    i # k /\ trips[i].linked_purchase # 0 => trips[i].linked_purchase # trips[k].linked_purchase

\* What no trip posted, a reviewer approved.
OthersReviewed ==
  \A p \in 1..Len(purchases) :
    purchases[p].status = "approved" => ReviewedBy(purchases[p]) \/ PostedBy(p) # {}

PurchasesAccounted ==
  /\ ReversedWereApproved /\ SubmittedByOthers /\ FiguresKept
  /\ TripsLinked /\ LinksDistinct /\ OthersReviewed

LEMMA PurchasesForm == HaulageTypeOK /\ PurchasesAccounted => PurchaseAccountedFor
<1> SUFFICES ASSUME HaulageTypeOK, PurchasesAccounted, NEW p \in 1..Len(purchases),
                    purchases[p].status = "approved"
             PROVE  \/ /\ purchases[p].approved_by \in Reviewers
                       /\ \/ purchases[p].approved_by # purchases[p].submitted_by
                          \/ purchases[p].submitted_by \in Administrators
                       /\ PostedBy(p) = {}
                    \/ \E i \in PostedBy(p) :
                         /\ PostedBy(p) = {i}
                         /\ trips[i].completed
                         /\ trips[i].total_quantity = purchases[p].quantity
                         /\ trips[i].fuel_revenue = purchases[p].total_amount
  BY DEF PurchaseAccountedFor, PurchasesAccounted, ReversedWereApproved
<1>1. CASE PostedBy(p) = {}
  BY <1>1 DEF PurchasesAccounted, OthersReviewed, ReviewedBy, SelfApproved
<1>2. CASE PostedBy(p) # {}
  <2>1. PICK i \in PostedBy(p) : TRUE
    BY <1>2
  <2>2. i \in 1..Len(trips) /\ trips[i].linked_purchase = p /\ p # 0
    BY <2>1 DEF PostedBy
  <2>3. Posted(trips[i], purchases[p])
    BY <2>2 DEF PurchasesAccounted, TripsLinked
  <2>4. \A k \in PostedBy(p) : k = i
    BY <2>2 DEF PurchasesAccounted, LinksDistinct, PostedBy
  <2>5. PostedBy(p) = {i}
    BY <2>1, <2>4
  <2> QED BY <2>1, <2>3, <2>5 DEF Posted
<1> QED BY <1>1, <1>2

\* Documents of the station leave what trips posted alone.
LEMMA AccountedBooks ==
  ASSUME HaulageTypeOK, PurchasesAccounted, [Next]_vars, UNCHANGED trips
  PROVE  PurchasesAccounted'
<1> USE DEF PurchasesAccounted
<1>1. TypeOK /\ purchases \in Seq(PurchaseRow) /\ Len(purchases) \in Nat
  BY DEF HaulageTypeOK, TypeOK
<1>2. PurchasesEvolve
  BY <1>1, PurchasesEvolveStep
<1>3. ReversedWereApproved'
  BY <1>1, ReversedStep
<1>4. FiguresKept' /\ LinksDistinct'
  BY DEF FiguresKept, LinksDistinct
<1>5. CASE /\ Len(purchases') = Len(purchases)
           /\ \A k \in 1..Len(purchases) : PurchaseKept(purchases[k], purchases'[k])
  <2>1. SubmittedByOthers'
    BY <1>5 DEF SubmittedByOthers, PurchaseKept, SamePurchase
  <2>2. TripsLinked'
    BY <1>5 DEF TripsLinked, PurchaseKept, SamePurchase, Posted
  <2>3. OthersReviewed'
    BY <1>5 DEF OthersReviewed, PurchaseKept, SamePurchase, ReviewedBy, SelfApproved, PostedBy
  <2> QED BY <1>3, <1>4, <2>1, <2>2, <2>3
<1>6. ASSUME NEW q \in PurchaseRow, purchases' = Append(purchases, q), PurchaseNew(q)
      PROVE  PurchasesAccounted'
  <2>1. /\ Len(purchases') = Len(purchases) + 1 /\ purchases'[Len(purchases) + 1] = q
        /\ \A k \in 1..Len(purchases) : purchases'[k] = purchases[k]
    BY <1>1, <1>6
  <2>2. SubmittedByOthers'
    BY <1>1, <1>6, <2>1 DEF SubmittedByOthers, PurchaseNew
  <2>3. TripsLinked'
    BY <1>1, <2>1 DEF TripsLinked
  <2>4. OthersReviewed'
    BY <1>1, <1>6, <2>1 DEF OthersReviewed, PurchaseNew, PostedBy, ReviewedBy, SelfApproved
  <2> QED BY <1>3, <1>4, <2>2, <2>3, <2>4
<1> QED BY <1>2, <1>5, <1>6 DEF PurchasesEvolve

\* Trips post purchases of their own.
LEMMA AccountedTrips ==
  ASSUME HaulageTypeOK, PurchasesAccounted, TankerTripsNext
  PROVE  PurchasesAccounted'
<1> USE DEF PurchasesAccounted
<1>1. /\ purchases \in Seq(PurchaseRow) /\ Len(purchases) \in Nat
      /\ trips \in Seq(TripRow) /\ Len(trips) \in Nat
  BY DEF HaulageTypeOK, TypeOK
<1>2. FiguresKept'
  BY FiguresKeptStep
<1>3. CASE TripAdded
  <2>1. PICK row \in TripRow : trips' = Append(trips, row) /\ row.linked_purchase = 0
    BY <1>3 DEF TripAdded
  <2>2. UNCHANGED purchases
    BY <1>3 DEF TripAdded, tripOnly
  <2>3. /\ Len(trips') = Len(trips) + 1 /\ trips'[Len(trips) + 1] = row
        /\ \A k \in 1..Len(trips) : trips'[k] = trips[k]
    BY <1>1, <2>1
  <2>4. ReversedWereApproved' /\ SubmittedByOthers'
    BY <2>2 DEF ReversedWereApproved, SubmittedByOthers
  <2>5. TripsLinked' /\ LinksDistinct'
    BY <1>1, <2>1, <2>2, <2>3 DEF TripsLinked, LinksDistinct
  <2>6. \A p \in 1..Len(purchases) : PostedBy(p) \subseteq PostedBy(p)'
    BY <1>1, <2>3 DEF PostedBy
  <2>7. OthersReviewed'
    BY <2>2, <2>6 DEF OthersReviewed
  <2> QED BY <1>2, <2>4, <2>5, <2>7
<1>4. ASSUME NEW i \in 1..Len(trips), NEW row \in TripRow,
             trips' = [trips EXCEPT ![i] = row], UNCHANGED purchases,
             row.linked_purchase = trips[i].linked_purchase,
             row.linked_purchase # 0 =>
               /\ row.completed
               /\ row.total_quantity = trips[i].total_quantity
               /\ row.fuel_revenue = trips[i].fuel_revenue
      PROVE  PurchasesAccounted'
  <2>1. /\ Len(trips') = Len(trips) /\ trips'[i] = row
        /\ \A k \in 1..Len(trips) : k # i => trips'[k] = trips[k]
    BY <1>1, <1>4
  <2>2. ReversedWereApproved' /\ SubmittedByOthers'
    BY <1>4 DEF ReversedWereApproved, SubmittedByOthers
  <2>3. \A k \in 1..Len(trips) : trips'[k].linked_purchase = trips[k].linked_purchase
    BY <1>4, <2>1
  <2>4. LinksDistinct' /\ \A p \in 1..Len(purchases) : PostedBy(p)' = PostedBy(p)
    BY <2>1, <2>3 DEF LinksDistinct, PostedBy
  <2>5. OthersReviewed'
    BY <1>4, <2>4 DEF OthersReviewed
  <2>6. TripsLinked'
    BY <1>4, <2>1, <2>3 DEF TripsLinked, Posted
  <2> QED BY <1>2, <2>2, <2>4, <2>5, <2>6
<1>5. ASSUME NEW i \in 1..Len(trips), TripFilled(i) PROVE PurchasesAccounted'
  <2>1. PICK row \in TripRow :
          /\ trips' = [trips EXCEPT ![i] = row]
          /\ row.completed = trips[i].completed
          /\ row.linked_purchase = trips[i].linked_purchase
          /\ trips[i].completed => row.deliveries = trips[i].deliveries
          /\ Figured(row) /\ UNCHANGED tripOnly
    BY <1>5 DEF TripFilled
  <2>2. row.linked_purchase # 0 => trips[i].completed
    BY <2>1 DEF TripsLinked, Posted
  <2>3. Figured(trips[i])
    BY DEF FiguresKept
  <2>4. row.linked_purchase # 0 =>
          /\ row.completed
          /\ row.total_quantity = trips[i].total_quantity
          /\ row.fuel_revenue = trips[i].fuel_revenue
    BY <2>1, <2>2, <2>3 DEF Figured
  <2> QED BY <1>4, <2>1, <2>4 DEF tripOnly
<1>6. ASSUME NEW i \in 1..Len(trips), TripCharged(i) PROVE PurchasesAccounted'
  <2>1. PICK row \in TripRow :
          /\ ~trips[i].completed
          /\ trips' = [trips EXCEPT ![i] = row]
          /\ row.linked_purchase = trips[i].linked_purchase
          /\ UNCHANGED purchases
    BY <1>6 DEF TripCharged
  <2>2. row.linked_purchase = 0
    BY <2>1 DEF TripsLinked, Posted
  <2> QED BY <1>4, <2>1, <2>2
<1>7. ASSUME NEW i \in 1..Len(trips), TripUnloaded(i) PROVE PurchasesAccounted'
  <2>1. PICK row \in TripRow, p \in PurchaseRow :
          /\ ~trips[i].completed
          /\ trips' = [trips EXCEPT ![i] = row]
          /\ row.completed /\ row.linked_purchase = Len(purchases) + 1
          /\ purchases' = Append(purchases, p)
          /\ p.status = "approved" /\ ~p.rev.reversed
          /\ p.quantity = row.total_quantity /\ p.total_amount = row.fuel_revenue
    BY <1>7 DEF TripUnloaded
  <2>2. /\ Len(trips') = Len(trips) /\ trips'[i] = row
        /\ \A k \in 1..Len(trips) : k # i => trips'[k] = trips[k]
    BY <1>1, <2>1
  <2>3. /\ Len(purchases') = Len(purchases) + 1 /\ purchases'[Len(purchases) + 1] = p
        /\ \A k \in 1..Len(purchases) : purchases'[k] = purchases[k]
    BY <1>1, <2>1
  <2>4. ReversedWereApproved' /\ SubmittedByOthers'
    BY <1>1, <2>1, <2>3 DEF ReversedWereApproved, SubmittedByOthers
  <2>5. trips[i].linked_purchase = 0
    BY <2>1 DEF TripsLinked, Posted
  <2>6. \A k \in 1..Len(trips) :
          trips[k].linked_purchase # 0 => trips[k].linked_purchase \in 1..Len(purchases)
    BY DEF TripsLinked
  <2>7. TripsLinked'
    <3> SUFFICES ASSUME NEW k \in 1..Len(trips), trips'[k].linked_purchase # 0
                 PROVE  /\ trips'[k].linked_purchase \in 1..Len(purchases')
                        /\ Posted(trips'[k], purchases'[trips'[k].linked_purchase])
      BY <2>2 DEF TripsLinked
    <3>1. CASE k = i
      BY <1>1, <2>1, <2>2, <2>3, <3>1 DEF Posted
    <3>2. CASE k # i
      BY <1>1, <2>2, <2>3, <3>2 DEF TripsLinked
    <3> QED BY <3>1, <3>2
  <2>8. LinksDistinct'
    <3> SUFFICES ASSUME NEW j \in 1..Len(trips), NEW k \in 1..Len(trips), j # k,
                        trips'[j].linked_purchase # 0
                 PROVE  trips'[j].linked_purchase # trips'[k].linked_purchase
      BY <2>2 DEF LinksDistinct
    <3>1. Len(purchases) + 1 \notin 1..Len(purchases) /\ Len(purchases) + 1 # 0
      BY <1>1
    <3>2. CASE j = i
      BY <2>1, <2>2, <2>6, <3>1, <3>2
    <3>3. CASE k = i
      BY <2>1, <2>2, <2>6, <3>1, <3>3
    <3>4. CASE j # i /\ k # i
      BY <2>2, <3>4 DEF LinksDistinct
    <3> QED BY <3>2, <3>3, <3>4
  <2>9. OthersReviewed'
    <3> SUFFICES ASSUME NEW k \in 1..Len(purchases'), purchases'[k].status = "approved"
                 PROVE  ReviewedBy(purchases'[k]) \/ PostedBy(k)' # {}
      BY DEF OthersReviewed, ReviewedBy, SelfApproved
    <3>1. CASE k = Len(purchases) + 1
      <4>1. i \in PostedBy(k)'
        BY <2>1, <2>2, <3>1 DEF PostedBy
      <4> QED BY <4>1
    <3>2. CASE k \in 1..Len(purchases)
      <4>1. PostedBy(k) \subseteq PostedBy(k)'
        BY <2>2, <2>5, <3>2 DEF PostedBy
      <4> QED BY <2>3, <3>2, <4>1 DEF OthersReviewed
    <3> QED BY <1>1, <2>3, <3>1, <3>2
  <2> QED BY <1>2, <2>4, <2>7, <2>8, <2>9
<1> QED BY <1>3, <1>5, <1>6, <1>7, TripsSteps

\* The links between purchases and trips stay in order.
LEMMA PurchasesAccountedAlways == HaulageSpec => []PurchasesAccounted
<1>1. HaulageInit => PurchasesAccounted
  <2> SUFFICES ASSUME HaulageInit PROVE PurchasesAccounted
    OBVIOUS
  <2>1. Len(purchases) = 0 /\ Len(trips) = 0
    BY DEF HaulageInit, Init, PurchasesInit, TankerTripsInit
  <2> QED BY <2>1 DEF PurchasesAccounted, ReversedWereApproved, SubmittedByOthers, FiguresKept,
                      TripsLinked, LinksDistinct, OthersReviewed
<1>2. HaulageTypeOK /\ PurchasesAccounted /\ [HaulageNext]_haulageVars => PurchasesAccounted'
  <2>1. HaulageTypeOK /\ PurchasesAccounted /\ UNCHANGED haulageVars => PurchasesAccounted'
    BY AccountedBooks DEF haulageVars
  <2> QED BY <2>1, AccountedBooks, AccountedTrips DEF HaulageNext
<1> QED BY <1>1, <1>2, HaulageTypeCorrect, PTL DEF HaulageSpec

\* For every station that hauls fuel: a purchase that counts was approved by a reviewer
\* who did not submit it, or is what exactly one completed trip posted, and says what
\* that trip unloaded - also when expenses are added to the trip later, which computes
\* its figures again (purchases.py:112-150, tanker_ops.py:238-279).
THEOREM PurchasesAreAccountedFor == HaulageSpec => []PurchaseAccountedFor
BY PurchasesAccountedAlways, HaulageTypeCorrect, PurchasesForm, PTL
-----------------------------------------------------------------------------
(***************************************************************************)
(* Sums over a set of rows (SumOver of Reports), in whatever order the     *)
(* database lists them.                                                    *)
(***************************************************************************)

\* The row that a fold over T takes next.
Listed(T) == CHOOSE x \in T : TRUE

\* What can be summed over the rows of S.
Summable(f, S) == \A x \in S : f[x] \in Int

\* g sums f over the subsets of S that have n elements at most.
IsSum(g, f, S, n) ==
  \A T \in SUBSET S : Cardinality(T) <= n =>
    /\ g[T] \in Int
    /\ g[T] = IF T = {} THEN 0 ELSE f[Listed(T)] + g[T \ {Listed(T)}]

\* h is defined as a fold of f over the subsets of S.
Folds(h, f, S) ==
  \A T \in SUBSET S : h[T] = IF T = {} THEN 0 ELSE f[Listed(T)] + h[T \ {Listed(T)}]

\* h and g agree on the subsets of S.
Agree(h, g, S) == \A T \in SUBSET S : h[T] = g[T]

\* There is a function that sums f over the subsets of S.
HasSums(f, S) ==
  \E g \in [SUBSET S -> Int] :
    /\ IsSum(g, f, S, Cardinality(S))
    /\ \A T \in SUBSET S : SumOver(T, f) = g[T]

\* The other rows of a set are one fewer.
LEMMA OthersFewer ==
  ASSUME NEW S, IsFiniteSet(S), NEW T \in SUBSET S, NEW x \in T
  PROVE  /\ T \ {x} \in SUBSET S /\ IsFiniteSet(T)
         /\ Cardinality(T) \in Nat \ {0} /\ Cardinality(T \ {x}) = Cardinality(T) - 1
<1>1. IsFiniteSet(T)
  BY FS_Subset
<1>2. Cardinality(T) \in Nat /\ Cardinality(T) # 0
  BY <1>1, FS_CardinalityType, FS_EmptySet
<1> QED BY <1>1, <1>2, FS_RemoveElement

LEMMA ListedIn ==
  ASSUME NEW T, T # {}
  PROVE  Listed(T) \in T
BY DEF Listed

LEMMA SumsExist ==
  ASSUME NEW S, IsFiniteSet(S), NEW f, Summable(f, S), NEW n \in Nat
  PROVE  \E g \in [SUBSET S -> Int] : IsSum(g, f, S, n)
<1> DEFINE N == {m \in Nat : \E g \in [SUBSET S -> Int] : IsSum(g, f, S, m)}
<1>1. 0 \in N
  <2>1. PICK g : g = [T \in SUBSET S |-> 0]
    OBVIOUS
  <2>2. \A T \in SUBSET S : Cardinality(T) <= 0 => T = {}
    BY FS_Subset, FS_CardinalityType, FS_EmptySet
  <2>3. g \in [SUBSET S -> Int] /\ IsSum(g, f, S, 0)
    BY <2>1, <2>2 DEF IsSum
  <2> QED BY <2>3
<1>2. ASSUME NEW m \in Nat, m \in N PROVE m+1 \in N
  <2>1. PICK g \in [SUBSET S -> Int] : IsSum(g, f, S, m)
    BY <1>2
  <2>2. PICK h : h = [T \in SUBSET S |-> IF Cardinality(T) <= m THEN g[T]
                        ELSE f[Listed(T)] + g[T \ {Listed(T)}]]
    OBVIOUS
  <2> USE DEF Summable
  <2>3. ASSUME NEW T \in SUBSET S, T # {}
        PROVE  /\ f[Listed(T)] \in Int /\ g[T \ {Listed(T)}] \in Int
               /\ T \ {Listed(T)} \in SUBSET S
               /\ Cardinality(T) \in Nat \ {0}
               /\ Cardinality(T \ {Listed(T)}) = Cardinality(T) - 1
    <3>1. PICK x \in T : x = Listed(T)
      BY <2>3, ListedIn
    <3>2. T \ {x} \in SUBSET S /\ Cardinality(T \ {x}) = Cardinality(T) - 1
          /\ Cardinality(T) \in Nat \ {0}
      BY OthersFewer
    <3> QED BY <3>1, <3>2
  <2>4. \A T \in SUBSET S : Cardinality(T) \in Nat
    BY FS_Subset, FS_CardinalityType
  <2>5. \A T \in SUBSET S : T = {} => Cardinality(T) = 0
    BY FS_EmptySet
  <2>6. h \in [SUBSET S -> Int]
    <3> SUFFICES ASSUME NEW T \in SUBSET S PROVE h[T] \in Int
      BY <2>2
    <3>1. CASE T = {}
      BY <2>2, <2>5, <3>1
    <3>2. CASE T # {}
      BY <2>2, <2>3, <3>2
    <3> QED BY <3>1, <3>2
  <2>7. ASSUME NEW T \in SUBSET S, Cardinality(T) <= m+1
        PROVE  h[T] = IF T = {} THEN 0 ELSE f[Listed(T)] + h[T \ {Listed(T)}]
    <3>1. CASE T = {}
      BY <2>1, <2>2, <2>5, <3>1 DEF IsSum
    <3>2. CASE T # {}
      <4>1. h[T \ {Listed(T)}] = g[T \ {Listed(T)}]
        BY <2>2, <2>3, <2>7, <3>2
      <4>2. h[T] = f[Listed(T)] + g[T \ {Listed(T)}]
        BY <2>1, <2>2, <2>3, <3>2 DEF IsSum
      <4> QED BY <3>2, <4>1, <4>2
    <3> QED BY <3>1, <3>2
  <2>8. IsSum(h, f, S, m+1)
    BY <2>6, <2>7 DEF IsSum
  <2> QED BY <2>6, <2>8
<1>3. N = Nat
  <2>1. N \in SUBSET Nat
    OBVIOUS
  <2> HIDE DEF N
  <2> QED BY <1>1, <1>2, <2>1, SetInduction
<1> QED BY <1>3

\* Every function that is defined by the recursion is the same on the subsets.
LEMMA SumsAgree ==
  ASSUME NEW S, IsFiniteSet(S), NEW f, NEW g, NEW h,
         IsSum(g, f, S, Cardinality(S)), Folds(h, f, S)
  PROVE  Agree(h, g, S)
<1> DEFINE n == Cardinality(S)
<1> USE DEF Folds
<1>0. n \in Nat /\ \A T \in SUBSET S : Cardinality(T) <= n
  BY FS_Subset, FS_CardinalityType
<1> HIDE DEF n
<1>n. IsSum(g, f, S, n)
  BY DEF n
<1> DEFINE N == {m \in Nat : m <= n =>
                   \A T \in SUBSET S : Cardinality(T) <= m => h[T] = g[T]}
<1>1. 0 \in N
  <2>1. \A T \in SUBSET S : Cardinality(T) <= 0 => T = {} /\ Cardinality(T) <= n
    BY <1>0, FS_Subset, FS_CardinalityType, FS_EmptySet
  <2>2. \A T \in SUBSET S : Cardinality(T) <= 0 => h[T] = g[T]
    BY <1>n, <2>1 DEF IsSum
  <2> QED BY <2>2
<1>2. ASSUME NEW m \in Nat, m \in N PROVE m+1 \in N
  <2> SUFFICES ASSUME m+1 <= n, NEW T \in SUBSET S, Cardinality(T) <= m+1
               PROVE  h[T] = g[T]
    OBVIOUS
  <2>1. Cardinality(T) \in Nat /\ Cardinality(T) <= n
    BY <1>0, FS_Subset, FS_CardinalityType
  <2>2. CASE T = {}
    BY <1>n, <2>1, <2>2 DEF IsSum
  <2>3. CASE T # {}
    <3>0. PICK x \in T : x = Listed(T)
      BY <2>3, ListedIn
    <3>1. T \ {Listed(T)} \in SUBSET S /\ Cardinality(T \ {Listed(T)}) <= m /\ m <= n
      <4>1. /\ T \ {x} \in SUBSET S /\ IsFiniteSet(T)
            /\ Cardinality(T) \in Nat \ {0} /\ Cardinality(T \ {x}) = Cardinality(T) - 1
        BY OthersFewer
      <4>2. Cardinality(T \ {x}) <= m /\ m <= n
        BY <1>0, <4>1
      <4> QED BY <3>0, <4>1, <4>2
    <3>2. h[T \ {Listed(T)}] = g[T \ {Listed(T)}]
      BY <1>2, <3>1
    <3> QED BY <1>n, <2>1, <2>3, <3>2 DEF IsSum
  <2> QED BY <2>2, <2>3
<1>3. N = Nat
  <2>1. N \in SUBSET Nat
    OBVIOUS
  <2> HIDE DEF N
  <2> QED BY <1>1, <1>2, <2>1, SetInduction
<1>4. n \in N
  <2> HIDE DEF N
  <2> QED BY <1>0, <1>3
<1> QED BY <1>0, <1>4 DEF Agree

\* SumOver is that function.
LEMMA SumIs ==
  ASSUME NEW S, IsFiniteSet(S), NEW f, Summable(f, S),
         NEW g \in [SUBSET S -> Int], IsSum(g, f, S, Cardinality(S))
  PROVE  SumOver(S, f) = g[S]
<1> DEFINE F(h) == [T \in SUBSET S |->
                      IF T = {} THEN 0 ELSE f[Listed(T)] + h[T \ {Listed(T)}]]
           c == CHOOSE h : h = F(h)
<1>1. Cardinality(S) \in Nat /\ \A T \in SUBSET S : Cardinality(T) <= Cardinality(S)
  BY FS_Subset, FS_CardinalityType
<1>2. g = F(g)
  BY <1>1 DEF IsSum
<1>3. c = F(c)
  BY <1>2
<1>4. \A T \in SUBSET S : c[T] = IF T = {} THEN 0 ELSE f[Listed(T)] + c[T \ {Listed(T)}]
  <2> HIDE DEF c
  <2> QED BY <1>3
<1>5. SumOver(S, f) = c[S]
  BY DEF SumOver, FoldFunctionOnSet, MapThenFoldSet, Listed
<1>6. c[S] = g[S]
  <2> HIDE DEF c
  <2>1. PICK h : h = c
    OBVIOUS
  <2>2. Folds(h, f, S)
    BY <1>4, <2>1 DEF Folds
  <2>3. Agree(h, g, S)
    BY <2>2, SumsAgree
  <2> QED BY <2>1, <2>3 DEF Agree
<1> QED BY <1>5, <1>6

\* The sums over all subsets of a set.
LEMMA SumsOf ==
  ASSUME NEW S, IsFiniteSet(S), NEW f, Summable(f, S)
  PROVE  HasSums(f, S)
<1>1. Cardinality(S) \in Nat
  BY FS_CardinalityType
<1>2. PICK g \in [SUBSET S -> Int] : IsSum(g, f, S, Cardinality(S))
  BY <1>1, SumsExist
<1>3. ASSUME NEW T \in SUBSET S PROVE SumOver(T, f) = g[T]
  <2>1. IsFiniteSet(T) /\ Cardinality(T) \in Nat /\ Summable(f, T)
    BY FS_Subset, FS_CardinalityType DEF Summable
  <2>2. \A U \in SUBSET T : U \in SUBSET S /\ Cardinality(U) <= Cardinality(S)
    BY <1>1, FS_Subset
  <2>3. PICK h : h = [U \in SUBSET T |-> g[U]]
    OBVIOUS
  <2>4. h \in [SUBSET T -> Int]
    BY <2>2, <2>3
  <2>5. ASSUME NEW U \in SUBSET T
        PROVE  h[U] = IF U = {} THEN 0 ELSE f[Listed(U)] + h[U \ {Listed(U)}]
    <3>1. g[U] = IF U = {} THEN 0 ELSE f[Listed(U)] + g[U \ {Listed(U)}]
      BY <1>2, <2>2 DEF IsSum
    <3>2. h[U] = g[U] /\ h[U \ {Listed(U)}] = g[U \ {Listed(U)}]
      BY <2>3
    <3> QED BY <3>1, <3>2
  <2>6. IsSum(h, f, T, Cardinality(T))
    BY <2>4, <2>5 DEF IsSum
  <2>7. SumOver(T, f) = h[T]
    BY <2>1, <2>4, <2>6, SumIs
  <2> QED BY <2>3, <2>7
<1> QED BY <1>2, <1>3 DEF HasSums

\* A sum is an integer, and nothing sums to nothing.
LEMMA SumTyped ==
  ASSUME NEW S, IsFiniteSet(S), NEW f, Summable(f, S)
  PROVE  SumOver(S, f) \in Int /\ (S = {} => SumOver(S, f) = 0)
<1>0. HasSums(f, S)
  BY SumsOf
<1>1. PICK g \in [SUBSET S -> Int] :
        /\ IsSum(g, f, S, Cardinality(S))
        /\ \A T \in SUBSET S : SumOver(T, f) = g[T]
  BY <1>0 DEF HasSums
<1>2. S \in SUBSET S /\ Cardinality(S) <= Cardinality(S)
  BY FS_CardinalityType
<1> QED BY <1>1, <1>2 DEF IsSum

\* The first of the rows, and the sum of the others.
LEMMA SumOfListed ==
  ASSUME NEW S, IsFiniteSet(S), S # {}, NEW f, Summable(f, S)
  PROVE  SumOver(S, f) = f[Listed(S)] + SumOver(S \ {Listed(S)}, f)
<1>0. HasSums(f, S)
  BY SumsOf
<1>1. PICK g \in [SUBSET S -> Int] :
        /\ IsSum(g, f, S, Cardinality(S))
        /\ \A T \in SUBSET S : SumOver(T, f) = g[T]
  BY <1>0 DEF HasSums
<1>2. /\ S \in SUBSET S /\ S \ {Listed(S)} \in SUBSET S
      /\ Cardinality(S) <= Cardinality(S)
  BY FS_CardinalityType
<1>3. g[S] = f[Listed(S)] + g[S \ {Listed(S)}]
  BY <1>1, <1>2 DEF IsSum
<1> QED BY <1>1, <1>2, <1>3

\* Any of the rows can be taken first.
LEMMA SumOfAny ==
  ASSUME NEW S, IsFiniteSet(S), NEW y \in S, NEW f, Summable(f, S)
  PROVE  SumOver(S, f) = f[y] + SumOver(S \ {y}, f)
<1> DEFINE Any(T) == \A z \in T : SumOver(T, f) = f[z] + SumOver(T \ {z}, f)
           N == {m \in Nat : \A T \in SUBSET S : Cardinality(T) = m => Any(T)}
<1>0. \A T \in SUBSET S : IsFiniteSet(T) /\ Cardinality(T) \in Nat /\ Summable(f, T)
  BY FS_Subset, FS_CardinalityType DEF Summable
<1>1. 0 \in N
  BY <1>0, FS_EmptySet
<1>2. ASSUME NEW m \in Nat, m \in N PROVE m+1 \in N
  <2> SUFFICES ASSUME NEW T \in SUBSET S, Cardinality(T) = m+1, NEW z \in T
               PROVE  SumOver(T, f) = f[z] + SumOver(T \ {z}, f)
    OBVIOUS
  <2>1. PICK x \in T : x = Listed(T)
    BY ListedIn
  <2>2. SumOver(T, f) = f[x] + SumOver(T \ {x}, f)
    BY <1>0, <2>1, SumOfListed
  <2>3. CASE x = z
    BY <2>2, <2>3
  <2>4. CASE x # z
    <3> DEFINE R == T \ {x, z}
    <3>1. /\ T \ {x} \in SUBSET S /\ Cardinality(T \ {x}) = m /\ z \in T \ {x}
          /\ T \ {z} \in SUBSET S /\ Cardinality(T \ {z}) = m /\ x \in T \ {z}
      BY <1>0, <2>4, OthersFewer
    <3>2. (T \ {x}) \ {z} = R /\ (T \ {z}) \ {x} = R /\ R \in SUBSET S
      OBVIOUS
    <3>3. SumOver(T \ {x}, f) = f[z] + SumOver(R, f)
      BY <1>2, <3>1, <3>2
    <3>4. SumOver(T \ {z}, f) = f[x] + SumOver(R, f)
      BY <1>2, <3>1, <3>2
    <3>5. f[x] \in Int /\ f[z] \in Int
      BY DEF Summable
    <3>6. SumOver(R, f) \in Int
      BY <1>0, <3>2, SumTyped
    <3> HIDE DEF R
    <3> QED BY <2>2, <3>3, <3>4, <3>5, <3>6
  <2> QED BY <2>3, <2>4
<1>3. N = Nat
  <2>1. N \in SUBSET Nat
    OBVIOUS
  <2> HIDE DEF N
  <2> QED BY <1>1, <1>2, <2>1, SetInduction
<1>4. Cardinality(S) \in N /\ S \in SUBSET S
  <2> HIDE DEF N
  <2> QED BY <1>0, <1>3
<1> QED BY <1>4

\* Induction over the subsets of a finite set, for the sets that have a property.
LEMMA SubsetInduction ==
  ASSUME NEW S, IsFiniteSet(S), NEW H \in SUBSET (SUBSET S), {} \in H,
         \A T \in H : \A x \in S \ T : T \cup {x} \in H
  PROVE  S \in H
<1> DEFINE N == {m \in Nat : \A T \in SUBSET S : Cardinality(T) = m => T \in H}
<1>0. \A T \in SUBSET S : IsFiniteSet(T) /\ Cardinality(T) \in Nat
  BY FS_Subset, FS_CardinalityType
<1>1. 0 \in N
  BY <1>0, FS_EmptySet
<1>2. ASSUME NEW m \in Nat, m \in N PROVE m+1 \in N
  <2> SUFFICES ASSUME NEW T \in SUBSET S, Cardinality(T) = m+1 PROVE T \in H
    OBVIOUS
  <2>1. T # {}
    BY FS_EmptySet
  <2>2. PICK x \in T : TRUE
    BY <2>1
  <2>3. T \ {x} \in SUBSET S /\ Cardinality(T \ {x}) = m
    BY OthersFewer
  <2>4. T \ {x} \in H /\ x \in S \ (T \ {x}) /\ (T \ {x}) \cup {x} = T
    BY <1>2, <2>3
  <2> QED BY <2>4
<1>3. N = Nat
  <2>1. N \in SUBSET Nat
    OBVIOUS
  <2> HIDE DEF N
  <2> QED BY <1>1, <1>2, <2>1, SetInduction
<1>4. Cardinality(S) \in N /\ S \in SUBSET S
  <2> HIDE DEF N
  <2> QED BY <1>0, <1>3
<1> QED BY <1>4

\* A row more.
LEMMA SumWith ==
  ASSUME NEW S, IsFiniteSet(S), NEW T \in SUBSET S, NEW x \in S \ T,
         NEW f, Summable(f, S)
  PROVE  /\ SumOver(T \cup {x}, f) = f[x] + SumOver(T, f)
         /\ SumOver(T, f) \in Int /\ f[x] \in Int
<1>1. /\ IsFiniteSet(T) /\ IsFiniteSet(T \cup {x}) /\ x \in T \cup {x}
      /\ (T \cup {x}) \ {x} = T /\ Summable(f, T) /\ Summable(f, T \cup {x}) /\ f[x] \in Int
  BY FS_Subset, FS_AddElement DEF Summable
<1>2. SumOver(T \cup {x}, f) = f[x] + SumOver((T \cup {x}) \ {x}, f)
  BY <1>1, SumOfAny
<1> QED BY <1>1, <1>2, SumTyped

\* h is the sum of f and g.
SumsTo(f, g, h, S) == \A x \in S : f[x] \in Int /\ g[x] \in Int /\ h[x] = f[x] + g[x]

\* The sum of sums.
LEMMA SumPlus ==
  ASSUME NEW S, IsFiniteSet(S), NEW f, NEW g, NEW h, SumsTo(f, g, h, S)
  PROVE  SumOver(S, h) = SumOver(S, f) + SumOver(S, g)
<1> DEFINE H == {T \in SUBSET S : SumOver(T, h) = SumOver(T, f) + SumOver(T, g)}
<1>1. {} \in H
  <2>1. IsFiniteSet({}) /\ Summable(f, {}) /\ Summable(g, {}) /\ Summable(h, {})
    BY FS_EmptySet DEF Summable
  <2>2. SumOver({}, h) = 0 /\ SumOver({}, f) = 0 /\ SumOver({}, g) = 0
    BY <2>1, SumTyped
  <2> QED BY <2>2
<1>2. ASSUME NEW T \in H, NEW x \in S \ T PROVE T \cup {x} \in H
  <2>1. T \in SUBSET S /\ SumOver(T, h) = SumOver(T, f) + SumOver(T, g)
    OBVIOUS
  <2>2. Summable(f, S) /\ Summable(g, S) /\ Summable(h, S)
    BY DEF Summable, SumsTo
  <2>3. /\ SumOver(T \cup {x}, f) = f[x] + SumOver(T, f)
        /\ SumOver(T, f) \in Int /\ f[x] \in Int
    BY <2>1, <2>2, SumWith
  <2>4. /\ SumOver(T \cup {x}, g) = g[x] + SumOver(T, g)
        /\ SumOver(T, g) \in Int /\ g[x] \in Int
    BY <2>1, <2>2, SumWith
  <2>5. /\ SumOver(T \cup {x}, h) = h[x] + SumOver(T, h)
        /\ SumOver(T, h) \in Int /\ h[x] \in Int
    BY <2>1, <2>2, SumWith
  <2>6. SumOver(T \cup {x}, h) = SumOver(T \cup {x}, f) + SumOver(T \cup {x}, g)
    <3>1. h[x] = f[x] + g[x]
      BY DEF SumsTo
    <3> QED BY <2>1, <2>3, <2>4, <2>5, <3>1
  <2> QED BY <2>1, <2>6
<1>3. H \in SUBSET (SUBSET S)
  OBVIOUS
<1>4. S \in H
  <2> HIDE DEF H
  <2> QED BY <1>1, <1>2, <1>3, SubsetInduction
<1> QED BY <1>4

\* f and g give the same for the rows of T, and f nothing for the others of S.
RestOf(f, g, S, T) == \A x \in S : IF x \in T THEN g[x] = f[x] ELSE f[x] = 0

\* The rows that count nothing may be left out.
LEMMA SumOfRest ==
  ASSUME NEW S, IsFiniteSet(S), NEW T \in SUBSET S, NEW f, NEW g,
         Summable(f, S), RestOf(f, g, S, T)
  PROVE  SumOver(S, f) = SumOver(T, g)
<1> USE DEF RestOf
<1> DEFINE H == {U \in SUBSET S : SumOver(U, f) = SumOver(U \cap T, g)}
<1>1. {} \in H
  <2>1. IsFiniteSet({}) /\ {} \cap T = {} /\ Summable(f, {}) /\ Summable(g, {})
    BY FS_EmptySet DEF Summable
  <2>2. SumOver({}, f) = 0 /\ SumOver({}, g) = 0
    BY <2>1, SumTyped
  <2> QED BY <2>1, <2>2
<1>2. ASSUME NEW U \in H, NEW x \in S \ U PROVE U \cup {x} \in H
  <2>1. U \in SUBSET S /\ SumOver(U, f) = SumOver(U \cap T, g)
    OBVIOUS
  <2>2. /\ SumOver(U \cup {x}, f) = f[x] + SumOver(U, f)
        /\ SumOver(U, f) \in Int /\ f[x] \in Int
    BY <2>1, SumWith
  <2>3. CASE x \in T
    <3>1. /\ IsFiniteSet(T) /\ U \cap T \in SUBSET T /\ x \in T \ (U \cap T)
          /\ (U \cup {x}) \cap T = (U \cap T) \cup {x} /\ Summable(g, T)
      BY <2>3, FS_Subset DEF Summable
    <3>2. /\ SumOver((U \cap T) \cup {x}, g) = g[x] + SumOver(U \cap T, g)
          /\ SumOver(U \cap T, g) \in Int /\ g[x] \in Int
      BY <3>1, SumWith
    <3>3. SumOver((U \cup {x}) \cap T, g) = f[x] + SumOver(U, f)
      BY <2>1, <2>3, <3>1, <3>2
    <3> QED BY <2>1, <2>2, <3>3
  <2>4. CASE x \notin T
    <3>1. (U \cup {x}) \cap T = U \cap T /\ f[x] = 0
      BY <2>4
    <3>2. SumOver(U \cup {x}, f) = SumOver(U, f)
      BY <2>2, <3>1
    <3> QED BY <2>1, <3>1, <3>2
  <2> QED BY <2>3, <2>4
<1>3. H \in SUBSET (SUBSET S)
  OBVIOUS
<1>4. S \in H
  <2> HIDE DEF H
  <2> QED BY <1>1, <1>2, <1>3, SubsetInduction
<1>5. S \cap T = T
  OBVIOUS
<1> QED BY <1>4, <1>5

\* A sum of what is not negative is not negative.
LEMMA SumNatural ==
  ASSUME NEW S, IsFiniteSet(S), NEW f, \A x \in S : f[x] \in Nat
  PROVE  SumOver(S, f) \in Nat
<1> DEFINE H == {T \in SUBSET S : SumOver(T, f) \in Nat}
<1>1. {} \in H
  <2>1. IsFiniteSet({}) /\ Summable(f, {})
    BY FS_EmptySet DEF Summable
  <2>2. SumOver({}, f) = 0
    BY <2>1, SumTyped
  <2> QED BY <2>2
<1>0. Summable(f, S)
  BY DEF Summable
<1>2. ASSUME NEW T \in H, NEW x \in S \ T PROVE T \cup {x} \in H
  <2>1. T \in SUBSET S /\ SumOver(T, f) \in Nat /\ f[x] \in Nat
    OBVIOUS
  <2>2. SumOver(T \cup {x}, f) = f[x] + SumOver(T, f)
    BY <1>0, <2>1, SumWith
  <2>3. SumOver(T \cup {x}, f) \in Nat
    BY <2>1, <2>2
  <2> QED BY <2>1, <2>3
<1>3. H \in SUBSET (SUBSET S)
  OBVIOUS
<1>4. S \in H
  <2> HIDE DEF H
  <2> QED BY <1>1, <1>2, <1>3, SubsetInduction
<1> QED BY <1>4

\* The sum of one row that counts.
LEMMA SumOfOne ==
  ASSUME NEW S, IsFiniteSet(S), NEW y \in S, NEW f, NEW v \in Int,
         \A x \in S : f[x] = IF x = y THEN v ELSE 0
  PROVE  SumOver(S, f) = v
<1>0. Summable(f, S) /\ Summable(f, {}) /\ f[y] = v
  BY DEF Summable
<1>1. IsFiniteSet({}) /\ IsFiniteSet({y})
  BY FS_Singleton, FS_EmptySet
<1>2. PICK T \in SUBSET S : T = {y}
  OBVIOUS
<1>3. RestOf(f, f, S, T)
  BY <1>2 DEF RestOf
<1>4. SumOver(S, f) = SumOver(T, f)
  BY <1>0, <1>3, SumOfRest
<1>5. IsFiniteSet(T) /\ y \in T /\ Summable(f, T) /\ T \ {y} = {}
  BY <1>0, <1>1, <1>2 DEF Summable
<1>6. SumOver(T, f) = f[y] + SumOver(T \ {y}, f)
  BY <1>5, SumOfAny
<1>7. SumOver({}, f) = 0
  BY <1>0, <1>1, SumTyped
<1> QED BY <1>0, <1>4, <1>5, <1>6, <1>7

\* F gives a column of n amounts for each row of S, and totals what it adds up to.
Columns(F, totals, S, n) ==
  \A s \in S : F[s] \in Seq(Int) /\ Len(F[s]) = n /\ totals[s] = Total(F[s])

\* The sum, over the rows of S, of the totals of their columns is the total of the
\* column of their sums: F gives a column of n amounts for each row.
LEMMA SumOfTotals ==
  ASSUME NEW S, IsFiniteSet(S), NEW n \in Nat, NEW F, NEW totals,
         Columns(F, totals, S, n)
  PROVE  SumOver(S, totals)
           = Total([k \in 1..n |-> SumOver(S, [s \in S |-> F[s][k]])])
<1> DEFINE Row(k) == [s \in S |-> F[s][k]]
           Sums(T) == [k \in 1..n |-> SumOver(T, Row(k))]
           H == {T \in SUBSET S : SumOver(T, totals) = Total(Sums(T))}
<1>a. \A s \in S : F[s] \in Seq(Int) /\ Len(F[s]) = n /\ totals[s] = Total(F[s])
  BY DEF Columns
<1>0. \A k \in 1..n : Summable(Row(k), S)
  <2> SUFFICES ASSUME NEW k \in 1..n, NEW x \in S PROVE F[x][k] \in Int
    BY DEF Summable
  <2>1. PICK f : f = F[x]
    OBVIOUS
  <2>2. f \in Seq(Int) /\ Len(f) = n
    BY <1>a, <2>1
  <2> QED BY <2>1, <2>2
<1>b. Summable(totals, S)
  <2> SUFFICES ASSUME NEW s \in S PROVE totals[s] \in Int
    BY DEF Summable
  <2>1. PICK f : f = F[s]
    OBVIOUS
  <2>2. f \in Seq(Int) /\ totals[s] = Total(f)
    BY <1>a, <2>1
  <2>3. Total(f) \in Int
    BY <2>2, TotalType
  <2> QED BY <2>2, <2>3
<1>c. ASSUME NEW T \in SUBSET S
      PROVE  Sums(T) \in Seq(Int) /\ Len(Sums(T)) = n
  <2>1. IsFiniteSet(T)
    BY FS_Subset
  <2>2. ASSUME NEW k \in 1..n PROVE SumOver(T, Row(k)) \in Int
    <3>1. PICK f : f = Row(k)
      OBVIOUS
    <3>2. Summable(f, T)
      BY <1>0, <3>1 DEF Summable
    <3>3. SumOver(T, f) \in Int
      BY <2>1, <3>2, SumTyped
    <3> QED BY <3>1, <3>3
  <2> HIDE DEF Row
  <2> QED BY <2>2
<1>1. {} \in H
  <2>1. IsFiniteSet({}) /\ Summable(totals, {})
    BY FS_EmptySet DEF Summable
  <2>2. SumOver({}, totals) = 0
    BY <2>1, SumTyped
  <2>3. ASSUME NEW k \in 1..n PROVE SumOver({}, Row(k)) = 0
    <3>1. PICK f : f = Row(k)
      OBVIOUS
    <3>2. Summable(f, {})
      BY DEF Summable
    <3>3. SumOver({}, f) = 0
      BY <2>1, <3>2, SumTyped
    <3> QED BY <3>1, <3>3
  <2>4. PICK v : v = Sums({})
    OBVIOUS
  <2>5. v \in Seq(Int) /\ Len(v) = n
    BY <1>c, <2>4
  <2>6. \A k \in 1..Len(v) : v[k] = 0
    <3> HIDE DEF Row
    <3> QED BY <2>3, <2>4, <2>5
  <2>7. Total(v) = 0
    BY <2>5, <2>6, TotalZero
  <2> HIDE DEF Sums
  <2> QED BY <2>2, <2>4, <2>7
<1>2. ASSUME NEW T \in H, NEW x \in S \ T PROVE T \cup {x} \in H
  <2>1. T \in SUBSET S /\ T \cup {x} \in SUBSET S /\ SumOver(T, totals) = Total(Sums(T))
    OBVIOUS
  <2>2. /\ SumOver(T \cup {x}, totals) = totals[x] + SumOver(T, totals)
        /\ SumOver(T, totals) \in Int /\ totals[x] \in Int
    BY <1>b, <2>1, SumWith
  <2>3. PICK v : v = Sums(T)
    OBVIOUS
  <2>4. PICK w : w = Sums(T \cup {x})
    OBVIOUS
  <2>5. PICK u : u = F[x]
    OBVIOUS
  <2>6. /\ v \in Seq(Int) /\ Len(v) = n /\ w \in Seq(Int) /\ Len(w) = n
        /\ u \in Seq(Int) /\ Len(u) = n /\ totals[x] = Total(u)
    BY <1>a, <1>c, <2>1, <2>3, <2>4, <2>5
  <2>7. ASSUME NEW k \in 1..n PROVE w[k] = u[k] + v[k]
    <3>1. PICK f : f = Row(k)
      OBVIOUS
    <3>2. Summable(f, S) /\ f[x] = F[x][k]
      BY <1>0, <3>1
    <3>3. /\ SumOver(T \cup {x}, f) = f[x] + SumOver(T, f)
          /\ SumOver(T, f) \in Int /\ f[x] \in Int
      BY <2>1, <3>2, SumWith
    <3>4. w[k] = SumOver(T \cup {x}, f) /\ v[k] = SumOver(T, f)
      <4> HIDE DEF Row
      <4> QED BY <2>3, <2>4, <3>1
    <3> QED BY <2>5, <3>2, <3>3, <3>4
  <2>8. /\ Total(w) = Total(u) + Total(v)
        /\ Total(w) \in Int /\ Total(u) \in Int /\ Total(v) \in Int
    BY <2>6, <2>7, TotalPlus
  <2>9. SumOver(T \cup {x}, totals) = Total(Sums(T \cup {x}))
    <3> HIDE DEF Sums
    <3> QED BY <2>1, <2>2, <2>3, <2>4, <2>6, <2>8
  <2> HIDE DEF Sums
  <2> QED BY <2>1, <2>9
<1>3. H \in SUBSET (SUBSET S)
  OBVIOUS
<1>4. S \in H
  <2> HIDE DEF H
  <2> QED BY <1>1, <1>2, <1>3, SubsetInduction
<1> QED BY <1>4

\* Rows of a table that belong to one owner each: F gives the column of an owner, which
\* has the amounts of the rows that are the owner's and 0 for the others.
Owned(F, totals, owner, v, S, n) ==
  /\ v \in [1..n -> Int]
  /\ \A k \in 1..n : v[k] # 0 => owner[k] \in S
  /\ \A s \in S : F[s] = [k \in 1..n |-> IF owner[k] = s THEN v[k] ELSE 0]
  /\ \A s \in S : totals[s] = Total(F[s])

LEMMA SumByOwner ==
  ASSUME NEW S, IsFiniteSet(S), NEW n \in Nat, NEW F, NEW totals, NEW owner, NEW v,
         Owned(F, totals, owner, v, S, n)
  PROVE  /\ SumOver(S, totals) = Total(v)
         /\ Summable(totals, S)
<1>0. /\ v \in [1..n -> Int]
      /\ \A k \in 1..n : v[k] \in Int /\ (v[k] # 0 => owner[k] \in S)
      /\ \A s \in S : F[s] = [k \in 1..n |-> IF owner[k] = s THEN v[k] ELSE 0]
      /\ \A s \in S : totals[s] = Total(F[s])
  BY DEF Owned
<1>1. ASSUME NEW s \in S
      PROVE  F[s] \in Seq(Int) /\ Len(F[s]) = n /\ totals[s] = Total(F[s])
  <2>1. PICK f : f = F[s]
    OBVIOUS
  <2>2. f = [k \in 1..n |-> IF owner[k] = s THEN v[k] ELSE 0]
    BY <1>0, <2>1
  <2>3. \A k \in 1..n : v[k] \in Int
    BY <1>0
  <2>4. f \in [1..n -> Int]
    BY <2>2, <2>3
  <2>5. f \in Seq(Int) /\ Len(f) = n
    BY <2>4, ColumnIsSeq
  <2> QED BY <1>0, <2>1, <2>5
<1>2. SumOver(S, totals) = Total([k \in 1..n |-> SumOver(S, [s \in S |-> F[s][k]])])
  <2>1. Columns(F, totals, S, n)
    BY <1>1 DEF Columns
  <2> QED BY <2>1, SumOfTotals
<1>3. ASSUME NEW k \in 1..n PROVE SumOver(S, [s \in S |-> F[s][k]]) = v[k]
  <2>1. PICK f : f = [s \in S |-> F[s][k]]
    OBVIOUS
  <2>2. ASSUME NEW s \in S PROVE f[s] = IF owner[k] = s THEN v[k] ELSE 0
    <3>1. f[s] = F[s][k]
      BY <2>1
    <3>2. F[s] = [j \in 1..n |-> IF owner[j] = s THEN v[j] ELSE 0]
      BY <1>0
    <3> QED BY <3>1, <3>2
  <2>3. CASE owner[k] \in S
    <3>1. PICK y \in S : y = owner[k]
      BY <2>3
    <3>2. PICK a \in Int : a = v[k]
      BY <1>0
    <3>3. \A s \in S : f[s] = IF s = y THEN a ELSE 0
      BY <2>2, <3>1, <3>2
    <3>4. SumOver(S, f) = a
      BY <3>3, SumOfOne
    <3> QED BY <2>1, <3>2, <3>4
  <2>4. CASE owner[k] \notin S
    <3>1. v[k] = 0 /\ \A s \in S : f[s] = 0
      BY <1>0, <2>2, <2>4
    <3>2. PICK T \in SUBSET S : T = {}
      OBVIOUS
    <3>3. Summable(f, S) /\ Summable(f, T) /\ IsFiniteSet(T)
      BY <3>1, <3>2, FS_EmptySet DEF Summable
    <3>4. RestOf(f, f, S, T)
      BY <3>1 DEF RestOf
    <3>5. SumOver(S, f) = SumOver(T, f)
      BY <3>3, <3>4, SumOfRest
    <3>6. SumOver(T, f) \in Int /\ (T = {} => SumOver(T, f) = 0)
      BY <3>3, SumTyped
    <3> QED BY <2>1, <3>1, <3>2, <3>5, <3>6
  <2> QED BY <2>3, <2>4
<1>4. [k \in 1..n |-> SumOver(S, [s \in S |-> F[s][k]])] = v
  BY <1>0, <1>3
<1>5. ASSUME NEW s \in S PROVE totals[s] \in Int
  <2>1. PICK f : f = F[s]
    OBVIOUS
  <2>2. f \in Seq(Int) /\ totals[s] = Total(f)
    BY <1>1, <2>1
  <2> QED BY <2>2, TotalType
<1> QED BY <1>2, <1>4, <1>5 DEF Summable

-----------------------------------------------------------------------------
\* What the customer reports add up.

\* A sale on credit names a customer.
CreditSalesNamed ==
  \A i \in 1..Len(sales) : sales[i].sale_type = "credit" => sales[i].customer \in Customers

\* The credit sales of all customers are the credit sales of the closing.
LEMMA CreditSalesAddUp ==
  ASSUME TypeOK, CreditSalesNamed
  PROVE  /\ Summable([c \in Customers |-> Total(CreditSalesTo(c))], Customers)
         /\ SumOver(Customers, [c \in Customers |-> Total(CreditSalesTo(c))])
              = DailyClosing.fuel_credit_sales
<1> DEFINE rows == {i \in Standing(sales) : sales[i].sale_type = "credit"}
           amount == [i \in 1..Len(sales) |->
                        IF i \in rows THEN sales[i].total_amount ELSE 0]
<1>1. PICK n \in Nat : n = Len(sales)
  BY DEF TypeOK
<1>2. PICK v : v = amount
  OBVIOUS
<1>3. PICK owner : owner = [i \in 1..Len(sales) |-> sales[i].customer]
  OBVIOUS
<1>4. PICK F : F = [c \in Customers |-> CreditSalesTo(c)]
  OBVIOUS
<1>5. PICK totals : totals = [c \in Customers |-> Total(CreditSalesTo(c))]
  OBVIOUS
<1>6. ASSUME NEW k \in 1..n PROVE v[k] \in Int /\ (v[k] # 0 => owner[k] \in Customers)
  BY <1>1, <1>2, <1>3, SaleFields DEF CreditSalesNamed, Standing
<1>7. ASSUME NEW c \in Customers
      PROVE  F[c] = [k \in 1..n |-> IF owner[k] = c THEN v[k] ELSE 0]
  <2>1. F[c] = [i \in 1..n |-> IF OnLedger(sales[i], c) THEN sales[i].total_amount ELSE 0]
    BY <1>1, <1>4 DEF CreditSalesTo
  <2>2. ASSUME NEW k \in 1..n
        PROVE  (IF OnLedger(sales[k], c) THEN sales[k].total_amount ELSE 0)
                 = IF owner[k] = c THEN v[k] ELSE 0
    BY <1>1, <1>2, <1>3 DEF OnLedger, Standing
  <2> QED BY <2>1, <2>2
<1>8. \A c \in Customers : totals[c] = Total(F[c])
  BY <1>4, <1>5
<1>9. v \in [1..n -> Int]
  BY <1>1, <1>2, <1>6
<1>10. Owned(F, totals, owner, v, Customers, n)
  BY <1>6, <1>7, <1>8, <1>9 DEF Owned
<1>11. SumOver(Customers, totals) = Total(v) /\ Summable(totals, Customers)
  BY <1>10, ReportsAssumption, SumByOwner
<1>12. DailyClosing.fuel_credit_sales = Total(amount)
  BY DEF DailyClosing, SalesOfType, SumOf
<1> HIDE DEF amount
<1> QED BY <1>2, <1>5, <1>11, <1>12

\* The payments of all customers are the payments of the closing.
LEMMA PaymentsAddUp ==
  ASSUME TypeOK
  PROVE  /\ Summable([c \in Customers |-> Total(PaidBy(c))], Customers)
         /\ SumOver(Customers, [c \in Customers |-> Total(PaidBy(c))])
              = DailyClosing.customer_payments
<1> DEFINE rows == Standing(customer_payments)
           amount == [i \in 1..Len(customer_payments) |->
                        IF i \in rows THEN customer_payments[i].amount ELSE 0]
<1>1. PICK n \in Nat : n = Len(customer_payments)
  BY DEF TypeOK
<1>2. PICK v : v = amount
  OBVIOUS
<1>3. PICK owner : owner = [i \in 1..Len(customer_payments) |-> customer_payments[i].customer]
  OBVIOUS
<1>4. PICK F : F = [c \in Customers |-> PaidBy(c)]
  OBVIOUS
<1>5. PICK totals : totals = [c \in Customers |-> Total(PaidBy(c))]
  OBVIOUS
<1>6. ASSUME NEW k \in 1..n PROVE v[k] \in Int /\ (v[k] # 0 => owner[k] \in Customers)
  BY <1>1, <1>2, <1>3, PaymentFields DEF Standing
<1>7. ASSUME NEW c \in Customers
      PROVE  F[c] = [k \in 1..n |-> IF owner[k] = c THEN v[k] ELSE 0]
  <2>1. F[c] = [i \in 1..n |->
               IF customer_payments[i].customer = c /\ ~customer_payments[i].rev.reversed
               THEN customer_payments[i].amount ELSE 0]
    BY <1>1, <1>4 DEF PaidBy
  <2>2. ASSUME NEW k \in 1..n
        PROVE  (IF customer_payments[k].customer = c /\ ~customer_payments[k].rev.reversed
                THEN customer_payments[k].amount ELSE 0)
                 = IF owner[k] = c THEN v[k] ELSE 0
    BY <1>1, <1>2, <1>3 DEF Standing
  <2> QED BY <2>1, <2>2
<1>8. \A c \in Customers : totals[c] = Total(F[c])
  BY <1>4, <1>5
<1>9. v \in [1..n -> Int]
  BY <1>1, <1>2, <1>6
<1>10. Owned(F, totals, owner, v, Customers, n)
  BY <1>6, <1>7, <1>8, <1>9 DEF Owned
<1>11. SumOver(Customers, totals) = Total(v) /\ Summable(totals, Customers)
  BY <1>10, ReportsAssumption, SumByOwner
<1>12. DailyClosing.customer_payments = Total(amount)
  BY DEF DailyClosing, SumOf
<1> HIDE DEF amount
<1> QED BY <1>2, <1>5, <1>11, <1>12

-----------------------------------------------------------------------------
\* What the suppliers' reports add up.

\* The purchases and the payments that the dashboard subtracts from each other.
Owed == SumOf(purchases, "total_amount", ApprovedPurchases)
Settled == SumOf(supplier_payments, "amount", Standing(supplier_payments))

\* The purchases from all suppliers.
LEMMA PurchasesAddUp ==
  ASSUME TypeOK
  PROVE  /\ Summable([c \in Suppliers |-> Total(PurchasedFrom(c))], Suppliers)
         /\ SumOver(Suppliers, [c \in Suppliers |-> Total(PurchasedFrom(c))])
              = Owed
<1> DEFINE rows == ApprovedPurchases
           amount == [i \in 1..Len(purchases) |->
                        IF i \in rows THEN purchases[i].total_amount ELSE 0]
<1>1. PICK n \in Nat : n = Len(purchases)
  BY DEF TypeOK
<1>2. PICK v : v = amount
  OBVIOUS
<1>3. PICK owner : owner = [i \in 1..Len(purchases) |-> purchases[i].supplier]
  OBVIOUS
<1>4. PICK F : F = [c \in Suppliers |-> PurchasedFrom(c)]
  OBVIOUS
<1>5. PICK totals : totals = [c \in Suppliers |-> Total(PurchasedFrom(c))]
  OBVIOUS
<1>6. ASSUME NEW k \in 1..n PROVE v[k] \in Int /\ (v[k] # 0 => owner[k] \in Suppliers)
  BY <1>1, <1>2, <1>3, PurchaseFields DEF ApprovedPurchases, Standing
<1>7. ASSUME NEW c \in Suppliers
      PROVE  F[c] = [k \in 1..n |-> IF owner[k] = c THEN v[k] ELSE 0]
  <2>1. F[c] = [i \in 1..n |->
               IF purchases[i].supplier = c /\ Counted(purchases[i])
               THEN purchases[i].total_amount ELSE 0]
    BY <1>1, <1>4 DEF PurchasedFrom
  <2>2. ASSUME NEW k \in 1..n
        PROVE  (IF purchases[k].supplier = c /\ Counted(purchases[k])
                THEN purchases[k].total_amount ELSE 0)
                 = IF owner[k] = c THEN v[k] ELSE 0
    BY <1>1, <1>2, <1>3 DEF ApprovedPurchases, Standing, Counted
  <2> QED BY <2>1, <2>2
<1>8. \A c \in Suppliers : totals[c] = Total(F[c])
  BY <1>4, <1>5
<1>9. v \in [1..n -> Int]
  BY <1>1, <1>2, <1>6
<1>10. Owned(F, totals, owner, v, Suppliers, n)
  BY <1>6, <1>7, <1>8, <1>9 DEF Owned
<1>11. SumOver(Suppliers, totals) = Total(v) /\ Summable(totals, Suppliers)
  BY <1>10, ReportsAssumption, SumByOwner
<1>12. Owed = Total(amount)
  BY DEF Owed, SumOf
<1> HIDE DEF amount
<1> QED BY <1>2, <1>5, <1>11, <1>12

\* The payments to all suppliers.
LEMMA SettlementsAddUp ==
  ASSUME TypeOK
  PROVE  /\ Summable([c \in Suppliers |-> Total(PaidTo(c))], Suppliers)
         /\ SumOver(Suppliers, [c \in Suppliers |-> Total(PaidTo(c))])
              = Settled
<1> DEFINE rows == Standing(supplier_payments)
           amount == [i \in 1..Len(supplier_payments) |->
                        IF i \in rows THEN supplier_payments[i].amount ELSE 0]
<1>1. PICK n \in Nat : n = Len(supplier_payments)
  BY DEF TypeOK
<1>2. PICK v : v = amount
  OBVIOUS
<1>3. PICK owner : owner = [i \in 1..Len(supplier_payments) |-> supplier_payments[i].supplier]
  OBVIOUS
<1>4. PICK F : F = [c \in Suppliers |-> PaidTo(c)]
  OBVIOUS
<1>5. PICK totals : totals = [c \in Suppliers |-> Total(PaidTo(c))]
  OBVIOUS
<1>6. ASSUME NEW k \in 1..n PROVE v[k] \in Int /\ (v[k] # 0 => owner[k] \in Suppliers)
  BY <1>1, <1>2, <1>3, PaymentFields DEF Standing
<1>7. ASSUME NEW c \in Suppliers
      PROVE  F[c] = [k \in 1..n |-> IF owner[k] = c THEN v[k] ELSE 0]
  <2>1. F[c] = [i \in 1..n |->
               IF supplier_payments[i].supplier = c /\ ~supplier_payments[i].rev.reversed
               THEN supplier_payments[i].amount ELSE 0]
    BY <1>1, <1>4 DEF PaidTo
  <2>2. ASSUME NEW k \in 1..n
        PROVE  (IF supplier_payments[k].supplier = c /\ ~supplier_payments[k].rev.reversed
                THEN supplier_payments[k].amount ELSE 0)
                 = IF owner[k] = c THEN v[k] ELSE 0
    BY <1>1, <1>2, <1>3 DEF Standing
  <2> QED BY <2>1, <2>2
<1>8. \A c \in Suppliers : totals[c] = Total(F[c])
  BY <1>4, <1>5
<1>9. v \in [1..n -> Int]
  BY <1>1, <1>2, <1>6
<1>10. Owned(F, totals, owner, v, Suppliers, n)
  BY <1>6, <1>7, <1>8, <1>9 DEF Owned
<1>11. SumOver(Suppliers, totals) = Total(v) /\ Summable(totals, Suppliers)
  BY <1>10, ReportsAssumption, SumByOwner
<1>12. Settled = Total(amount)
  BY DEF Settled, SumOf
<1> HIDE DEF amount
<1> QED BY <1>2, <1>5, <1>11, <1>12

\* What a supplier is owed in the supplier report is the final balance of the ledger.
LEMMA SupplierBalanceIs ==
  ASSUME TypeOK, PayableMatchesLedger, NEW s \in Suppliers
  PROVE  SupplierBalance(s) = payable_balance[s]
<1>1. PurchasedFrom(s)
        = [i \in 1..Len(purchases) |->
             IF i \in {k \in ApprovedPurchases : purchases[k].supplier = s}
             THEN purchases[i].total_amount ELSE 0]
  BY DEF PurchasedFrom, ApprovedPurchases, Standing, Counted
<1>2. PaidTo(s)
        = [i \in 1..Len(supplier_payments) |->
             IF i \in {k \in Standing(supplier_payments) : supplier_payments[k].supplier = s}
             THEN supplier_payments[i].amount ELSE 0]
  BY DEF PaidTo, Standing
<1> QED BY <1>1, <1>2 DEF SupplierBalance, SumOf, PayableMatchesLedger

\* The books balance, so the reports on suppliers and stock do.
LEMMA SuppliersReconcile ==
  ASSUME TypeOK, NoNegativeBalance, PayableMatchesLedger, StockBalances
  PROVE  PayablesReconcile
<1>1. PICK bought : bought = [c \in Suppliers |-> Total(PurchasedFrom(c))]
  OBVIOUS
<1>2. PICK paid : paid = [c \in Suppliers |-> Total(PaidTo(c))]
  OBVIOUS
<1>3. PICK balance : balance = payable_balance
  OBVIOUS
<1>4. Summable(bought, Suppliers) /\ SumOver(Suppliers, bought) = Owed
  BY <1>1, PurchasesAddUp
<1>5. Summable(paid, Suppliers) /\ SumOver(Suppliers, paid) = Settled
  BY <1>2, SettlementsAddUp
<1>6. \A s \in Suppliers : balance[s] \in Nat
  BY <1>3 DEF TypeOK, NoNegativeBalance
<1>7. \A s \in Suppliers : bought[s] = balance[s] + paid[s]
  <2> SUFFICES ASSUME NEW s \in Suppliers PROVE bought[s] = balance[s] + paid[s]
    OBVIOUS
  <2>1. balance[s] = bought[s] - paid[s]
    BY <1>1, <1>2, <1>3 DEF PayableMatchesLedger
  <2>2. balance[s] \in Int /\ bought[s] \in Int /\ paid[s] \in Int
    BY <1>4, <1>5, <1>6 DEF Summable
  <2> QED BY <2>1, <2>2
<1>8. IsFiniteSet(Suppliers)
  BY ReportsAssumption
<1>9. SumOver(Suppliers, bought) = SumOver(Suppliers, balance) + SumOver(Suppliers, paid)
  <2>1. Summable(balance, Suppliers) /\ SumsTo(balance, paid, bought, Suppliers)
    BY <1>5, <1>6, <1>7 DEF Summable, SumsTo
  <2> QED BY <1>5, <1>8, <2>1, SumPlus
<1>10. SumOver(Suppliers, balance) \in Nat
  BY <1>6, <1>8, SumNatural
<1>11. SumOver(Suppliers, paid) \in Int /\ SumOver(Suppliers, bought) \in Int
  BY <1>4, <1>5, <1>8, SumTyped
<1>12. Owed - Settled = SumOver(Suppliers, balance)
  BY <1>4, <1>5, <1>9, <1>10, <1>11
<1>13. DashboardPayables = IF Owed - Settled < 0 THEN 0 ELSE Owed - Settled
  BY DEF DashboardPayables, Owed, Settled
<1>14. DashboardPayables = SumOver(Suppliers, balance)
  BY <1>10, <1>12, <1>13
<1>15. PICK report : report = [s \in Suppliers |-> SupplierBalance(s)]
  OBVIOUS
<1>16. \A s \in Suppliers : report[s] = balance[s]
  BY <1>3, <1>15, SupplierBalanceIs
<1>17. SumOver(Suppliers, balance) = SumOver(SupplierBalances, report)
  <2>1. PICK T \in SUBSET Suppliers : T = SupplierBalances
    BY DEF SupplierBalances
  <2>2. T = {s \in Suppliers : balance[s] > 0}
    BY <1>3, <2>1, SupplierBalanceIs DEF SupplierBalances
  <2>3. RestOf(balance, report, Suppliers, T) /\ Summable(balance, Suppliers)
    BY <1>6, <1>16, <2>2 DEF RestOf, Summable
  <2> QED BY <1>8, <2>1, <2>3, SumOfRest
<1>18. FuelStock = SumOver(Tanks, [t \in Tanks |->
                     OpeningStock[t] + StockMovement(t) + Total(DipGains(t))])
  <2>1. ASSUME NEW t \in Tanks
        PROVE  current_volume[t] = OpeningStock[t] + StockMovement(t) + Total(DipGains(t))
    <3>1. current_volume[t] = Booked(t)
      BY StockForm DEF StockBooked
    <3>2. /\ OpeningStock[t] \in Int
          /\ Total(Amounts(sales, SoldBy(t))) \in Int
          /\ Total(Amounts(purchases, DeliveredBy(t))) \in Int
          /\ Total(Amounts(dips, GainedBy(t))) \in Int
      BY BookedTyped DEF TypeOK
    <3>3. /\ SoldFrom(t) = Amounts(sales, SoldBy(t))
          /\ DeliveredTo(t) = Amounts(purchases, DeliveredBy(t))
          /\ DipGains(t) = Amounts(dips, GainedBy(t))
      BY StockTables
    <3> QED BY <3>1, <3>2, <3>3 DEF Booked, StockMovement
  <2>2. current_volume = [t \in Tanks |->
                            OpeningStock[t] + StockMovement(t) + Total(DipGains(t))]
    BY <2>1 DEF TypeOK
  <2> QED BY <2>2 DEF FuelStock
<1> QED BY <1>3, <1>14, <1>15, <1>17, <1>18 DEF PayablesReconcile

\* The sales of the dashboard are the cash sales and the credit sales of the closing.
LEMMA SalesByType ==
  ASSUME TypeOK
  PROVE  /\ DashboardSales = SalesOfType("cash") + SalesOfType("credit")
         /\ SalesOfType("cash") \in Int /\ SalesOfType("credit") \in Int
<1>1. PICK n \in Nat : n = Len(sales)
  BY DEF TypeOK
<1> DEFINE Amount_(rows) == [i \in 1..n |-> IF i \in rows THEN sales[i].total_amount ELSE 0]
           Of(sale_type) == {i \in Standing(sales) : sales[i].sale_type = sale_type}
<1>2. ASSUME NEW rows PROVE Amount_(rows) \in Seq(Int) /\ Len(Amount_(rows)) = n
  <2>1. PICK f : f = Amount_(rows)
    OBVIOUS
  <2>2. f \in [1..n -> Int]
    BY <1>1, <2>1, SaleFields
  <2> HIDE DEF Amount_
  <2> QED BY <2>1, <2>2, ColumnIsSeq
<1>3. PICK u : u = Amount_(Of("cash"))
  OBVIOUS
<1>4. PICK v : v = Amount_(Of("credit"))
  OBVIOUS
<1>5. PICK w : w = Amount_(Standing(sales))
  OBVIOUS
<1>6. /\ u \in Seq(Int) /\ v \in Seq(Int) /\ w \in Seq(Int)
      /\ Len(u) = n /\ Len(v) = n /\ Len(w) = n
  <2> HIDE DEF Amount_
  <2> QED BY <1>2, <1>3, <1>4, <1>5
<1>7. ASSUME NEW k \in 1..n PROVE w[k] = u[k] + v[k]
  <2>1. sales[k].sale_type \in {"cash", "credit"} /\ sales[k].total_amount \in Int
    BY <1>1, SaleFields DEF FuelSaleRow, SaleTypes
  <2>2. /\ w[k] = IF k \in Standing(sales) THEN sales[k].total_amount ELSE 0
        /\ u[k] = IF k \in Of("cash") THEN sales[k].total_amount ELSE 0
        /\ v[k] = IF k \in Of("credit") THEN sales[k].total_amount ELSE 0
    BY <1>3, <1>4, <1>5
  <2> QED BY <2>1, <2>2
<1>8. /\ Total(w) = Total(u) + Total(v)
      /\ Total(w) \in Int /\ Total(u) \in Int /\ Total(v) \in Int
  BY <1>6, <1>7, TotalPlus
<1>9. /\ DashboardSales = Total(w)
      /\ SalesOfType("cash") = Total(u) /\ SalesOfType("credit") = Total(v)
  BY <1>1, <1>3, <1>4, <1>5 DEF DashboardSales, SalesOfType, SumOf
<1> QED BY <1>8, <1>9

\* The balances are explained, so the reports on customers fit together.
LEMMA CustomersReconcile ==
  ASSUME TypeOK, CreditSalesNamed, NoNegativeBalance, BalanceExplained
  PROVE  CustomerReportsReconcile
<1>1. PICK credit : credit = [c \in Customers |-> Total(CreditSalesTo(c))]
  OBVIOUS
<1>2. PICK paid : paid = [c \in Customers |-> Total(PaidBy(c))]
  OBVIOUS
<1>3. PICK refunded : refunded = [c \in Customers |-> Total(CashRefundsTo(c))]
  OBVIOUS
<1>4. PICK balance : balance = Balances
  OBVIOUS
<1>5. PICK kept : kept = [c \in Customers |-> balance[c] + refunded[c]]
  OBVIOUS
<1>6. IsFiniteSet(Customers)
  BY ReportsAssumption
<1>7. /\ Summable(credit, Customers)
      /\ SumOver(Customers, credit) = DailyClosing.fuel_credit_sales
  BY <1>1, CreditSalesAddUp
<1>8. /\ Summable(paid, Customers)
      /\ SumOver(Customers, paid) = DailyClosing.customer_payments
  BY <1>2, PaymentsAddUp
<1>9. SumOver(Customers, refunded) = CashRefunded
  BY <1>3 DEF CashRefunded
<1>10. \A c \in Customers : balance[c] = customer[c].outstanding_balance /\ balance[c] \in Nat
  BY <1>4 DEF TypeOK, Customer, NoNegativeBalance, Balances
<1>11. \A c \in Customers : refunded[c] \in Int
  <2> SUFFICES ASSUME NEW c \in Customers PROVE Total(CashRefundsTo(c)) \in Int
    BY <1>3
  <2>1. PICK f : f = CashRefundsTo(c)
    OBVIOUS
  <2>2. PICK n \in Nat : n = Len(sales)
    BY DEF TypeOK
  <2>3. f \in [1..n -> Int]
    BY <2>1, <2>2, SaleFields DEF CashRefundsTo
  <2> QED BY <2>1, <2>3, ColumnIsSeq, TotalType
<1>12. \A c \in Customers : /\ kept[c] \in Int
                            /\ kept[c] = balance[c] + refunded[c]
                            /\ credit[c] = kept[c] + paid[c]
  <2> SUFFICES ASSUME NEW c \in Customers
               PROVE  /\ kept[c] \in Int
                      /\ kept[c] = balance[c] + refunded[c]
                      /\ credit[c] = kept[c] + paid[c]
    OBVIOUS
  <2>1. balance[c] = credit[c] - paid[c] - refunded[c]
    BY <1>1, <1>2, <1>3, <1>10 DEF BalanceExplained, CustomerLedger
  <2>2. /\ balance[c] \in Int /\ credit[c] \in Int /\ paid[c] \in Int
        /\ refunded[c] \in Int /\ kept[c] = balance[c] + refunded[c]
    BY <1>5, <1>7, <1>8, <1>10, <1>11 DEF Summable
  <2> QED BY <2>1, <2>2
<1>13. /\ Summable(balance, Customers) /\ Summable(refunded, Customers)
       /\ Summable(kept, Customers)
  BY <1>10, <1>11, <1>12 DEF Summable
<1>14. SumOver(Customers, kept) = SumOver(Customers, balance) + SumOver(Customers, refunded)
  <2>1. SumsTo(balance, refunded, kept, Customers)
    BY <1>10, <1>11, <1>12 DEF SumsTo
  <2> QED BY <1>6, <2>1, SumPlus
<1>15. SumOver(Customers, credit) = SumOver(Customers, kept) + SumOver(Customers, paid)
  <2>1. SumsTo(kept, paid, credit, Customers)
    BY <1>8, <1>12 DEF SumsTo, Summable
  <2> QED BY <1>6, <2>1, SumPlus
<1>16. /\ SumOver(Customers, balance) \in Int /\ SumOver(Customers, refunded) \in Int
       /\ SumOver(Customers, paid) \in Int
  BY <1>6, <1>8, <1>13, SumTyped
<1>17. Receivables = SumOver(Customers, balance)
  BY <1>4 DEF Receivables
<1>18. Receivables
         = DailyClosing.fuel_credit_sales - DailyClosing.customer_payments - CashRefunded
  BY <1>7, <1>8, <1>9, <1>14, <1>15, <1>16, <1>17
<1>19. Receivables = SumOver(CustomerBalances, Balances)
  <2>1. PICK T \in SUBSET Customers : T = CustomerBalances
    BY DEF CustomerBalances
  <2>2. T = {c \in Customers : balance[c] > 0}
    BY <1>4, <2>1 DEF CustomerBalances
  <2>3. RestOf(balance, balance, Customers, T)
    BY <1>10, <2>2 DEF RestOf
  <2>4. SumOver(Customers, balance) = SumOver(T, balance)
    BY <1>6, <1>13, <2>3, SumOfRest
  <2> QED BY <1>4, <1>17, <2>1, <2>4
<1>20. DashboardSales = DailyClosing.fuel_cash_sales + DailyClosing.fuel_credit_sales
  BY SalesByType DEF DailyClosing
<1>21. ASSUME NEW c \in Customers,
              customer[c].outstanding_balance > customer[c].credit_limit
       PROVE  c \in CreditAlerts \/ customer[c].credit_limit = 0
  <2>1. PICK owing \in Int : owing = customer[c].outstanding_balance
    BY DEF TypeOK, Customer
  <2>2. PICK limit \in Nat : limit = customer[c].credit_limit
    BY DEF TypeOK, Customer
  <2>3. owing > limit => 10 * owing >= 9 * limit
    OBVIOUS
  <2> QED BY <1>21, <2>1, <2>2, <2>3 DEF CreditAlerts
<1> QED BY <1>18, <1>19, <1>20, <1>21 DEF CustomerReportsReconcile

\* Only the handlers of fuel sales write sales.
LEMMA OthersKeepSales ==
  ASSUME TypeOK, [Next]_vars
  PROVE  FuelSalesNext \/ UNCHANGED sales
<1>1. CASE ShiftsNext
  BY <1>1 DEF ShiftsNext, CreateShift, CloseShift
<1>2. CASE PurchasesNext
  <2>1. UNCHANGED otherBooks
    BY <1>2, PurchasesCases
    DEF PurchaseCreated, PurchaseApprovedStep, PurchaseRejectedStep, PurchaseUndone,
        PurchaseMarked, TankDipped, CreatePurchase, ApprovePurchase, RejectPurchase,
        UndoPurchase, MarkPurchase, CreateTankDip, otherBooks
  <2> QED BY <2>1 DEF otherBooks
<1>3. CASE PaymentsNext
  <2>1. UNCHANGED forecourt
    BY <1>3, PaymentsCases
    DEF CustomerPaid, CustomerPaymentUndone, CustomerPaymentMarked, SupplierPaid,
        SupplierPaymentUndone, SupplierPaymentMarked, CreateCustomerPayment,
        CreateSupplierPayment, UndoCustomerPayment, UndoSupplierPayment,
        MarkCustomerPayment, MarkSupplierPayment, forecourt
  <2> QED BY <2>1 DEF forecourt
<1>4. CASE CreditOverridesNext
  <2>1. UNCHANGED notCustomers
    BY <1>4 DEF CreditOverridesNext, UpdateCustomer, RequestCreditOverride,
                ApproveCreditOverride, RejectCreditOverride, notCustomers
  <2> QED BY <2>1 DEF notCustomers
<1>5. CASE UNCHANGED vars
  BY <1>5 DEF vars
<1> QED BY <1>1, <1>2, <1>3, <1>4, <1>5 DEF Next

\* A sale on credit names its customer when it is posted, and keeps it.
LEMMA CreditSalesNamedStep ==
  ASSUME TypeOK, CreditSalesNamed, [Next]_vars
  PROVE  CreditSalesNamed'
<1>1. CASE UNCHANGED sales
  BY <1>1 DEF CreditSalesNamed
<1>2. CASE SaleCreated
  <2>1. PICK u \in Users, n \in Nozzles, c \in Customers \cup {NoCustomer},
             sale_type \in SaleTypes, closing \in MeterReadings, rate \in Rates,
             shift_id \in 0..Len(shifts) :
               CreateFuelSale(u, n, c, sale_type, closing, rate, shift_id)
    BY <1>2 DEF SaleCreated
  <2>2. sale_type = "credit" => c \in Customers
    BY <2>1 DEF CreateFuelSale
  <2>3. /\ Len(sales') = Len(sales) + 1
        /\ \A k \in 1..Len(sales) : sales'[k] = sales[k]
    BY <2>1, SaleCreatedFacts
  <2>4. sales'[Len(sales) + 1].customer = c
    BY <2>1, SaleCreatedFacts
  <2>5. sales'[Len(sales) + 1].sale_type = sale_type
    BY <2>1, SaleCreatedFacts
  <2>6. Len(sales) \in Nat
    BY DEF TypeOK
  <2> QED BY <2>2, <2>3, <2>4, <2>5, <2>6 DEF CreditSalesNamed
<1>3. ASSUME NEW i \in 1..Len(sales), NEW rev \in Workflow,
             UndoSale(i, rev) \/ MarkSale(i, rev)
      PROVE  CreditSalesNamed'
  BY <1>3, SaleRewritten DEF CreditSalesNamed
<1>4. CASE SaleUndone \/ SaleMarked
  <2>1. PICK i \in 1..Len(sales), rev \in Workflow : UndoSale(i, rev) \/ MarkSale(i, rev)
    BY <1>4 DEF SaleUndone, SaleMarked
  <2> QED BY <1>3, <2>1
<1>5. CASE MeterAdjusted
  BY <1>1, <1>5 DEF MeterAdjusted, AdjustNozzleMeter
<1> QED BY <1>1, <1>2, <1>4, <1>5, OthersKeepSales, FuelSalesCases

\* For every station, with any number of customers and any amounts: what the dashboard
\* shows as receivable is the sum of the balances that the customer report lists, and the
\* credit sales of the daily closing less its payments and the refunds of reversed cash
\* sales; a balance over its limit is in the credit alerts (reports.py:217,
\* dashboard.py:125).
THEOREM CustomerReportsAgree == Spec => []CustomerReportsReconcile
<1>1. Init => CreditSalesNamed
  BY DEF Init, FuelSalesInit, StateInit, CreditSalesNamed
<1>2. TypeOK /\ CreditSalesNamed /\ [Next]_vars => CreditSalesNamed'
  BY CreditSalesNamedStep
<1>3. TypeOK /\ CreditSalesNamed /\ NoNegativeBalance /\ BalanceExplained
        => CustomerReportsReconcile
  BY CustomersReconcile
<1> QED BY <1>1, <1>2, <1>3, TypeCorrect, BalancesNeverNegative, BalancesAreBooked, PTL
    DEF Spec

-----------------------------------------------------------------------------
(* 4. The reports on hauled fuel. *)

\* What trips post is booked: a purchase of its own brings the litres into the tank and
\* raises what the supplier is owed; nothing else that trips do touches either.
LEMMA TripsAreBooked ==
  ASSUME HaulageTypeOK, StockBooked, PayablesBooked, TankerTripsNext,
         UNCHANGED <<salesVars, dips, paymentVars>>
  PROVE  StockBooked' /\ PayablesBooked'
<1>1. /\ UNCHANGED dips /\ UNCHANGED supplier_payments
      /\ purchases \in Seq(PurchaseRow) /\ current_volume \in [Tanks -> Int]
      /\ payable_balance \in [Suppliers -> Int] /\ sales \in Seq(FuelSaleRow)
      /\ dips \in Seq(DipRow) /\ supplier_payments \in Seq(SupplierPaymentRow)
  BY DEF paymentVars, HaulageTypeOK, TypeOK
<1>2. CASE UNCHANGED <<current_volume, payable_balance, purchases, sales>>
  BY <1>1, <1>2 DEF StockBooked, Booked, PayablesBooked, Payable
<1>3. ASSUME NEW u \in Users, NEW i \in 1..Len(trips), CompleteStationTrip(u, i)
      PROVE  StockBooked' /\ PayablesBooked'
  <2>1. PICK t \in Tanks, s \in Suppliers, quantity \in Nat, amount \in Nat :
          /\ ApplyPurchaseEffects(t, s, quantity, amount)
          /\ purchases' = Append(purchases,
               [supplier |-> s, tank |-> t, quantity |-> quantity, total_amount |-> amount,
                status |-> "approved", submitted_by |-> u, approved_by |-> u, rev |-> Fresh])
    BY <1>3, StationTripFacts
  <2>2. UNCHANGED sales
    BY <1>3 DEF CompleteStationTrip, otherBooks
  <2>3. PICK p : p = [supplier |-> s, tank |-> t, quantity |-> quantity,
                      total_amount |-> amount, status |-> "approved", submitted_by |-> u,
                      approved_by |-> u, rev |-> Fresh]
    OBVIOUS
  <2>4. Fresh \in Workflow /\ ~Fresh.reversed
    BY DEF Fresh, Workflow, RequestStatuses
  <2>5. p \in PurchaseRow
    BY <2>3, <2>4 DEF PurchaseRow, PurchaseStatuses
  <2>6. /\ p.tank = t /\ p.supplier = s /\ p.quantity = quantity /\ p.total_amount = amount
        /\ Counted(p)
    BY <2>3, <2>4 DEF Counted
  <2>7. /\ purchases' = Append(purchases, p)
        /\ current_volume' = [current_volume EXCEPT ![t] = @ + quantity]
        /\ payable_balance' = [payable_balance EXCEPT ![s] = @ + amount]
    BY <2>1, <2>3 DEF ApplyPurchaseEffects
  <2>8. ASSUME NEW r \in Tanks PROVE current_volume'[r] = Booked(r)'
    <3> DEFINE delivered == DeliveredBy(r)
               before == Total(Amounts(purchases, delivered))
               after == Total(Amounts(purchases', delivered))
               sold == Total(Amounts(sales, SoldBy(r)))
               gained == Total(Amounts(dips, GainedBy(r)))
               opening == OpeningStock[r]
    <3>1. delivered \in [PurchaseRow -> Int]
      BY StockColumns
    <3>2. sold \in Int /\ gained \in Int /\ opening \in Int
      BY <1>1, BookedTyped
    <3>3. delivered[p] = IF t = r THEN quantity ELSE 0
      BY <2>5, <2>6 DEF DeliveredBy
    <3>4. /\ current_volume[r] = opening + before - sold + gained
          /\ Booked(r)' = opening + after - sold + gained
      BY <1>1, <2>2 DEF StockBooked, Booked
    <3> HIDE DEF delivered, sold, gained, opening
    <3>5. /\ Total(Amounts(Append(purchases, p), delivered))
               = Total(Amounts(purchases, delivered)) + delivered[p]
          /\ Total(Amounts(purchases, delivered)) \in Int /\ delivered[p] \in Int
      BY <1>1, <2>5, <3>1, AmountsAppended
    <3>6. after = before + delivered[p] /\ before \in Int
      BY <2>7, <3>5
    <3>7. current_volume'[r] = current_volume[r] + delivered[p]
      BY <1>1, <2>7, <3>3
    <3> HIDE DEF before, after
    <3>8. PICK x \in Int : x = delivered[p]
      BY <3>5
    <3>9. current_volume'[r] = (opening + before - sold + gained) + x
      BY <3>4, <3>7, <3>8
    <3>10. Booked(r)' = opening + (before + x) - sold + gained
      BY <3>4, <3>6, <3>8
    <3> QED BY <3>2, <3>6, <3>9, <3>10
  <2>9. ASSUME NEW r \in Suppliers PROVE payable_balance'[r] = Payable(r)'
    <3> DEFINE bought == BoughtFrom(r)
               before == Total(Amounts(purchases, bought))
               after == Total(Amounts(purchases', bought))
               settled == Total(Amounts(supplier_payments, SettledWith(r)))
    <3>1. bought \in [PurchaseRow -> Int]
      BY PayableColumns
    <3>2. settled \in Int
      BY <1>1, PayableTyped
    <3>3. bought[p] = IF s = r THEN amount ELSE 0
      BY <2>5, <2>6 DEF BoughtFrom, Part
    <3>4. payable_balance[r] = before - settled /\ Payable(r)' = after - settled
      BY <1>1 DEF PayablesBooked, Payable
    <3> HIDE DEF bought, settled
    <3>5. /\ Total(Amounts(Append(purchases, p), bought))
               = Total(Amounts(purchases, bought)) + bought[p]
          /\ Total(Amounts(purchases, bought)) \in Int /\ bought[p] \in Int
      BY <1>1, <2>5, <3>1, AmountsAppended
    <3>6. after = before + bought[p] /\ before \in Int
      BY <2>7, <3>5
    <3>7. payable_balance'[r] = payable_balance[r] + bought[p]
      BY <1>1, <2>7, <3>3
    <3> HIDE DEF before, after
    <3> QED BY <3>2, <3>4, <3>5, <3>6, <3>7
  <2> QED BY <2>8, <2>9 DEF StockBooked, PayablesBooked
<1>4. ASSUME NEW u \in Users, NEW i \in 1..Len(trips), CompleteCustomerTrip(u, i)
      PROVE  StockBooked' /\ PayablesBooked'
  BY <1>2, <1>4 DEF CompleteCustomerTrip
<1> QED BY <1>2, <1>3, <1>4, TripsCases DEF tripOnly, otherBooks

\* The stock and the payables of a station that hauls fuel are still what its documents
\* say.
LEMMA HauledBooksHold ==
  HaulageSpec => [](StockBooked /\ PayablesBooked /\ ReversedWereApproved /\ FiguresKept)
<1> DEFINE Hold == StockBooked /\ PayablesBooked
<1>1. HaulageInit => Hold
  BY StockBookedInit, PayablesBookedInit DEF HaulageInit
<1>2. HaulageTypeOK /\ HaulageTypeOK' /\ PurchasesAccounted /\ Hold /\ [HaulageNext]_haulageVars
        => Hold'
  <2> SUFFICES ASSUME HaulageTypeOK, HaulageTypeOK', PurchasesAccounted, Hold,
                      [HaulageNext]_haulageVars
               PROVE  Hold'
    OBVIOUS
  <2>1. CASE [Next]_vars
    BY <2>1, StockBookedStep, PayablesBookedStep DEF HaulageTypeOK, PurchasesAccounted
  <2>2. CASE TankerTripsNext /\ UNCHANGED <<salesVars, dips, paymentVars>>
    BY <2>2, TripsAreBooked
  <2> QED BY <2>1, <2>2 DEF HaulageNext, haulageVars
<1>3. PurchasesAccounted => ReversedWereApproved /\ FiguresKept
  BY DEF PurchasesAccounted
<1> QED BY <1>1, <1>2, <1>3, HaulageTypeCorrect, PurchasesAccountedAlways, PTL DEF HaulageSpec

\* What a column of trips adds up to, over any of them.
LEMMA TripColumn ==
  ASSUME NEW rows, NEW value \in [1..Len(trips) -> Int], Len(trips) \in Nat
  PROVE  /\ [i \in 1..Len(trips) |-> IF i \in rows THEN value[i] ELSE 0] \in Seq(Int)
         /\ Len([i \in 1..Len(trips) |-> IF i \in rows THEN value[i] ELSE 0]) = Len(trips)
<1>1. PICK n \in Nat : n = Len(trips)
  OBVIOUS
<1>2. PICK f : f = [i \in 1..n |-> IF i \in rows THEN value[i] ELSE 0]
  OBVIOUS
<1>3. f \in [1..n -> Int]
  BY <1>1, <1>2
<1>4. f \in Seq(Int) /\ Len(f) = n
  BY <1>3, ColumnIsSeq
<1> QED BY <1>1, <1>2, <1>4

\* The columns that trips store are what the reports on deliveries and expenses list.
LEMMA TripsReconcile ==
  ASSUME HaulageTypeOK, FiguresKept
  PROVE  /\ TankerProfit.fuel_revenue = TankerDeliveries(CompletedTrips).fuel_revenue
         /\ TankerProfit.total_net_profit =
              TankerDeliveries(CustomerTrips).fuel_revenue
                + TankerDeliveries(CustomerTrips).delivery_revenue
                - TankerExpenses(CompletedTrips)
<1>1. PICK n \in Nat : n = Len(trips)
  BY DEF HaulageTypeOK
<1>2. PICK fuel : fuel = [i \in 1..n |-> Total(Column(trips[i].deliveries, "fuel_amount"))]
  OBVIOUS
<1>3. PICK charge :
        charge = [i \in 1..n |-> Total(Column(trips[i].deliveries, "delivery_charge"))]
  OBVIOUS
<1>4. PICK spent : spent = [i \in 1..n |-> Total(trips[i].expenses)]
  OBVIOUS
<1>5. PICK profit : profit = [i \in 1..n |-> trips[i].net_profit]
  OBVIOUS
<1>6. ASSUME NEW i \in 1..n
      PROVE  /\ fuel[i] \in Int /\ charge[i] \in Int /\ spent[i] \in Int /\ profit[i] \in Int
             /\ trips[i].fuel_revenue = fuel[i]
             /\ profit[i] = (IF trips[i].route.type = "supplier_to_customer"
                             THEN fuel[i] + charge[i] ELSE 0) - spent[i]
  <2>1. trips[i] \in TripRow
    BY <1>1 DEF HaulageTypeOK
  <2>2. /\ trips[i].deliveries \in Seq(DeliveryRow) /\ trips[i].expenses \in Seq(Nat)
        /\ trips[i].net_profit \in Int
        /\ trips[i].route.type \in {"supplier_to_station", "supplier_to_customer"}
    BY <2>1 DEF TripRow, ToStation, ToCustomers
  <2>3. PICK rows : rows = trips[i].deliveries
    OBVIOUS
  <2>4. Column(rows, "fuel_amount") \in Seq(Nat) /\ Column(rows, "delivery_charge") \in Seq(Nat)
    BY <2>2, <2>3, ColumnsTyped
  <2>5. Total(Column(rows, "fuel_amount")) \in Nat /\ Total(Column(rows, "delivery_charge")) \in Nat
    BY <2>4, TotalNatural
  <2>6. Total(trips[i].expenses) \in Nat
    BY <2>2, TotalNatural
  <2>7. Figured(trips[i])
    BY <1>1 DEF FiguresKept
  <2>8. /\ fuel[i] = Total(Column(rows, "fuel_amount"))
        /\ charge[i] = Total(Column(rows, "delivery_charge"))
        /\ spent[i] = Total(trips[i].expenses) /\ profit[i] = trips[i].net_profit
    BY <1>2, <1>3, <1>4, <1>5, <2>3
  <2>9. /\ trips[i].fuel_revenue = fuel[i]
        /\ profit[i] = (IF trips[i].route.type = "supplier_to_station" THEN 0
                        ELSE fuel[i] + charge[i]) - spent[i]
    BY <2>3, <2>7, <2>8 DEF Figured, Earnings
  <2> QED BY <2>2, <2>5, <2>6, <2>8, <2>9
<1>7. /\ fuel \in [1..n -> Int] /\ charge \in [1..n -> Int] /\ spent \in [1..n -> Int]
      /\ profit \in [1..n -> Int]
  BY <1>2, <1>3, <1>4, <1>5, <1>6
<1>8. TankerProfit.fuel_revenue = TankerDeliveries(CompletedTrips).fuel_revenue
  <2>1. PICK f : f = [i \in 1..n |-> IF i \in CompletedTrips THEN fuel[i] ELSE 0]
    OBVIOUS
  <2>2. TankerProfit.fuel_revenue = Total(f)
    BY <1>1, <1>6, <2>1 DEF TankerProfit, SumOf
  <2>3. TankerDeliveries(CompletedTrips).fuel_revenue = Total(f)
    BY <1>1, <1>2, <2>1 DEF TankerDeliveries, OverTrips
  <2> QED BY <2>2, <2>3
<1>9. PICK a : a = [i \in 1..n |-> IF i \in CompletedTrips THEN profit[i] ELSE 0]
  OBVIOUS
<1>10. PICK e : e = [i \in 1..n |-> IF i \in CompletedTrips THEN spent[i] ELSE 0]
  OBVIOUS
<1>11. PICK f : f = [i \in 1..n |-> IF i \in CustomerTrips THEN fuel[i] ELSE 0]
  OBVIOUS
<1>12. PICK d : d = [i \in 1..n |-> IF i \in CustomerTrips THEN charge[i] ELSE 0]
  OBVIOUS
<1>13. PICK s : s = [i \in 1..n |-> f[i] + d[i]]
  OBVIOUS
<1>14. /\ a \in Seq(Int) /\ e \in Seq(Int) /\ f \in Seq(Int) /\ d \in Seq(Int)
       /\ Len(a) = n /\ Len(e) = n /\ Len(f) = n /\ Len(d) = n
  BY <1>1, <1>7, <1>9, <1>10, <1>11, <1>12, TripColumn
<1>15. s \in Seq(Int) /\ Len(s) = n
  <2>1. s \in [1..n -> Int]
    BY <1>7, <1>11, <1>12, <1>13
  <2> QED BY <2>1, ColumnIsSeq
<1>16. \A k \in 1..n : s[k] = a[k] + e[k]
  <2> SUFFICES ASSUME NEW k \in 1..n PROVE s[k] = a[k] + e[k]
    OBVIOUS
  <2>1. /\ k \in CompletedTrips <=> trips[k].completed
        /\ k \in CustomerTrips <=> /\ k \in CompletedTrips
                                   /\ trips[k].route.type = "supplier_to_customer"
    BY <1>1 DEF CompletedTrips, CustomerTrips
  <2>2. s[k] = f[k] + d[k]
    BY <1>13
  <2>3. CASE k \notin CompletedTrips
    BY <1>9, <1>10, <1>11, <1>12, <2>1, <2>2, <2>3
  <2>4. CASE k \in CustomerTrips
    <3>1. a[k] = profit[k] /\ e[k] = spent[k] /\ f[k] = fuel[k] /\ d[k] = charge[k]
      BY <1>9, <1>10, <1>11, <1>12, <2>1, <2>4
    <3> QED BY <1>6, <2>1, <2>2, <2>4, <3>1
  <2>5. CASE k \in CompletedTrips /\ k \notin CustomerTrips
    <3>1. a[k] = profit[k] /\ e[k] = spent[k] /\ f[k] = 0 /\ d[k] = 0
      BY <1>9, <1>10, <1>11, <1>12, <2>5
    <3>2. profit[k] = 0 - spent[k]
      BY <1>6, <2>1, <2>5
    <3>3. spent[k] \in Int
      BY <1>7
    <3> QED BY <2>2, <3>1, <3>2, <3>3
  <2> QED BY <2>3, <2>4, <2>5
<1>17. Total(s) = Total(a) + Total(e) /\ Total(a) \in Int /\ Total(e) \in Int
  BY <1>14, <1>15, <1>16, TotalPlus, ZenonT(40)
<1>18. Total(s) = Total(f) + Total(d) /\ Total(f) \in Int /\ Total(d) \in Int
  <2>1. \A k \in 1..n : s[k] = f[k] + d[k]
    BY <1>13
  <2> QED BY <1>14, <1>15, <2>1, TotalPlus, ZenonT(40)
<1>19. TankerProfit.total_net_profit = Total(a)
  BY <1>1, <1>5, <1>9 DEF TankerProfit, SumOf
<1>20. TankerExpenses(CompletedTrips) = Total(e)
  BY <1>1, <1>4, <1>10 DEF TankerExpenses, OverTrips
<1>21. TankerDeliveries(CustomerTrips).fuel_revenue = Total(f)
  BY <1>1, <1>2, <1>11 DEF TankerDeliveries, OverTrips
<1>22. TankerDeliveries(CustomerTrips).delivery_revenue = Total(d)
  BY <1>1, <1>3, <1>12 DEF TankerDeliveries, OverTrips
<1>23. Total(a) = Total(f) + Total(d) - Total(e)
  BY <1>17, <1>18
<1> QED BY <1>8, <1>19, <1>20, <1>21, <1>22, <1>23

\* For every station that hauls fuel, with any number of suppliers, tanks and trips: the
\* tanker report's profit is what the delivery and expense reports list, whenever the
\* expenses were entered, and what the dashboard shows as payable and in stock is what
\* the supplier report, the suppliers' records, their ledgers and the documents say
\* (reports.py:262, :310, :355, :398; dashboard.py:158, :214).
THEOREM HaulageReportsAgree == HaulageSpec => []HaulageReportsReconcile
<1>1. /\ HaulageTypeOK /\ NoNegativeBalance
      /\ StockBooked /\ PayablesBooked /\ ReversedWereApproved /\ FiguresKept
      => HaulageReportsReconcile
  <2> SUFFICES ASSUME HaulageTypeOK, NoNegativeBalance, StockBooked, PayablesBooked, FiguresKept
               PROVE  HaulageReportsReconcile
    OBVIOUS
  <2>1. TypeOK /\ PayableMatchesLedger /\ StockBalances
    BY StockForm, PayableForm DEF HaulageTypeOK
  <2> QED BY <2>1, SuppliersReconcile, TripsReconcile DEF HaulageReportsReconcile
<1> QED BY <1>1, HaulageTypeCorrect, HauledBalancesNeverNegative, HauledBooksHold, PTL

-----------------------------------------------------------------------------
(* 5. What the station guarantees without trips, it guarantees with them. *)

\* A trip leaves the sales and the meters alone, and posts one purchase or none.
LEMMA TripsPost ==
  ASSUME HaulageTypeOK, TankerTripsNext
  PROVE  /\ UNCHANGED <<nozzle, sales>>
         /\ TableStep(purchases, purchases', ForecourtStaff)
<1>1. purchases \in Seq(PurchaseRow)
  BY DEF HaulageTypeOK, TypeOK
<1>2. UNCHANGED purchases => TableStep(purchases, purchases', ForecourtStaff)
  BY DEF TableStep
<1>3. UNCHANGED tripOnly => UNCHANGED <<nozzle, sales, purchases>>
  BY DEF tripOnly, otherBooks
<1>4. ASSUME NEW u \in Users, NEW i \in 1..Len(trips), CompleteStationTrip(u, i)
      PROVE  /\ UNCHANGED <<nozzle, sales>>
             /\ TableStep(purchases, purchases', ForecourtStaff)
  <2>1. PICK row : purchases' = Append(purchases, row) /\ row.rev = Fresh
    BY <1>4 DEF CompleteStationTrip
  <2>2. /\ Len(purchases') = Len(purchases) + 1 /\ purchases'[Len(purchases')].rev = Fresh
        /\ \A k \in 1..Len(purchases) : purchases'[k] = purchases[k]
    BY <1>1, <2>1, OneRowMore
  <2> QED BY <1>4, <2>2 DEF TableStep, CompleteStationTrip, otherBooks
<1>5. ASSUME NEW u \in Users, NEW i \in 1..Len(trips), CompleteCustomerTrip(u, i)
      PROVE  UNCHANGED <<nozzle, sales, purchases>>
  BY <1>5 DEF CompleteCustomerTrip
<1> QED BY <1>2, <1>3, <1>4, <1>5, TripsCases

\* Every step of a station that hauls fuel is one of the station, or a trip's.
LEMMA HaulageSteps ==
  ASSUME HaulageTypeOK, [HaulageNext]_haulageVars
  PROVE  \/ [Next]_vars /\ UNCHANGED trips
         \/ /\ TankerTripsNext
            /\ UNCHANGED <<nozzle, sales, shifts, adjustments, dips,
                           customer_payments, supplier_payments>>
            /\ TableStep(purchases, purchases', ForecourtStaff)
BY TripsPost DEF HaulageNext, haulageVars, salesVars, paymentVars

\* Nothing a station that hauls fuel does breaks the meters or the closed shifts.
LEMMA HauledMetersAndShiftsHold == HaulageSpec => [](MetersBooked /\ ShiftsHold)
<1>1. HaulageInit => MetersBooked /\ ShiftsHold
  BY MetersBookedInit, ShiftsHoldInit DEF HaulageInit
<1>2. /\ HaulageTypeOK /\ HaulageTypeOK' /\ MetersBooked /\ ShiftsHold
      /\ [HaulageNext]_haulageVars
      => MetersBooked' /\ ShiftsHold'
  <2> SUFFICES ASSUME HaulageTypeOK, HaulageTypeOK', MetersBooked, ShiftsHold,
                      [HaulageNext]_haulageVars
               PROVE  MetersBooked' /\ ShiftsHold'
    OBVIOUS
  <2>1. CASE [Next]_vars
    BY <2>1, MetersBookedStep, ShiftsHoldStep DEF HaulageTypeOK
  <2>2. CASE UNCHANGED <<nozzle, sales, shifts, adjustments>>
    <3>1. MetersBooked'
      BY <2>2 DEF MetersBooked, Metered, Reading
    <3>2. ShiftsHold'
      BY <2>2 DEF ShiftsHold, LateMarksClosed, SalesHaveShifts, ClosedStored, Stored, OneOpen
    <3> QED BY <3>1, <3>2
  <2> QED BY <2>1, <2>2, HaulageSteps
<1> QED BY <1>1, <1>2, HaulageTypeCorrect, PTL DEF HaulageSpec

\* For every station that hauls fuel: its tanks hold what the documents say, what trips
\* unloaded included (tanker_ops.py:238-279); its suppliers are owed what their ledgers
\* say; and its meters and closed shifts are what they were without trips.
THEOREM HauledBooksAgree ==
  HaulageSpec => [](StockBalances /\ PayableMatchesLedger /\ MeterExplained /\ ClosedTotalsHold)
<1>1. /\ HaulageTypeOK /\ StockBooked /\ PayablesBooked /\ ReversedWereApproved /\ FiguresKept
      /\ MetersBooked /\ ShiftsHold
      => StockBalances /\ PayableMatchesLedger /\ MeterExplained /\ ClosedTotalsHold
  BY StockForm, PayableForm, MeterForm, ShiftsForm DEF HaulageTypeOK
<1> QED BY <1>1, HaulageTypeCorrect, HauledBooksHold, HauledMetersAndShiftsHold, PTL

\* Nor does a trip's step break the reversal protocol, in any of its four tables.
LEMMA HauledRowsRefine ==
  ASSUME HaulageTypeOK, [HaulageNext]_haulageVars,
         RowsInOrder(sales), RowsInOrder(purchases),
         RowsInOrder(customer_payments), RowsInOrder(supplier_payments)
  PROVE  /\ RowsInOrder(sales)' /\ RowsInOrder(purchases)'
         /\ RowsInOrder(customer_payments)' /\ RowsInOrder(supplier_payments)'
         /\ [SaleReversals!ProtocolNext]_(DocsOf(sales))
         /\ [PurchaseReversals!ProtocolNext]_(DocsOf(purchases))
         /\ [CustomerPaymentReversals!ProtocolNext]_(DocsOf(customer_payments))
         /\ [SupplierPaymentReversals!ProtocolNext]_(DocsOf(supplier_payments))
<1>1. TypeOK /\ Len(purchases) \in Nat
  BY DEF HaulageTypeOK, TypeOK
<1>2. CASE [Next]_vars
  BY <1>1, <1>2, SalesRefine, PurchasesRefine, CustomerPaymentsRefine, SupplierPaymentsRefine
<1>3. CASE /\ UNCHANGED <<sales, customer_payments, supplier_payments>>
           /\ TableStep(purchases, purchases', ForecourtStaff)
  <2>1. RowsInOrder(purchases)' /\ [PurchaseReversals!ProtocolNext]_(DocsOf(purchases))
    BY <1>1, <1>3, PurchaseTableRefines
  <2>2. /\ RowsInOrder(sales)' /\ RowsInOrder(customer_payments)'
        /\ RowsInOrder(supplier_payments)'
    BY <1>3 DEF RowsInOrder, InOrder
  <2>3. UNCHANGED <<DocsOf(sales), DocsOf(customer_payments), DocsOf(supplier_payments)>>
    BY <1>3 DEF DocsOf, DocOf
  <2> QED BY <2>1, <2>2, <2>3
<1> QED BY <1>2, <1>3, HaulageSteps

\* For every station that hauls fuel: sales, purchases and both kinds of payments follow
\* the reversal protocol, and what a trip posted is reversed like any other purchase.
THEOREM HauledDocumentsFollowWorkflow ==
  HaulageSpec =>
    /\ SalesFollowWorkflow /\ CustomerPaymentsFollowWorkflow /\ SupplySideFollowsWorkflow
<1> DEFINE Orderly == /\ RowsInOrder(sales) /\ RowsInOrder(purchases)
                      /\ RowsInOrder(customer_payments) /\ RowsInOrder(supplier_payments)
<1>1. HaulageInit => /\ Orderly
                     /\ SaleReversals!ProtocolInit /\ PurchaseReversals!ProtocolInit
                     /\ CustomerPaymentReversals!ProtocolInit
                     /\ SupplierPaymentReversals!ProtocolInit
  BY EmptyTables DEF HaulageInit
<1>2. HaulageTypeOK /\ Orderly /\ [HaulageNext]_haulageVars
        => /\ Orderly'
           /\ [SaleReversals!ProtocolNext]_(DocsOf(sales))
           /\ [PurchaseReversals!ProtocolNext]_(DocsOf(purchases))
           /\ [CustomerPaymentReversals!ProtocolNext]_(DocsOf(customer_payments))
           /\ [SupplierPaymentReversals!ProtocolNext]_(DocsOf(supplier_payments))
  BY HauledRowsRefine
<1>3. Orderly => /\ ApprovedMeansReversed(sales) /\ ApprovedMeansReversed(purchases)
                 /\ ApprovedMeansReversed(customer_payments)
                 /\ ApprovedMeansReversed(supplier_payments)
  BY RowsAreOrderly
<1> QED BY <1>1, <1>2, <1>3, HaulageTypeCorrect, PTL
    DEF HaulageSpec, SalesFollowWorkflow, CustomerPaymentsFollowWorkflow,
        SupplySideFollowsWorkflow, SaleReversals!ProtocolSpec, PurchaseReversals!ProtocolSpec,
        CustomerPaymentReversals!ProtocolSpec, SupplierPaymentReversals!ProtocolSpec

\* Trip i is completed by this step, and delivered to customer c on credit.
DeliveredOnCredit(i, c) ==
  /\ ~trips[i].completed /\ trips'[i].completed
  /\ \E k \in 1..Len(trips[i].deliveries) :
       trips[i].deliveries[k].customer = c /\ trips[i].deliveries[k].sale_type = "credit"

\* A trip raises no balance, or one that it delivered to on credit.
LEMMA TripsRaiseTheirOwn ==
  ASSUME HaulageTypeOK, TankerTripsNext, NEW c \in Customers
  PROVE  \/ Owing(c)' = Owing(c)
         \/ \E i \in 1..Len(trips) : DeliveredOnCredit(i, c)
<1>1. CASE UNCHANGED tripOnly
  BY <1>1 DEF tripOnly, otherBooks, Owing
<1>2. ASSUME NEW u \in Users, NEW i \in 1..Len(trips), CompleteStationTrip(u, i)
      PROVE  Owing(c)' = Owing(c)
  BY <1>2 DEF CompleteStationTrip, otherBooks, Owing
<1>3. ASSUME NEW u \in Users, NEW i \in 1..Len(trips), CompleteCustomerTrip(u, i),
             ~DeliveredOnCredit(i, c)
      PROVE  Owing(c)' = Owing(c)
  <2> DEFINE trip == Recomputed(trips[i])
             charged == ChargedFor(trip.deliveries, c)
  <2>1. trips \in Seq(TripRow) /\ trips[i] \in TripRow
    BY DEF HaulageTypeOK
  <2>2. /\ trip \in TripRow /\ trip.completed = trips[i].completed
        /\ trip.deliveries = trips[i].deliveries
    BY <2>1, RecomputedTyped
  <2>3. /\ ~trip.completed
        /\ trips' = [trips EXCEPT ![i] = [trip EXCEPT !.completed = TRUE]]
        /\ customer' = [d \in Customers |->
             [customer[d] EXCEPT !.outstanding_balance
                = @ + Total(ChargedFor(trip.deliveries, d))]]
    BY <1>3 DEF CompleteCustomerTrip, MayComplete
  <2> HIDE DEF trip
  <2>4. trips'[i].completed
    BY <2>1, <2>2, <2>3 DEF TripRow
  <2>5. ASSUME NEW k \in 1..Len(trip.deliveries) PROVE charged[k] = 0
    BY <1>3, <2>2, <2>3, <2>4 DEF DeliveredOnCredit, ChargedFor
  <2>6. charged \in Seq(Int) /\ Len(charged) = Len(trip.deliveries)
    <3>1. trip.deliveries \in Seq(DeliveryRow)
      BY <2>2 DEF TripRow
    <3>2. PICK n \in Nat : n = Len(trip.deliveries)
      BY <3>1
    <3>3. charged = [k \in 1..n |-> charged[k]]
      BY <3>2 DEF ChargedFor
    <3> HIDE DEF charged
    <3>4. charged \in [1..n -> Int]
      BY <2>5, <3>2, <3>3
    <3> QED BY <3>2, <3>4, ColumnIsSeq
  <2>7. Total(charged) = 0
    <3> HIDE DEF charged
    <3> QED BY <2>5, <2>6, TotalZero
  <2>8. customer[c] \in Customer
    BY DEF HaulageTypeOK, TypeOK
  <2>9. customer'[c] = [customer[c] EXCEPT !.outstanding_balance = @ + 0]
    BY <2>3, <2>7
  <2> QED BY <2>8, <2>9 DEF Owing, Customer
<1> QED BY <1>1, <1>2, <1>3, TripsCases

\* For every station that hauls fuel: a balance rises beyond the credit allowed only when
\* a payment is taken back or a trip with a delivery to that customer on credit is
\* completed, which compares nothing (tanker_ops.py:272-277, fuel_sales.py:128-139).
THEOREM OnlyTripsPassTheLimit ==
  HaulageSpec =>
    [][\A c \in Customers :
         RaisedWithinLimit(c) \/ \E i \in 1..Len(trips) : DeliveredOnCredit(i, c)]_haulageVars
<1>1. ASSUME HaulageTypeOK, HaulageNext, NEW c \in Customers
      PROVE  RaisedWithinLimit(c) \/ \E i \in 1..Len(trips) : DeliveredOnCredit(i, c)
  <2>1. customer[c] \in Customer /\ customer[c].outstanding_balance \in Int
    <3>1. customer[c] \in Customer
      BY <1>1 DEF HaulageTypeOK, TypeOK
    <3> QED BY <3>1 DEF Customer
  <2>2. CASE Next
    BY <1>1, <2>2, CreditStep DEF HaulageTypeOK
  <2>3. CASE TankerTripsNext
    <3>1. CASE Owing(c)' = Owing(c)
      BY <2>1, <3>1 DEF RaisedWithinLimit, Owing
    <3> QED BY <1>1, <2>3, <3>1, TripsRaiseTheirOwn
  <2> QED BY <1>1, <2>2, <2>3 DEF HaulageNext
<1>2. HaulageTypeOK /\ [HaulageNext]_haulageVars
        => [\A c \in Customers :
              RaisedWithinLimit(c) \/ \E i \in 1..Len(trips) : DeliveredOnCredit(i, c)]_haulageVars
  BY <1>1
<1> QED BY <1>2, HaulageTypeCorrect, PTL DEF HaulageSpec

-----------------------------------------------------------------------------
(* 6. The approval of purchases. *)

\* A purchase as a document, and a place that has none.
RowDoc(row) ==
  [state |-> ApprovalState[row.status], amount |-> row.total_amount,
   by |-> row.submitted_by, decider |-> row.approved_by]
NoDoc == [state |-> "unused", amount |-> 0, by |-> Nobody, decider |-> Nobody]

HasDoc(p) == p <= Len(purchases) /\ PostedBy(p) = {}

LEMMA DocsAre ==
  ASSUME Len(purchases) \in Nat, Len(purchases') \in Nat, NEW p \in 1..MaxPurchases
  PROVE  /\ PurchaseDocs[p] = IF HasDoc(p) THEN RowDoc(purchases[p]) ELSE NoDoc
         /\ PurchaseDocs'[p] = IF HasDoc(p)' THEN RowDoc(purchases'[p]) ELSE NoDoc
<1>1. MaxPurchases \in Nat
  BY PurchasesAssumption
<1> QED BY <1>1 DEF PurchaseDocs, HasDoc, RowDoc, NoDoc

\* Documents that stay the same, but for one.
LEMMA DocsSame ==
  ASSUME \A p \in 1..MaxPurchases : PurchaseDocs'[p] = PurchaseDocs[p]
  PROVE  UNCHANGED PurchaseDocs
BY DEF PurchaseDocs

LEMMA OneDocWritten ==
  ASSUME NEW i \in 1..MaxPurchases, NEW doc, PurchaseDocs'[i] = doc,
         \A p \in 1..MaxPurchases : p # i => PurchaseDocs'[p] = PurchaseDocs[p]
  PROVE  PurchaseDocs' = [PurchaseDocs EXCEPT ![i] = doc]
<1> DEFINE old == PurchaseDocs
           new == PurchaseDocs'
<1>1. /\ DOMAIN old = 1..MaxPurchases /\ old = [p \in 1..MaxPurchases |-> old[p]]
      /\ DOMAIN new = 1..MaxPurchases /\ new = [p \in 1..MaxPurchases |-> new[p]]
  BY DEF PurchaseDocs
<1>2. /\ new[i] = doc
      /\ \A p \in 1..MaxPurchases : p # i => new[p] = old[p]
  OBVIOUS
<1> HIDE DEF old, new
<1>3. new = [old EXCEPT ![i] = doc]
  BY <1>1, <1>2
<1> QED BY <1>3 DEF old, new

\* What waits, and what is not there yet, no trip has posted.
LEMMA PendingUnposted ==
  ASSUME HaulageTypeOK, PurchasesAccounted
  PROVE  /\ \A p \in 1..Len(purchases) : purchases[p].status = "pending" => PostedBy(p) = {}
         /\ \A p \in Nat : p > Len(purchases) => PostedBy(p) = {}
<1>1. Len(purchases) \in Nat
  BY DEF HaulageTypeOK, TypeOK
<1>2. ASSUME NEW p \in Nat \ {0}, NEW i \in PostedBy(p)
      PROVE  p \in 1..Len(purchases) /\ purchases[p].status = "approved"
  BY <1>2 DEF PostedBy, PurchasesAccounted, TripsLinked, Posted
<1> QED BY <1>1, <1>2

\* There is an id for every purchase.
WithinIds == Len(purchases) <= MaxPurchases

\* A purchase that one call enters, decides or reverses is one step of the protocol.
LEMMA PurchasesKeepDocs ==
  ASSUME HaulageTypeOK, UNCHANGED purchases,
         \A p \in 1..MaxPurchases : PostedBy(p)' = PostedBy(p)
  PROVE  UNCHANGED PurchaseDocs
<1>1. Len(purchases) \in Nat /\ Len(purchases') \in Nat
  BY DEF HaulageTypeOK, TypeOK
<1>2. ASSUME NEW p \in 1..MaxPurchases PROVE PurchaseDocs'[p] = PurchaseDocs[p]
  BY <1>1, DocsAre DEF HasDoc
<1> QED BY <1>2, DocsSame

LEMMA PurchaseEntered ==
  ASSUME HaulageTypeOK, PurchasesAccounted, WithinIds, UNCHANGED trips, PurchaseCreated
  PROVE  WithinIds' /\ [PurchaseApproval!ApprovalNext]_PurchaseDocs
<1>1. PICK u \in Users, s \in Suppliers, t \in Tanks, quantity \in Deliveries,
           rate \in PurchaseRates : CreatePurchase(u, s, t, quantity, rate)
  BY DEF PurchaseCreated
<1>2. /\ purchases \in Seq(PurchaseRow) /\ Len(purchases) \in Nat
      /\ MaxPurchases \in Nat /\ Len(purchases) < MaxPurchases /\ u \in ForecourtStaff
  BY <1>1, PurchasesAssumption DEF HaulageTypeOK, TypeOK, CreatePurchase
<1>0. PICK n : n = Len(purchases) + 1
  OBVIOUS
<1> DEFINE approved == u \in Administrators
           amount == quantity * rate
<1>3. PICK q : /\ q.status = IF approved THEN "approved" ELSE "pending"
               /\ q.total_amount = amount /\ q.submitted_by = u
               /\ q.approved_by = IF approved THEN u ELSE Nobody
               /\ purchases' = Append(purchases, q)
  BY <1>1 DEF CreatePurchase
<1>4. amount \in {b * r : b \in Deliveries, r \in PurchaseRates}
  OBVIOUS
<1> HIDE DEF amount
<1>5. /\ Len(purchases') = n /\ purchases'[n] = q
      /\ \A k \in 1..Len(purchases) : purchases'[k] = purchases[k]
  BY <1>0, <1>2, <1>3
<1>6. n \in 1..MaxPurchases /\ n > Len(purchases) /\ n \in Nat
  BY <1>0, <1>2
<1>7. \A p : PostedBy(p)' = PostedBy(p)
  BY DEF PostedBy
<1>8. ASSUME NEW p \in 1..MaxPurchases, p # n PROVE PurchaseDocs'[p] = PurchaseDocs[p]
  <2>1. p <= Len(purchases) \/ p > n
    BY <1>0, <1>2, <1>8
  <2>2. /\ HasDoc(p)' <=> HasDoc(p)
        /\ HasDoc(p) => purchases'[p] = purchases[p]
    BY <1>2, <1>5, <1>6, <1>7, <2>1 DEF HasDoc
  <2>3. CASE HasDoc(p)
    BY <1>2, <1>5, <1>6, <2>2, <2>3, DocsAre
  <2>4. CASE ~HasDoc(p)
    BY <1>2, <1>5, <1>6, <2>2, <2>4, DocsAre
  <2> QED BY <2>3, <2>4
<1>9. PurchaseDocs[n] = NoDoc
  BY <1>2, <1>5, <1>6, DocsAre DEF HasDoc
<1>10. PurchaseDocs'[n] = RowDoc(q)
  <2>1. HasDoc(n)'
    BY <1>2, <1>5, <1>6, <1>7, PendingUnposted DEF HasDoc
  <2> QED BY <1>2, <1>5, <1>6, <2>1, DocsAre
<1>11. PurchaseDocs' = [PurchaseDocs EXCEPT ![n] = RowDoc(q)]
  BY <1>6, <1>8, <1>10, OneDocWritten
<1>12. RowDoc(q) = IF approved
                   THEN [state |-> "accepted", amount |-> amount, by |-> u, decider |-> u]
                   ELSE [state |-> "submitted", amount |-> amount, by |-> u, decider |-> Nobody]
  BY <1>3 DEF RowDoc, ApprovalState
<1>13. PurchaseApproval!Submit(n, u, amount)
  BY <1>9, <1>11, <1>12 DEF PurchaseApproval!Submit, PurchaseApproval!Unused, NoDoc
<1>14. PurchaseApproval!ApprovalNext
  BY <1>2, <1>4, <1>6, <1>13 DEF PurchaseApproval!ApprovalNext
<1>15. WithinIds'
  BY <1>2, <1>5, <1>6 DEF WithinIds
<1> QED BY <1>14, <1>15

\* A decision rewrites the document of a purchase that waits.
LEMMA PurchaseDecided ==
  ASSUME HaulageTypeOK, PurchasesAccounted, WithinIds, UNCHANGED trips,
         NEW i \in 1..Len(purchases), NEW q, purchases' = [purchases EXCEPT ![i] = q],
         purchases[i].status = "pending"
  PROVE  /\ WithinIds' /\ i \in 1..MaxPurchases
         /\ PurchaseDocs[i] = RowDoc(purchases[i])
         /\ PurchaseDocs' = [PurchaseDocs EXCEPT ![i] = RowDoc(q)]
<1>1. /\ purchases \in Seq(PurchaseRow) /\ Len(purchases) \in Nat /\ MaxPurchases \in Nat
  BY PurchasesAssumption DEF HaulageTypeOK, TypeOK
<1>2. /\ Len(purchases') = Len(purchases) /\ purchases'[i] = q
      /\ \A k \in 1..Len(purchases) : k # i => purchases'[k] = purchases[k]
  BY <1>1
<1>3. WithinIds' /\ i \in 1..MaxPurchases
  BY <1>1, <1>2 DEF WithinIds
<1>4. \A p : PostedBy(p)' = PostedBy(p)
  BY DEF PostedBy
<1>5. HasDoc(i) /\ HasDoc(i)'
  BY <1>1, <1>2, <1>4, PendingUnposted DEF HasDoc
<1>6. PurchaseDocs[i] = RowDoc(purchases[i]) /\ PurchaseDocs'[i] = RowDoc(q)
  BY <1>1, <1>2, <1>3, <1>5, DocsAre
<1>7. ASSUME NEW p \in 1..MaxPurchases, p # i PROVE PurchaseDocs'[p] = PurchaseDocs[p]
  <2>1. /\ HasDoc(p)' <=> HasDoc(p)
        /\ HasDoc(p) => purchases'[p] = purchases[p]
    BY <1>1, <1>2, <1>4, <1>7 DEF HasDoc
  <2>2. CASE HasDoc(p)
    BY <1>1, <1>2, <2>1, <2>2, DocsAre
  <2>3. CASE ~HasDoc(p)
    BY <1>1, <1>2, <2>1, <2>3, DocsAre
  <2> QED BY <2>2, <2>3
<1>8. PurchaseDocs' = [PurchaseDocs EXCEPT ![i] = RowDoc(q)]
  BY <1>3, <1>6, <1>7, OneDocWritten
<1> QED BY <1>3, <1>6, <1>8

\* Approving one accepts it, by a reviewer who did not submit it.
LEMMA PurchaseAccepted ==
  ASSUME HaulageTypeOK, PurchasesAccounted, WithinIds, UNCHANGED trips, PurchaseApprovedStep
  PROVE  WithinIds' /\ [PurchaseApproval!ApprovalNext]_PurchaseDocs
<1>1. PICK u \in Users, i \in 1..Len(purchases) : ApprovePurchase(u, i)
  BY DEF PurchaseApprovedStep
<1>2. purchases[i] \in PurchaseRow
  BY PurchaseFields DEF HaulageTypeOK
<1>3. PICK q :
        /\ purchases' = [purchases EXCEPT ![i] = q]
        /\ q.status = "approved" /\ q.approved_by = u
        /\ q.total_amount = purchases[i].total_amount
        /\ q.submitted_by = purchases[i].submitted_by
  <2> DEFINE q == [purchases[i] EXCEPT !.status = "approved", !.approved_by = u]
  <2>1. purchases' = [purchases EXCEPT ![i] = q]
    BY <1>1 DEF ApprovePurchase
  <2>2. /\ q.status = "approved" /\ q.approved_by = u
        /\ q.total_amount = purchases[i].total_amount
        /\ q.submitted_by = purchases[i].submitted_by
    BY <1>2 DEF PurchaseRow
  <2> HIDE DEF q
  <2> QED BY <2>1, <2>2
<1>4. purchases[i].status = "pending" /\ u \in Reviewers
  BY <1>1 DEF ApprovePurchase
<1>5. purchases[i].submitted_by # u
  BY <1>4 DEF PurchasesAccounted, SubmittedByOthers
<1>6. /\ WithinIds' /\ i \in 1..MaxPurchases
      /\ PurchaseDocs[i] = RowDoc(purchases[i])
      /\ PurchaseDocs' = [PurchaseDocs EXCEPT ![i] = RowDoc(q)]
  BY <1>3, <1>4, PurchaseDecided
<1>7. RowDoc(purchases[i]) = [state |-> "submitted", amount |-> purchases[i].total_amount,
                              by |-> purchases[i].submitted_by,
                              decider |-> purchases[i].approved_by]
  BY <1>4 DEF RowDoc, ApprovalState
<1>8. RowDoc(q) = [state |-> "accepted", amount |-> purchases[i].total_amount,
                   by |-> purchases[i].submitted_by, decider |-> u]
  BY <1>3 DEF RowDoc, ApprovalState
<1>9. PurchaseApproval!Accept(i, u)
  BY <1>5, <1>6, <1>7, <1>8 DEF PurchaseApproval!Accept, PurchaseApproval!Decided
<1>10. PurchaseApproval!ApprovalNext
  BY <1>4, <1>6, <1>9 DEF PurchaseApproval!ApprovalNext
<1> QED BY <1>6, <1>10

\* Rejecting one refuses it.
LEMMA PurchaseRefused ==
  ASSUME HaulageTypeOK, PurchasesAccounted, WithinIds, UNCHANGED trips, PurchaseRejectedStep
  PROVE  WithinIds' /\ [PurchaseApproval!ApprovalNext]_PurchaseDocs
<1>1. PICK u \in Users, i \in 1..Len(purchases) : RejectPurchase(u, i)
  BY DEF PurchaseRejectedStep
<1>2. purchases[i] \in PurchaseRow /\ purchases[i].status = "pending"
  BY <1>1, PurchaseFields DEF HaulageTypeOK, RejectPurchase
<1>3. PICK q :
        /\ purchases' = [purchases EXCEPT ![i] = q]
        /\ q.status = "rejected" /\ q.approved_by = Nobody
        /\ q.total_amount = purchases[i].total_amount
        /\ q.submitted_by = purchases[i].submitted_by
  <2> DEFINE q == [purchases[i] EXCEPT !.status = "rejected", !.approved_by = Nobody]
  <2>1. purchases' = [purchases EXCEPT ![i] = q]
    BY <1>1 DEF RejectPurchase
  <2>2. /\ q.status = "rejected" /\ q.approved_by = Nobody
        /\ q.total_amount = purchases[i].total_amount
        /\ q.submitted_by = purchases[i].submitted_by
    BY <1>2 DEF PurchaseRow
  <2> HIDE DEF q
  <2> QED BY <2>1, <2>2
<1>4. /\ WithinIds' /\ i \in 1..MaxPurchases
      /\ PurchaseDocs[i] = RowDoc(purchases[i])
      /\ PurchaseDocs' = [PurchaseDocs EXCEPT ![i] = RowDoc(q)]
  BY <1>2, <1>3, PurchaseDecided
<1>5. RowDoc(purchases[i]) = [state |-> "submitted", amount |-> purchases[i].total_amount,
                              by |-> purchases[i].submitted_by,
                              decider |-> purchases[i].approved_by]
  BY <1>2 DEF RowDoc, ApprovalState
<1>6. RowDoc(q) = [state |-> "refused", amount |-> purchases[i].total_amount,
                   by |-> purchases[i].submitted_by, decider |-> Nobody]
  BY <1>3 DEF RowDoc, ApprovalState
<1>7. PurchaseApproval!Refuse(i)
  BY <1>4, <1>5, <1>6 DEF PurchaseApproval!Refuse, PurchaseApproval!Decided
<1>8. PurchaseApproval!ApprovalNext
  BY <1>4, <1>7 DEF PurchaseApproval!ApprovalNext
<1> QED BY <1>4, <1>8

\* The reversal of a purchase is no matter of its approval.
LEMMA PurchaseReversalApart ==
  ASSUME HaulageTypeOK, WithinIds, UNCHANGED trips, PurchaseUndone \/ PurchaseMarked
  PROVE  WithinIds' /\ UNCHANGED PurchaseDocs
<1>1. PICK i \in 1..Len(purchases), rev \in Workflow :
        UndoPurchase(i, rev) \/ MarkPurchase(i, rev)
  BY DEF PurchaseUndone, PurchaseMarked
<1>2. purchases \in Seq(PurchaseRow) /\ Len(purchases) \in Nat
  BY DEF HaulageTypeOK, TypeOK
<1>3. PICK q : purchases' = [purchases EXCEPT ![i] = q] /\ RowDoc(q) = RowDoc(purchases[i])
  <2> DEFINE q == [purchases[i] EXCEPT !.rev = rev]
  <2>1. purchases' = [purchases EXCEPT ![i] = q]
    BY <1>1 DEF UndoPurchase, MarkPurchase
  <2>2. purchases[i] \in PurchaseRow
    BY <1>2
  <2>3. /\ q.status = purchases[i].status /\ q.total_amount = purchases[i].total_amount
        /\ q.submitted_by = purchases[i].submitted_by
        /\ q.approved_by = purchases[i].approved_by
    BY <2>2 DEF PurchaseRow
  <2> HIDE DEF q
  <2>4. RowDoc(q) = RowDoc(purchases[i])
    BY <2>3 DEF RowDoc
  <2> QED BY <2>1, <2>4
<1>4. /\ Len(purchases') = Len(purchases)
      /\ \A k \in 1..Len(purchases) : RowDoc(purchases'[k]) = RowDoc(purchases[k])
  <2>1. ASSUME NEW k \in 1..Len(purchases) PROVE RowDoc(purchases'[k]) = RowDoc(purchases[k])
    <3>1. CASE k = i
      <4>1. purchases'[k] = q
        BY <1>2, <1>3, <3>1
      <4> QED BY <1>3, <3>1, <4>1
    <3>2. CASE k # i
      <4>1. purchases'[k] = purchases[k]
        BY <1>2, <1>3, <3>2
      <4> QED BY <4>1
    <3> QED BY <3>1, <3>2
  <2> QED BY <1>2, <1>3, <2>1
<1>5. ASSUME NEW p \in 1..MaxPurchases PROVE PurchaseDocs'[p] = PurchaseDocs[p]
  <2>1. MaxPurchases \in Nat /\ PostedBy(p)' = PostedBy(p)
    BY PurchasesAssumption DEF PostedBy
  <2>2. /\ HasDoc(p)' <=> HasDoc(p)
        /\ HasDoc(p) => RowDoc(purchases'[p]) = RowDoc(purchases[p])
    BY <1>2, <1>4, <2>1 DEF HasDoc
  <2>3. CASE HasDoc(p)
    BY <1>2, <1>4, <2>2, <2>3, DocsAre
  <2>4. CASE ~HasDoc(p)
    BY <1>2, <1>4, <2>2, <2>4, DocsAre
  <2> QED BY <2>3, <2>4
<1> QED BY <1>4, <1>5, DocsSame DEF WithinIds

\* No trip takes part in the approval: what it posts gets no document, and the purchases
\* of the others keep theirs.
LEMMA TripsWithinIds ==
  ASSUME HaulageTypeOK, WithinIds, TankerTripsNext
  PROVE  WithinIds'
<1>1. purchases \in Seq(PurchaseRow) /\ MaxPurchases \in Nat
  BY PurchasesAssumption DEF HaulageTypeOK, TypeOK
<1>2. CASE UNCHANGED purchases
  BY <1>2 DEF WithinIds
<1>3. ASSUME NEW u \in Users, NEW i \in 1..Len(trips), CompleteStationTrip(u, i)
      PROVE  WithinIds'
  <2>1. PICK row : purchases' = Append(purchases, row) /\ Len(purchases) < MaxPurchases
    BY <1>3 DEF CompleteStationTrip
  <2>2. Len(purchases') = Len(purchases) + 1 /\ Len(purchases) \in Nat
    BY <1>1, <2>1
  <2> QED BY <1>1, <2>1, <2>2 DEF WithinIds
<1> QED BY <1>2, <1>3, TripsCases DEF CompleteCustomerTrip, tripOnly

LEMMA TripsKeepDocs ==
  ASSUME HaulageTypeOK, PurchasesAccounted, WithinIds, TankerTripsNext
  PROVE  WithinIds' /\ UNCHANGED PurchaseDocs
<1>1. /\ trips \in Seq(TripRow) /\ Len(trips) \in Nat
      /\ purchases \in Seq(PurchaseRow) /\ Len(purchases) \in Nat /\ MaxPurchases \in Nat
  BY PurchasesAssumption DEF HaulageTypeOK, TypeOK
<1>2. CASE TripAdded
  <2>1. PICK row : trips' = Append(trips, row) /\ row.linked_purchase = 0 /\ UNCHANGED purchases
    BY <1>2 DEF TripAdded, tripOnly
  <2>2. /\ Len(trips') = Len(trips) + 1 /\ trips'[Len(trips) + 1] = row
        /\ \A k \in 1..Len(trips) : trips'[k] = trips[k]
    BY <1>1, <2>1
  <2>3. ASSUME NEW p \in 1..MaxPurchases PROVE PostedBy(p)' = PostedBy(p)
    BY <1>1, <2>1, <2>2 DEF PostedBy
  <2> QED BY <2>1, <2>3, PurchasesKeepDocs, TripsWithinIds
<1>3. ASSUME NEW i \in 1..Len(trips), TripFilled(i) \/ TripCharged(i)
      PROVE  UNCHANGED PurchaseDocs
  <2>1. PICK row : /\ trips' = [trips EXCEPT ![i] = row]
                   /\ row.linked_purchase = trips[i].linked_purchase
                   /\ UNCHANGED purchases
    BY <1>3 DEF TripFilled, TripCharged, tripOnly
  <2>2. /\ Len(trips') = Len(trips)
        /\ \A k \in 1..Len(trips) : trips'[k].linked_purchase = trips[k].linked_purchase
    <3>1. /\ Len(trips') = Len(trips) /\ trips'[i] = row
          /\ \A k \in 1..Len(trips) : k # i => trips'[k] = trips[k]
      BY <1>1, <2>1
    <3> QED BY <2>1, <3>1
  <2>3. ASSUME NEW p \in 1..MaxPurchases PROVE PostedBy(p)' = PostedBy(p)
    BY <2>2 DEF PostedBy
  <2> QED BY <2>1, <2>3, PurchasesKeepDocs
<1>4. ASSUME NEW i \in 1..Len(trips), TripUnloaded(i) PROVE UNCHANGED PurchaseDocs
  <2>1. PICK n : n = Len(purchases) + 1
    OBVIOUS
  <2>2. PICK row, q : /\ ~trips[i].completed
                      /\ trips' = [trips EXCEPT ![i] = row]
                      /\ row.linked_purchase = n
                      /\ purchases' = Append(purchases, q)
    BY <1>4, <2>1 DEF TripUnloaded
  <2>3. /\ Len(trips') = Len(trips) /\ trips'[i] = row
        /\ \A k \in 1..Len(trips) : k # i => trips'[k] = trips[k]
        /\ Len(purchases') = n /\ n \in Nat /\ n > Len(purchases)
        /\ \A k \in 1..Len(purchases) : purchases'[k] = purchases[k]
    BY <1>1, <2>1, <2>2
  <2>4. trips[i].linked_purchase = 0
    BY <2>2 DEF PurchasesAccounted, TripsLinked, Posted
  <2>5. i \in PostedBy(n)'
    BY <2>2, <2>3 DEF PostedBy
  <2>6. ASSUME NEW p \in 1..MaxPurchases, p # n PROVE PostedBy(p)' = PostedBy(p)
    BY <2>2, <2>3, <2>4, <2>6 DEF PostedBy
  <2>7. ASSUME NEW p \in 1..MaxPurchases PROVE PurchaseDocs'[p] = PurchaseDocs[p]
    <3>1. CASE p = n
      <4>1. ~HasDoc(p) /\ ~HasDoc(p)'
        BY <1>1, <2>3, <2>5, <3>1 DEF HasDoc
      <4> QED BY <1>1, <2>3, <4>1, DocsAre
    <3>2. CASE p # n
      <4>1. p <= Len(purchases) \/ p > n
        BY <1>1, <2>1, <3>2
      <4>2. /\ HasDoc(p)' <=> HasDoc(p)
            /\ HasDoc(p) => purchases'[p] = purchases[p]
        BY <1>1, <2>3, <2>6, <3>2, <4>1 DEF HasDoc
      <4>3. CASE HasDoc(p)
        BY <1>1, <2>3, <4>2, <4>3, DocsAre
      <4>4. CASE ~HasDoc(p)
        BY <1>1, <2>3, <4>2, <4>4, DocsAre
      <4> QED BY <4>3, <4>4
    <3> QED BY <3>1, <3>2
  <2> QED BY <2>7, DocsSame
<1> QED BY <1>2, <1>3, <1>4, TripsSteps, TripsWithinIds

\* Every step of the station is one of the approval, or no matter of it.
LEMMA StationApproves ==
  ASSUME HaulageTypeOK, PurchasesAccounted, WithinIds, [Next]_vars, UNCHANGED trips
  PROVE  WithinIds' /\ [PurchaseApproval!ApprovalNext]_PurchaseDocs
<1>1. CASE UNCHANGED purchases
  <2>1. \A p \in 1..MaxPurchases : PostedBy(p)' = PostedBy(p)
    BY DEF PostedBy
  <2> QED BY <1>1, <2>1, PurchasesKeepDocs DEF WithinIds
<1>2. CASE PurchasesNext
  <2>1. CASE TankDipped
    BY <1>1, <2>1 DEF TankDipped, CreateTankDip
  <2>2. CASE PurchaseUndone \/ PurchaseMarked
    BY <2>2, PurchaseReversalApart
  <2> QED BY <1>2, <2>1, <2>2, PurchasesCases, PurchaseEntered, PurchaseAccepted,
             PurchaseRefused DEF HaulageTypeOK
<1> QED BY <1>1, <1>2 DEF Next, vars, purchaseVars

\* For every station that hauls fuel: purchases and supplier payments follow the reversal
\* protocol, and the purchases that staff enter go through the approval that expenses go
\* through: one counts when an administrator, or a reviewer who did not submit it,
\* accepted it, and from then on neither its amount nor its approval changes, whatever
\* is decided again, reversed, or posted by trips (purchases.py:112-190).
THEOREM SupplySideKeepsItsProtocols == HaulageSpec => SupplySideFollowsProtocols
<1>1. HaulageInit => WithinIds /\ PurchaseApproval!ApprovalInit
  <2> SUFFICES ASSUME HaulageInit PROVE WithinIds /\ PurchaseApproval!ApprovalInit
    OBVIOUS
  <2>1. Len(purchases) = 0 /\ MaxPurchases \in Nat
    BY PurchasesAssumption DEF HaulageInit, Init, PurchasesInit
  <2>2. PurchaseDocs = [p \in 1..MaxPurchases |-> NoDoc]
    BY <2>1 DEF PurchaseDocs, NoDoc
  <2> QED BY <2>1, <2>2
      DEF WithinIds, NoDoc, PurchaseApproval!ApprovalInit, PurchaseApproval!Unused
<1>2. /\ HaulageTypeOK /\ PurchasesAccounted /\ WithinIds
      /\ [HaulageNext]_haulageVars
      => WithinIds' /\ [PurchaseApproval!ApprovalNext]_PurchaseDocs
  BY StationApproves, TripsKeepDocs DEF HaulageNext, haulageVars
<1> QED BY <1>1, <1>2, HaulageTypeCorrect, PurchasesAccountedAlways,
           HauledDocumentsFollowWorkflow, PTL
    DEF HaulageSpec, SupplySideFollowsProtocols, PurchaseApproval!ApprovalSpec

=============================================================================
