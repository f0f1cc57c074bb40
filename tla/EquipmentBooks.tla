--------------------------- MODULE EquipmentBooks ---------------------------
(***************************************************************************)
(* Fuel sales, purchases and dips while the equipment they move fuel       *)
(* through is edited, replaced and deleted, with the hardware attached to  *)
(* it. The modules of the station (StationBooks) have the whole of those   *)
(* documents over equipment that stays; here they are made and reversed by *)
(* an administrator, for whom no request is needed.                        *)
(***************************************************************************)
EXTENDS Hardware, Totals, TLC

CONSTANTS MaxSales, MaxPurchases, MaxRequests

ASSUME RequestsAssumption ==
  MaxSales \in Nat /\ MaxPurchases \in Nat /\ MaxRequests \in Nat

VARIABLE requests      \* how many have been made; a bound on the runs

equipmentVars == <<setupVars, documentVars, hardwareVars, requests>>

\* The tank of a nozzle, or NoId if the column names none that exists.
TankOf(n) == IF nozzles[n].tank_id \in DOMAIN tanks THEN nozzles[n].tank_id ELSE NoId

\* The tanks, with the volume of one of them changed, if it is one.
Pumped(t, quantity) ==
  IF t = NoId THEN tanks ELSE [tanks EXCEPT ![t].current_volume = @ + quantity]

Quantity(sale) == sale.closing_meter - sale.opening_meter

\* The sale is of the nozzle's fuel, at the station of its dispenser.
CreateFuelSale(n, closing) ==
  LET nozzle   == nozzles[n]
      t        == TankOf(n)
      quantity == closing - nozzle.meter_reading
  IN  /\ Len(fuel_sales) < MaxSales
      /\ nozzle.fuel_type_id \in fuel_types
      /\ t # NoId => tanks[t].fuel_type_id = nozzle.fuel_type_id
      /\ quantity >= 0
      /\ t # NoId => quantity <= tanks[t].current_volume
      /\ fuel_sales' = Append(fuel_sales,
           [nozzle_id |-> n, fuel_type_id |-> nozzle.fuel_type_id,
            opening_meter |-> nozzle.meter_reading, closing_meter |-> closing,
            is_reversed |-> FALSE, drawn_from |-> t, returned_to |-> NoId,
            repointed |-> FALSE])
      /\ nozzles' = [nozzles EXCEPT ![n].meter_reading = closing]
      /\ tanks' = Pumped(t, -quantity)
      /\ UNCHANGED <<fuel_types, dispensers, purchases, tank_dips, hardwareVars>>

\* Slip: a reversed sale may be reversed again.
StandingSlip(sale) == TRUE
Standing(sale) == ~sale.is_reversed

\* The fuel goes to the tank that the nozzle, or the one with its id, has by now.
ReverseFuelSale(i) ==
  LET sale == fuel_sales[i]
      n    == sale.nozzle_id
      t    == TankOf(n)
  IN  /\ Standing(sale)
      /\ n \in DOMAIN nozzles
      /\ nozzles[n].meter_reading = sale.closing_meter
      /\ t # NoId => tanks[t].current_volume + Quantity(sale) <= tanks[t].capacity
      /\ nozzles' = [nozzles EXCEPT ![n].meter_reading = sale.opening_meter]
      /\ tanks' = Pumped(t, Quantity(sale))
      /\ fuel_sales' = [fuel_sales EXCEPT ![i].is_reversed = TRUE, ![i].returned_to = t]
      /\ UNCHANGED <<fuel_types, dispensers, purchases, tank_dips, hardwareVars>>

\* A purchase is of one unit of the tank's fuel.
CreatePurchase(t) ==
  /\ Len(purchases) < MaxPurchases
  /\ tanks[t].current_volume + 1 <= tanks[t].capacity
  /\ purchases' = Append(purchases,
       [tank_id |-> t, fuel_type_id |-> tanks[t].fuel_type_id, is_reversed |-> FALSE])
  /\ tanks' = Pumped(t, 1)
  /\ UNCHANGED <<fuel_types, dispensers, nozzles, fuel_sales, tank_dips, hardwareVars>>

ReversePurchase(i) ==
  LET t == purchases[i].tank_id IN
  /\ ~purchases[i].is_reversed
  /\ t \in DOMAIN tanks
  /\ tanks[t].current_volume >= 1
  /\ tanks' = Pumped(t, -1)
  /\ purchases' = [purchases EXCEPT ![i].is_reversed = TRUE]
  /\ UNCHANGED <<fuel_types, dispensers, nozzles, fuel_sales, tank_dips, hardwareVars>>

CreateTankDip(t, volume) ==
  /\ tanks' = [tanks EXCEPT ![t] = SetVolume(tanks[t], volume)]
  /\ tank_dips' = tank_dips \cup {t}
  /\ UNCHANGED <<fuel_types, dispensers, nozzles, fuel_sales, purchases, hardwareVars>>

DocumentsNext ==
  \/ \E n \in DOMAIN nozzles, closing \in Meters : CreateFuelSale(n, closing)
  \/ \E i \in 1..Len(fuel_sales) : ReverseFuelSale(i)
  \/ \E t \in DOMAIN tanks : CreatePurchase(t)
  \/ \E i \in 1..Len(purchases) : ReversePurchase(i)
  \/ \E t \in DOMAIN tanks, volume \in Volumes : CreateTankDip(t, volume)

-----------------------------------------------------------------------------
\* Equipment as it has just been created: a tank, and a dispenser with a nozzle, all of
\* the first fuel.
EquipmentInit ==
  /\ fuel_types = FuelTypeIds
  /\ \E s \in Stations, capacity \in Capacities, volume \in Volumes :
       /\ tanks = [t \in {1} |->
            [station_id |-> s, fuel_type_id |-> 1, capacity |-> capacity,
             current_volume |-> volume, entered |-> volume]]
       /\ dispensers = [d \in {1} |-> s]
  /\ nozzles = [n \in {1} |->
       [dispenser_id |-> 1, tank_id |-> 1, fuel_type_id |-> 1, meter_reading |-> 0,
        edited |-> FALSE]]
  /\ fuel_sales = <<>> /\ purchases = <<>> /\ tank_dips = {}
  /\ devices = <<>> /\ events = <<>>
  /\ requests = 0

EquipmentBooksNext ==
  /\ requests < MaxRequests
  /\ requests' = requests + 1
  /\ \/ EquipmentNext /\ UNCHANGED hardwareVars
     \/ DocumentsNext
     \/ HardwareNext

EquipmentSpec == EquipmentInit /\ [][EquipmentBooksNext]_equipmentVars

\* Nothing tells the stations apart.
StationSymmetry == Permutations(Stations)

-----------------------------------------------------------------------------
EquipmentTypeOK ==
  /\ fuel_types \subseteq FuelTypeIds
  /\ DOMAIN tanks \subseteq TankIds /\ \A t \in DOMAIN tanks : tanks[t] \in Tank
  /\ DOMAIN dispensers \subseteq DispenserIds
  /\ \A d \in DOMAIN dispensers : dispensers[d] \in Stations
  /\ DOMAIN nozzles \subseteq NozzleIds
  /\ \A n \in DOMAIN nozzles : nozzles[n] \in Nozzle
  /\ \A i \in 1..Len(fuel_sales) : fuel_sales[i] \in FuelSale
  /\ \A i \in 1..Len(purchases) : purchases[i] \in Purchase
  /\ DOMAIN devices \subseteq DeviceIds
  /\ \A d \in DOMAIN devices : devices[d] \in Device

\* The columns hold what they may hold, and although no foreign key is enforced, what
\* the deleting handlers look for keeps the rows that others name: a tank its fuel, a
\* nozzle its dispenser, a purchase or dip its tank and fuel, an event its device
\* (tank.py:121-125, fuel_type.py:88-92, hardware.py:139), and a nozzle its tank and
\* fuel until update_nozzle stores others, unchecked (nozzle.py:116). What a sale was
\* drawn from is a tank of its fuel.
ReferencesHold ==
  /\ EquipmentTypeOK
  /\ \A t \in DOMAIN tanks : tanks[t].fuel_type_id \in fuel_types
  /\ \A n \in DOMAIN nozzles :
       /\ nozzles[n].dispenser_id \in DOMAIN dispensers
       /\ nozzles[n].edited \/ nozzles[n].tank_id \in DOMAIN tanks
       /\ nozzles[n].edited \/ nozzles[n].fuel_type_id \in fuel_types
  /\ \A i \in 1..Len(purchases) :
       /\ purchases[i].tank_id \in DOMAIN tanks
       /\ tanks[purchases[i].tank_id].fuel_type_id = purchases[i].fuel_type_id
  /\ tank_dips \subseteq DOMAIN tanks
  /\ \A i \in 1..Len(events) : events[i].device_id \in DOMAIN devices
  /\ \A i \in 1..Len(fuel_sales) :
       fuel_sales[i].drawn_from # NoId =>
         tanks[fuel_sales[i].drawn_from].fuel_type_id = fuel_sales[i].fuel_type_id

Drawn(t) ==
  Total([i \in 1..Len(fuel_sales) |->
           IF fuel_sales[i].drawn_from = t THEN Quantity(fuel_sales[i]) ELSE 0])

Returned(t) ==
  Total([i \in 1..Len(fuel_sales) |->
           IF fuel_sales[i].returned_to = t THEN Quantity(fuel_sales[i]) ELSE 0])

Bought(t) ==
  Total([i \in 1..Len(purchases) |->
           IF purchases[i].tank_id = t /\ ~purchases[i].is_reversed THEN 1 ELSE 0])

\* A tank holds what was entered for it and bought, less what was drawn and not
\* returned, whatever becomes of nozzles, dispensers and other tanks meanwhile, and
\* what a reversal returns goes where the sale was drawn from - unless the nozzle
\* was re-pointed or deleted after the sale, or had no tank then: the reversal takes
\* the tank that the nozzle of that id has by now (fuel_sales.py:158, :176), even one
\* of another fuel.
TankStockExplained ==
  /\ \A t \in DOMAIN tanks :
       tanks[t].current_volume = tanks[t].entered + Bought(t) - (Drawn(t) - Returned(t))
  /\ \A i \in 1..Len(fuel_sales) :
       LET sale == fuel_sales[i] IN
       sale.returned_to \in {NoId, sale.drawn_from} \/ sale.drawn_from = NoId \/ sale.repointed

\* A device in the mode vendor_api can be polled: its adapter supports it, measures what
\* a device of its type reports, and it is linked to that kind of equipment - also
\* after partial updates of mode, vendor, identifier and links, which are each checked
\* together with the columns that stay (hardware.py:161-182).
DevicesPollable ==
  \A d \in DOMAIN devices :
    devices[d].integration_mode = "vendor_api" =>
      /\ Answers(devices[d])
      /\ devices[d].device_type = "dispenser"  <=> devices[d].dispenser_id # NoId
      /\ devices[d].device_type = "tank_probe" <=> devices[d].tank_id # NoId

=============================================================================
