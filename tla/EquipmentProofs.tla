--------------------------- MODULE EquipmentProofs --------------------------
(***************************************************************************)
(* Proofs about EquipmentBooks for any number of tanks, dispensers,        *)
(* nozzles and devices: rows that others name are kept, what a tank holds  *)
(* is explained by what was entered and by the documents, and a device     *)
(* that may be polled can be.                                              *)
(***************************************************************************)
EXTENDS EquipmentBooks, TotalsProofs

-----------------------------------------------------------------------------
(* The tables, and what holds between them.  Together they are inductive. *)

\* Every table is one of rows, under ids that are in use.
TablesTyped ==
  /\ fuel_types \subseteq FuelTypeIds
  /\ DOMAIN tanks \subseteq TankIds /\ tanks \in [DOMAIN tanks -> Tank]
  /\ DOMAIN dispensers \subseteq DispenserIds /\ dispensers \in [DOMAIN dispensers -> Stations]
  /\ DOMAIN nozzles \subseteq NozzleIds /\ nozzles \in [DOMAIN nozzles -> Nozzle]
  /\ fuel_sales \in Seq(FuelSale) /\ purchases \in Seq(Purchase)
  /\ DOMAIN devices \subseteq DeviceIds /\ devices \in [DOMAIN devices -> Device]
  /\ events \in Seq([device_id : DeviceIds, nozzle_id : NozzleIds \cup {NoId},
                     dispenser_id : DispenserIds \cup {NoId}, tank_id : TankIds \cup {NoId}])

\* The equipment: a tank names a fuel that exists, a nozzle a dispenser, and a tank and a
\* fuel unless it was edited.
TanksFueled == \A t \in DOMAIN tanks : tanks[t].fuel_type_id \in fuel_types
NozzlesPlaced ==
  \A n \in DOMAIN nozzles :
    /\ nozzles[n].dispenser_id \in DOMAIN dispensers
    /\ nozzles[n].edited \/ nozzles[n].tank_id \in DOMAIN tanks
    /\ nozzles[n].edited \/ nozzles[n].fuel_type_id \in fuel_types

\* The documents: what a purchase or dip names is there, and so is what a sale was drawn
\* from or returned to, until the tank is deleted and forgotten.
PurchasesPlaced ==
  \A i \in 1..Len(purchases) :
    /\ purchases[i].tank_id \in DOMAIN tanks
    /\ tanks[purchases[i].tank_id].fuel_type_id = purchases[i].fuel_type_id
DipsPlaced == tank_dips \subseteq DOMAIN tanks

DrawnFrom(sale) ==
  sale.drawn_from # NoId =>
    /\ sale.drawn_from \in DOMAIN tanks
    /\ tanks[sale.drawn_from].fuel_type_id = sale.fuel_type_id
ReturnedTo(sale) ==
  /\ sale.returned_to # NoId => sale.returned_to \in DOMAIN tanks
  /\ ~sale.is_reversed => sale.returned_to = NoId
  /\ sale.returned_to \in {NoId, sale.drawn_from} \/ sale.drawn_from = NoId \/ sale.repointed

\* A sale whose nozzle was left as it was: the nozzle is there, with the tank of the sale.
StillConnected(sale) ==
  sale.drawn_from # NoId /\ ~sale.repointed =>
    /\ sale.nozzle_id \in DOMAIN nozzles
    /\ nozzles[sale.nozzle_id].tank_id = sale.drawn_from

SalesPlaced ==
  \A i \in 1..Len(fuel_sales) :
    DrawnFrom(fuel_sales[i]) /\ ReturnedTo(fuel_sales[i]) /\ StillConnected(fuel_sales[i])

Placed ==
  TablesTyped /\ TanksFueled /\ NozzlesPlaced /\ PurchasesPlaced /\ DipsPlaced /\ SalesPlaced

EventsPlaced == \A i \in 1..Len(events) : events[i].device_id \in DOMAIN devices

-----------------------------------------------------------------------------
(* Tables. *)

\* The largest of some ids is one of them.
LEMMA MaxIsOne ==
  ASSUME NEW N \in Nat, NEW T \in SUBSET (1..N), T # {}
  PROVE  Max(T) \in T /\ \A x \in T : x <= Max(T)
<1> DEFINE U == {N - x : x \in T}
<1>0. \A x \in T : x \in Int /\ N - x \in Nat
  OBVIOUS
<1>1. U \in SUBSET Nat /\ U # {}
  BY <1>0
<1>2. PICK y \in U : \A z \in U : y <= z
  BY <1>1, LeastElement
<1>3. PICK m \in T : y = N - m
  BY <1>2
<1>4. \A x \in T : N - m <= N - x
  BY <1>2, <1>3
<1>5. \A x \in T : m >= x
  BY <1>0, <1>4
<1>6. Max(T) \in T /\ \A x \in T : Max(T) >= x
  BY <1>5 DEF Max
<1> QED BY <1>6

\* The id of a new row is one that no row has.
LEMMA NextIdIsNew ==
  ASSUME NEW N \in Nat, NEW table, DOMAIN table \subseteq 1..N
  PROVE  NextId(table) \in Nat \ {0} /\ NextId(table) \notin DOMAIN table
<1>1. CASE DOMAIN table = {}
  BY <1>1 DEF NextId
<1>2. CASE DOMAIN table # {}
  <2>1. PICK T \in SUBSET (1..N) : T = DOMAIN table
    OBVIOUS
  <2>2. Max(T) \in T /\ \A x \in T : x <= Max(T)
    BY <1>2, <2>1, MaxIsOne
  <2>3. NextId(table) = Max(T) + 1
    BY <1>2, <2>1 DEF NextId
  <2>4. Max(T) \in 1..N /\ Max(T) + 1 \notin T
    <3> DEFINE m == Max(T)
    <3>1. m \in T /\ \A x \in T : x <= m
      BY <2>2
    <3> HIDE DEF m
    <3>2. m \in 1..N /\ m + 1 \notin T
      BY <3>1
    <3> QED BY <3>2 DEF m
  <2> QED BY <2>1, <2>3, <2>4
<1> QED BY <1>1, <1>2

\* Writing a row leaves the other rows alone.
LEMMA WrittenRow ==
  ASSUME NEW R, NEW table, table \in [DOMAIN table -> R], NEW id \in DOMAIN table,
         NEW row \in R, NEW other, other = [table EXCEPT ![id] = row]
  PROVE  /\ other \in [DOMAIN other -> R] /\ DOMAIN other = DOMAIN table
         /\ other[id] = row /\ \A i \in DOMAIN table : i # id => other[i] = table[i]
OBVIOUS

-----------------------------------------------------------------------------
(* Operations that leave everything in its place. *)

\* What a nozzle is connected to.
SameConnections(n, m) ==
  /\ n.dispenser_id = m.dispenser_id /\ n.tank_id = m.tank_id
  /\ n.fuel_type_id = m.fuel_type_id /\ n.edited = m.edited

\* All equipment is still there, and connected as it was.
EquipmentKept ==
  /\ fuel_types \subseteq fuel_types'
  /\ DOMAIN tanks \subseteq DOMAIN tanks'
  /\ \A t \in DOMAIN tanks : tanks'[t].fuel_type_id = tanks[t].fuel_type_id
  /\ DOMAIN dispensers \subseteq DOMAIN dispensers'
  /\ DOMAIN nozzles \subseteq DOMAIN nozzles'
  /\ \A n \in DOMAIN nozzles : SameConnections(nozzles'[n], nozzles[n])

\* What the documents name is still there.
LEMMA KeptForDocuments ==
  ASSUME Placed, EquipmentKept
  PROVE  /\ purchases' = purchases => PurchasesPlaced'
         /\ tank_dips' = tank_dips => DipsPlaced'
         /\ fuel_sales' = fuel_sales => SalesPlaced'
<1>1. ASSUME purchases' = purchases PROVE PurchasesPlaced'
  BY <1>1 DEF Placed, PurchasesPlaced, EquipmentKept
<1>2. ASSUME tank_dips' = tank_dips PROVE DipsPlaced'
  BY <1>2 DEF Placed, DipsPlaced, EquipmentKept
<1>3. ASSUME NEW sale, DrawnFrom(sale), ReturnedTo(sale), StillConnected(sale)
      PROVE  DrawnFrom(sale)' /\ ReturnedTo(sale)' /\ StillConnected(sale)'
  BY <1>3 DEF DrawnFrom, ReturnedTo, StillConnected, EquipmentKept, SameConnections
<1>4. ASSUME fuel_sales' = fuel_sales PROVE SalesPlaced'
  BY <1>3, <1>4 DEF Placed, SalesPlaced
<1> QED BY <1>1, <1>2, <1>4

\* Tanks of fuels that exist and nozzles in their place stay so.
LEMMA KeptForEquipment ==
  ASSUME Placed, EquipmentKept
  PROVE  /\ DOMAIN tanks' = DOMAIN tanks => TanksFueled'
         /\ DOMAIN nozzles' = DOMAIN nozzles => NozzlesPlaced'
<1>1. ASSUME DOMAIN tanks' = DOMAIN tanks PROVE TanksFueled'
  BY <1>1 DEF Placed, TanksFueled, EquipmentKept
<1>2. ASSUME DOMAIN nozzles' = DOMAIN nozzles PROVE NozzlesPlaced'
  BY <1>2 DEF Placed, NozzlesPlaced, EquipmentKept, SameConnections
<1> QED BY <1>1, <1>2

\* A sale that is in its place stays there.
LEMMA SaleKept ==
  ASSUME EquipmentKept, NEW sale, DrawnFrom(sale), ReturnedTo(sale), StillConnected(sale)
  PROVE  DrawnFrom(sale)' /\ ReturnedTo(sale)' /\ StillConnected(sale)'
BY DEF DrawnFrom, ReturnedTo, StillConnected, EquipmentKept, SameConnections

\* Rows numbered from one are a table.
LEMMA RowsAreSeq ==
  ASSUME NEW R, NEW n \in Nat, NEW f \in [1..n -> R]
  PROVE  f \in Seq(R) /\ Len(f) = n
OBVIOUS

-----------------------------------------------------------------------------
(* Operations on the equipment. *)

LEMMA FuelTypesPlaced ==
  ASSUME Placed, UNCHANGED hardwareVars,
         CreateFuelType \/ \E f \in fuel_types : DeleteFuelType(f)
  PROVE  Placed'
<1> USE DEF documentVars, hardwareVars
<1>1. CASE CreateFuelType
  <2>1. EquipmentKept
    BY <1>1 DEF CreateFuelType, EquipmentKept, SameConnections
  <2>2. UNCHANGED <<purchases, tank_dips, fuel_sales, tanks, nozzles>>
    BY <1>1 DEF CreateFuelType
  <2>3. TablesTyped'
    BY <1>1 DEF CreateFuelType, Placed, TablesTyped
  <2> QED BY <2>1, <2>2, <2>3, KeptForDocuments, KeptForEquipment DEF Placed
<1>2. ASSUME NEW f \in fuel_types, DeleteFuelType(f) PROVE Placed'
  <2>1. /\ UNCHANGED <<tanks, dispensers, nozzles, documentVars>>
        /\ fuel_types' = fuel_types \ {f}
        /\ \A t \in DOMAIN tanks : tanks[t].fuel_type_id # f
        /\ \A n \in DOMAIN nozzles : nozzles[n].fuel_type_id # f
    BY <1>2 DEF DeleteFuelType, FuelInUse
  <2>2. TablesTyped' /\ TanksFueled' /\ NozzlesPlaced'
    BY <2>1 DEF Placed, TablesTyped, TanksFueled, NozzlesPlaced
  <2>3. PurchasesPlaced' /\ DipsPlaced' /\ SalesPlaced'
    BY <2>1 DEF Placed, PurchasesPlaced, DipsPlaced, SalesPlaced, DrawnFrom, ReturnedTo,
                StillConnected
  <2> QED BY <2>2, <2>3 DEF Placed
<1> QED BY <1>1, <1>2

\* A tank's volume is set, or pumped, and the tank stays the tank of its fuel.
LEMMA VolumeSet ==
  ASSUME NEW tank \in Tank, NEW volume \in Nat, NEW capacity \in Nat
  PROVE  /\ SetVolume(tank, volume) \in Tank
         /\ SetVolume(tank, volume).fuel_type_id = tank.fuel_type_id
         /\ SetVolume(tank, volume).current_volume - SetVolume(tank, volume).entered
              = tank.current_volume - tank.entered
         /\ [SetVolume(tank, volume) EXCEPT !.capacity = capacity] \in Tank
         /\ [SetVolume(tank, volume) EXCEPT !.capacity = capacity].fuel_type_id
              = tank.fuel_type_id
         /\ [SetVolume(tank, volume) EXCEPT !.capacity = capacity].current_volume
              - [SetVolume(tank, volume) EXCEPT !.capacity = capacity].entered
              = tank.current_volume - tank.entered
<1>1. PICK now : now = tank.entered + (volume - tank.current_volume)
  OBVIOUS
<1>2. tank.entered \in Int /\ tank.current_volume \in Int
  BY DEF Tank
<1>3. now \in Int /\ volume - now = tank.current_volume - tank.entered
  BY <1>1, <1>2
<1>4. PICK set : set = SetVolume(tank, volume)
  OBVIOUS
<1>5. set = [tank EXCEPT !.current_volume = volume, !.entered = now]
  BY <1>1, <1>4 DEF SetVolume
<1>6. /\ set \in Tank /\ set.fuel_type_id = tank.fuel_type_id
      /\ set.current_volume = volume /\ set.entered = now
  <2>1. volume \in Int
    OBVIOUS
  <2> QED BY <1>3, <1>5, <2>1 DEF Tank
<1>7. PICK resized : resized = [set EXCEPT !.capacity = capacity]
  OBVIOUS
<1>8. /\ resized \in Tank /\ resized.fuel_type_id = tank.fuel_type_id
      /\ resized.current_volume = volume /\ resized.entered = now
  BY <1>6, <1>7 DEF Tank
<1> QED BY <1>3, <1>4, <1>6, <1>7, <1>8

LEMMA CreateTankPlaced ==
  ASSUME Placed, UNCHANGED hardwareVars, NEW s \in Stations, NEW f \in fuel_types,
         NEW capacity \in Capacities, NEW volume \in Volumes, CreateTank(s, f, capacity, volume)
  PROVE  Placed'
<1> USE DEF documentVars, hardwareVars
<1>1. PICK t : t = NextId(tanks)
  OBVIOUS
<1>2. PICK row : row = [station_id |-> s, fuel_type_id |-> f, capacity |-> capacity,
                        current_volume |-> volume, entered |-> volume]
  OBVIOUS
<1>3. /\ t \in TankIds /\ tanks' = Added(tanks, t, row)
      /\ UNCHANGED <<fuel_types, dispensers, nozzles, documentVars>>
  BY <1>1, <1>2 DEF CreateTank
<1>4. t \notin DOMAIN tanks
  BY <1>1, NextIdIsNew, EquipmentAssumption DEF Placed, TablesTyped, TankIds
<1>5. row \in Tank /\ row.fuel_type_id = f
  BY <1>2, EquipmentAssumption DEF Tank, Placed, TablesTyped
<1>6. /\ tanks' \in [DOMAIN tanks' -> Tank] /\ DOMAIN tanks' = DOMAIN tanks \cup {t}
      /\ tanks'[t] = row /\ \A r \in DOMAIN tanks : tanks'[r] = tanks[r]
  <2>1. tanks \in [DOMAIN tanks -> Tank]
    BY DEF Placed, TablesTyped
  <2> QED BY <1>3, <1>4, <1>5, <2>1 DEF Added
<1>7. EquipmentKept
  BY <1>3, <1>6 DEF EquipmentKept, SameConnections
<1>8. TablesTyped'
  BY <1>3, <1>6 DEF Placed, TablesTyped
<1>9. TanksFueled'
  BY <1>3, <1>5, <1>6 DEF Placed, TanksFueled
<1> QED BY <1>3, <1>7, <1>8, <1>9, KeptForDocuments, KeptForEquipment DEF Placed

\* A tank is written over, and stays the tank of its fuel.
LEMMA TankWritten ==
  ASSUME Placed, NEW t \in DOMAIN tanks, NEW row \in Tank,
         row.fuel_type_id = tanks[t].fuel_type_id, tanks' = [tanks EXCEPT ![t] = row],
         UNCHANGED <<fuel_types, dispensers, nozzles, hardwareVars>>
  PROVE  /\ EquipmentKept /\ TanksFueled' /\ NozzlesPlaced'
         /\ fuel_sales' \in Seq(FuelSale) /\ purchases' \in Seq(Purchase) => TablesTyped'
         /\ DOMAIN tanks' = DOMAIN tanks
<1> USE DEF hardwareVars
<1>1. /\ tanks' \in [DOMAIN tanks' -> Tank] /\ DOMAIN tanks' = DOMAIN tanks
      /\ tanks'[t] = row /\ \A r \in DOMAIN tanks : r # t => tanks'[r] = tanks[r]
  BY WrittenRow DEF Placed, TablesTyped
<1>2. EquipmentKept
  BY <1>1 DEF EquipmentKept, SameConnections
<1>3. fuel_sales' \in Seq(FuelSale) /\ purchases' \in Seq(Purchase) => TablesTyped'
  BY <1>1 DEF Placed, TablesTyped
<1> QED BY <1>1, <1>2, <1>3, KeptForEquipment

LEMMA UpdateTankPlaced ==
  ASSUME Placed, UNCHANGED hardwareVars, NEW t \in DOMAIN tanks, NEW capacity \in Capacities,
         NEW volume \in Volumes, UpdateTank(t, capacity, volume)
  PROVE  Placed'
<1>1. PICK row : row = [SetVolume(tanks[t], volume) EXCEPT !.capacity = capacity]
  OBVIOUS
<1>2. tanks[t] \in Tank /\ volume \in Nat /\ capacity \in Nat
  BY EquipmentAssumption DEF Placed, TablesTyped
<1>3. row \in Tank /\ row.fuel_type_id = tanks[t].fuel_type_id
  BY <1>1, <1>2, VolumeSet
<1>4. /\ tanks' = [tanks EXCEPT ![t] = row]
      /\ UNCHANGED <<fuel_types, dispensers, nozzles, documentVars>>
  BY <1>1 DEF UpdateTank
<1>5. /\ EquipmentKept /\ TanksFueled' /\ NozzlesPlaced'
      /\ fuel_sales' \in Seq(FuelSale) /\ purchases' \in Seq(Purchase) => TablesTyped'
  BY <1>3, <1>4, TankWritten
<1> QED BY <1>4, <1>5, KeptForDocuments DEF Placed, TablesTyped, documentVars

\* A sale that forgets a tank.
Forgetting(sale, t) ==
  [sale EXCEPT !.drawn_from  = IF sale.drawn_from = t THEN NoId ELSE sale.drawn_from,
               !.returned_to = IF sale.returned_to = t THEN NoId ELSE sale.returned_to]

LEMMA Forgotten ==
  ASSUME NEW rows \in Seq(FuelSale), NEW t, NEW other,
         other = [i \in 1..Len(rows) |-> Forgetting(rows[i], t)]
  PROVE  /\ other \in Seq(FuelSale) /\ Len(other) = Len(rows)
         /\ \A i \in 1..Len(rows) : other[i] = Forgetting(rows[i], t)
<1>1. ASSUME NEW sale \in FuelSale PROVE Forgetting(sale, t) \in FuelSale
  BY DEF Forgetting, FuelSale, NoId
<1>2. PICK n \in Nat : n = Len(rows)
  OBVIOUS
<1>3. \A i \in 1..n : rows[i] \in FuelSale
  BY <1>2
<1>4. other \in [1..n -> FuelSale]
  BY <1>1, <1>2, <1>3
<1> QED BY <1>2, <1>4, RowsAreSeq

\* A tank that is deleted is named by nothing but sales, which forget it.
LEMMA DeleteTankPlaced ==
  ASSUME Placed, UNCHANGED hardwareVars, NEW t \in DOMAIN tanks, DeleteTank(t)
  PROVE  Placed'
<1> USE DEF hardwareVars
<1>1. /\ \A n \in DOMAIN nozzles : nozzles[n].tank_id # t
      /\ \A i \in 1..Len(purchases) : purchases[i].tank_id # t
      /\ t \notin tank_dips
      /\ tanks' = Removed(tanks, t)
      /\ UNCHANGED <<fuel_types, dispensers, nozzles, purchases, tank_dips>>
  BY DEF DeleteTank, TankInUse, PurchasesInto
<1>2. fuel_sales' = [i \in 1..Len(fuel_sales) |-> Forgetting(fuel_sales[i], t)]
  BY DEF DeleteTank, Forgetting
<1>3. /\ tanks' \in [DOMAIN tanks' -> Tank] /\ DOMAIN tanks' = DOMAIN tanks \ {t}
      /\ \A r \in DOMAIN tanks \ {t} : tanks'[r] = tanks[r]
  <2>1. tanks \in [DOMAIN tanks -> Tank]
    BY DEF Placed, TablesTyped
  <2> QED BY <1>1, <2>1 DEF Removed
<1>4. /\ fuel_sales' \in Seq(FuelSale) /\ Len(fuel_sales') = Len(fuel_sales)
      /\ \A i \in 1..Len(fuel_sales) : fuel_sales'[i] = Forgetting(fuel_sales[i], t)
  <2>1. fuel_sales \in Seq(FuelSale)
    BY DEF Placed, TablesTyped
  <2> QED BY <1>2, <2>1, Forgotten, ZenonT(40)
<1>5. TablesTyped' /\ TanksFueled' /\ NozzlesPlaced' /\ PurchasesPlaced' /\ DipsPlaced'
  <2>1. TablesTyped'
    BY <1>1, <1>3, <1>4 DEF Placed, TablesTyped
  <2>2. TanksFueled' /\ NozzlesPlaced'
    BY <1>1, <1>3 DEF Placed, TanksFueled, NozzlesPlaced
  <2>3. PurchasesPlaced' /\ DipsPlaced'
    BY <1>1, <1>3 DEF Placed, PurchasesPlaced, DipsPlaced
  <2> QED BY <2>1, <2>2, <2>3
<1>6. ASSUME NEW i \in 1..Len(fuel_sales)
      PROVE  DrawnFrom(fuel_sales[i])' /\ ReturnedTo(fuel_sales[i])'
               /\ StillConnected(fuel_sales[i])'
  <2>1. PICK sale \in FuelSale : sale = fuel_sales[i]
    BY DEF Placed, TablesTyped
  <2>2. PICK row : row = Forgetting(sale, t)
    OBVIOUS
  <2>3. DrawnFrom(sale) /\ ReturnedTo(sale) /\ StillConnected(sale)
    BY <2>1 DEF Placed, SalesPlaced
  <2>4. /\ row.drawn_from = IF sale.drawn_from = t THEN NoId ELSE sale.drawn_from
        /\ row.returned_to = IF sale.returned_to = t THEN NoId ELSE sale.returned_to
        /\ row.nozzle_id = sale.nozzle_id /\ row.fuel_type_id = sale.fuel_type_id
        /\ row.is_reversed = sale.is_reversed /\ row.repointed = sale.repointed
    BY <2>2 DEF Forgetting, FuelSale
  <2>5. DrawnFrom(row)'
    BY <1>3, <2>3, <2>4 DEF DrawnFrom
  <2>6. ReturnedTo(row)'
    BY <1>3, <2>3, <2>4 DEF ReturnedTo
  <2>7. StillConnected(row)'
    BY <1>1, <2>3, <2>4 DEF StillConnected
  <2> QED BY <1>4, <2>1, <2>2, <2>5, <2>6, <2>7
<1>7. SalesPlaced'
  BY <1>4, <1>6 DEF SalesPlaced
<1> QED BY <1>5, <1>7 DEF Placed

LEMMA DispensersPlaced ==
  ASSUME Placed, UNCHANGED hardwareVars,
         \/ \E s \in Stations : CreateDispenser(s)
         \/ \E d \in DOMAIN dispensers : DeleteDispenser(d)
  PROVE  Placed'
<1> USE DEF documentVars, hardwareVars
<1>0. dispensers \in [DOMAIN dispensers -> Stations] /\ DOMAIN dispensers \subseteq DispenserIds
  BY DEF Placed, TablesTyped
<1>1. ASSUME NEW s \in Stations, CreateDispenser(s) PROVE Placed'
  <2>1. PICK d : d = NextId(dispensers)
    OBVIOUS
  <2>2. /\ d \in DispenserIds /\ dispensers' = Added(dispensers, d, s)
        /\ UNCHANGED <<fuel_types, tanks, nozzles, documentVars>>
    BY <1>1, <2>1 DEF CreateDispenser
  <2>3. d \notin DOMAIN dispensers
    BY <1>0, <2>1, NextIdIsNew, EquipmentAssumption DEF DispenserIds
  <2>4. /\ dispensers' \in [DOMAIN dispensers' -> Stations]
        /\ DOMAIN dispensers' = DOMAIN dispensers \cup {d}
    BY <1>0, <2>2, <2>3 DEF Added
  <2>5. EquipmentKept
    BY <2>2, <2>4 DEF EquipmentKept, SameConnections
  <2>6. TablesTyped'
    BY <1>0, <2>2, <2>4 DEF Placed, TablesTyped
  <2> QED BY <2>2, <2>5, <2>6, KeptForDocuments, KeptForEquipment DEF Placed
<1>2. ASSUME NEW d \in DOMAIN dispensers, DeleteDispenser(d) PROVE Placed'
  <2>1. /\ \A n \in DOMAIN nozzles : nozzles[n].dispenser_id # d
        /\ dispensers' = Removed(dispensers, d)
        /\ UNCHANGED <<fuel_types, tanks, nozzles, documentVars>>
    BY <1>2 DEF DeleteDispenser
  <2>2. /\ dispensers' \in [DOMAIN dispensers' -> Stations]
        /\ DOMAIN dispensers' = DOMAIN dispensers \ {d}
    BY <1>0, <2>1 DEF Removed
  <2>3. TablesTyped'
    BY <1>0, <2>1, <2>2 DEF Placed, TablesTyped
  <2>4. TanksFueled' /\ NozzlesPlaced'
    BY <2>1, <2>2 DEF Placed, TanksFueled, NozzlesPlaced
  <2>5. PurchasesPlaced' /\ DipsPlaced' /\ SalesPlaced'
    BY <2>1 DEF Placed, PurchasesPlaced, DipsPlaced, SalesPlaced, DrawnFrom, ReturnedTo,
                StillConnected
  <2> QED BY <2>3, <2>4, <2>5 DEF Placed
<1> QED BY <1>1, <1>2

LEMMA CreateNozzlePlaced ==
  ASSUME Placed, UNCHANGED hardwareVars, NEW d \in DOMAIN dispensers, NEW t \in DOMAIN tanks,
         NEW f \in fuel_types, NEW reading \in Meters, CreateNozzle(d, t, f, reading)
  PROVE  Placed'
<1> USE DEF documentVars, hardwareVars
<1>0. nozzles \in [DOMAIN nozzles -> Nozzle] /\ DOMAIN nozzles \subseteq NozzleIds
  BY DEF Placed, TablesTyped
<1>1. PICK n : n = NextId(nozzles)
  OBVIOUS
<1>2. PICK row : row = [dispenser_id |-> d, tank_id |-> t, fuel_type_id |-> f,
                        meter_reading |-> reading, edited |-> FALSE]
  OBVIOUS
<1>3. /\ n \in NozzleIds /\ nozzles' = Added(nozzles, n, row)
      /\ UNCHANGED <<fuel_types, tanks, dispensers, documentVars>>
  BY <1>1, <1>2 DEF CreateNozzle
<1>4. n \notin DOMAIN nozzles
  BY <1>0, <1>1, NextIdIsNew, EquipmentAssumption DEF NozzleIds
<1>5. /\ row \in Nozzle /\ row.dispenser_id = d /\ row.tank_id = t /\ row.fuel_type_id = f
  BY <1>2, EquipmentAssumption DEF Nozzle, Placed, TablesTyped
<1>6. /\ nozzles' \in [DOMAIN nozzles' -> Nozzle] /\ DOMAIN nozzles' = DOMAIN nozzles \cup {n}
      /\ nozzles'[n] = row /\ \A m \in DOMAIN nozzles : nozzles'[m] = nozzles[m]
  BY <1>0, <1>3, <1>4, <1>5 DEF Added
<1>7. EquipmentKept
  BY <1>3, <1>6 DEF EquipmentKept, SameConnections
<1>8. TablesTyped'
  BY <1>0, <1>3, <1>6 DEF Placed, TablesTyped
<1>9. NozzlesPlaced'
  BY <1>3, <1>5, <1>6 DEF Placed, NozzlesPlaced
<1> QED BY <1>3, <1>7, <1>8, <1>9, KeptForDocuments, KeptForEquipment DEF Placed

\* The sales of a nozzle remember that it was changed or deleted.
Reconnected(sale, n) ==
  IF sale.nozzle_id = n THEN [sale EXCEPT !.repointed = TRUE] ELSE sale

LEMMA RepointedSales ==
  ASSUME fuel_sales \in Seq(FuelSale), NEW n, NEW other, other = Repointed(n)
  PROVE  /\ other \in Seq(FuelSale) /\ Len(other) = Len(fuel_sales)
         /\ \A i \in 1..Len(fuel_sales) : other[i] = Reconnected(fuel_sales[i], n)
<1>1. ASSUME NEW sale \in FuelSale PROVE Reconnected(sale, n) \in FuelSale
  BY DEF Reconnected, FuelSale
<1>2. PICK m \in Nat : m = Len(fuel_sales)
  OBVIOUS
<1>3. \A i \in 1..m : fuel_sales[i] \in FuelSale
  BY <1>2
<1>4. other = [i \in 1..m |-> Reconnected(fuel_sales[i], n)]
  BY <1>2 DEF Repointed, Reconnected
<1>5. other \in [1..m -> FuelSale]
  BY <1>1, <1>3, <1>4
<1> QED BY <1>2, <1>4, <1>5, RowsAreSeq

\* What a sale remembers of a nozzle keeps it in its place, whatever becomes of the
\* nozzle.
LEMMA ReconnectedKept ==
  ASSUME NEW n, NEW sale \in FuelSale, DrawnFrom(sale), ReturnedTo(sale), StillConnected(sale),
         tanks' = tanks, DOMAIN nozzles \ {n} \subseteq DOMAIN nozzles',
         \A m \in DOMAIN nozzles \ {n} : nozzles'[m] = nozzles[m]
  PROVE  DrawnFrom(Reconnected(sale, n))' /\ ReturnedTo(Reconnected(sale, n))'
           /\ StillConnected(Reconnected(sale, n))'
<1>1. PICK row : row = Reconnected(sale, n)
  OBVIOUS
<1>2. /\ row.drawn_from = sale.drawn_from /\ row.returned_to = sale.returned_to
      /\ row.nozzle_id = sale.nozzle_id /\ row.fuel_type_id = sale.fuel_type_id
      /\ row.is_reversed = sale.is_reversed
      /\ row.repointed = (sale.repointed \/ sale.nozzle_id = n)
  BY <1>1 DEF Reconnected, FuelSale
<1>3. DrawnFrom(row)' /\ ReturnedTo(row)' /\ StillConnected(row)'
  BY <1>2 DEF DrawnFrom, ReturnedTo, StillConnected
<1> QED BY <1>1, <1>3

\* A nozzle is given other columns, or deleted, and its sales remember it.
LEMMA NozzleChangedPlaced ==
  ASSUME Placed, NEW n \in DOMAIN nozzles, fuel_sales' = Repointed(n),
         DOMAIN nozzles \ {n} \subseteq DOMAIN nozzles',
         \A m \in DOMAIN nozzles \ {n} : nozzles'[m] = nozzles[m],
         UNCHANGED <<tanks, purchases, tank_dips>>
  PROVE  fuel_sales' \in Seq(FuelSale) /\ PurchasesPlaced' /\ DipsPlaced' /\ SalesPlaced'
<1>1. fuel_sales \in Seq(FuelSale)
  BY DEF Placed, TablesTyped
<1>2. /\ fuel_sales' \in Seq(FuelSale) /\ Len(fuel_sales') = Len(fuel_sales)
      /\ \A i \in 1..Len(fuel_sales) : fuel_sales'[i] = Reconnected(fuel_sales[i], n)
  BY <1>1, RepointedSales
<1>3. ASSUME NEW i \in 1..Len(fuel_sales)
      PROVE  DrawnFrom(fuel_sales[i])' /\ ReturnedTo(fuel_sales[i])'
               /\ StillConnected(fuel_sales[i])'
  <2>1. PICK sale \in FuelSale : sale = fuel_sales[i]
    BY <1>1
  <2>2. DrawnFrom(sale) /\ ReturnedTo(sale) /\ StillConnected(sale)
    BY <2>1 DEF Placed, SalesPlaced
  <2>3. PICK row : row = Reconnected(sale, n)
    OBVIOUS
  <2>4. DrawnFrom(row)' /\ ReturnedTo(row)' /\ StillConnected(row)'
    BY <2>2, <2>3, ReconnectedKept
  <2>5. fuel_sales'[i] = row
    BY <1>2, <2>1, <2>3
  <2> QED BY <2>4, <2>5
<1>4. SalesPlaced'
  BY <1>2, <1>3 DEF SalesPlaced
<1>5. PurchasesPlaced' /\ DipsPlaced'
  BY DEF Placed, PurchasesPlaced, DipsPlaced
<1> QED BY <1>2, <1>4, <1>5

LEMMA UpdateNozzlePlaced ==
  ASSUME Placed, UNCHANGED hardwareVars, NEW n \in DOMAIN nozzles, NEW t \in TankIds,
         NEW f \in FuelTypeIds, UpdateNozzle(n, t, f)
  PROVE  Placed'
<1> USE DEF hardwareVars
<1>0. nozzles \in [DOMAIN nozzles -> Nozzle] /\ DOMAIN nozzles \subseteq NozzleIds
  BY DEF Placed, TablesTyped
<1>1. PICK row : row = [nozzles[n] EXCEPT !.tank_id = t, !.fuel_type_id = f, !.edited = TRUE]
  OBVIOUS
<1>2. /\ nozzles' = [nozzles EXCEPT ![n] = row]
      /\ fuel_sales' = IF t = nozzles[n].tank_id THEN fuel_sales ELSE Repointed(n)
      /\ UNCHANGED <<fuel_types, tanks, dispensers, purchases, tank_dips>>
  BY <1>0, <1>1 DEF UpdateNozzle
<1>3. /\ row \in Nozzle /\ row.dispenser_id = nozzles[n].dispenser_id /\ row.edited
      /\ row.tank_id = t
  BY <1>0, <1>1 DEF Nozzle
<1>4. /\ nozzles' \in [DOMAIN nozzles' -> Nozzle] /\ DOMAIN nozzles' = DOMAIN nozzles
      /\ nozzles'[n] = row /\ \A m \in DOMAIN nozzles \ {n} : nozzles'[m] = nozzles[m]
  BY <1>0, <1>2, <1>3
<1>5. TanksFueled' /\ NozzlesPlaced'
  BY <1>2, <1>3, <1>4 DEF Placed, TanksFueled, NozzlesPlaced
<1>6. fuel_sales' \in Seq(FuelSale) /\ PurchasesPlaced' /\ DipsPlaced' /\ SalesPlaced'
  <2>1. CASE t # nozzles[n].tank_id
    <3>1. fuel_sales' = Repointed(n)
      BY <1>2, <2>1
    <3>2. DOMAIN nozzles \ {n} \subseteq DOMAIN nozzles'
      BY <1>4
    <3>3. UNCHANGED <<tanks, purchases, tank_dips>>
      BY <1>2
    <3> QED BY <1>4, <3>1, <3>2, <3>3, NozzleChangedPlaced
  <2>2. CASE t = nozzles[n].tank_id
    <3>1. fuel_sales' = fuel_sales /\ fuel_sales \in Seq(FuelSale)
      BY <1>2, <2>2 DEF Placed, TablesTyped
    <3>2. \A m \in DOMAIN nozzles : nozzles'[m].tank_id = nozzles[m].tank_id
      BY <1>3, <1>4, <2>2
    <3>3. SalesPlaced'
      BY <1>2, <1>4, <3>1, <3>2
      DEF Placed, SalesPlaced, DrawnFrom, ReturnedTo, StillConnected
    <3>4. PurchasesPlaced' /\ DipsPlaced'
      BY <1>2 DEF Placed, PurchasesPlaced, DipsPlaced
    <3> QED BY <3>1, <3>3, <3>4
  <2> QED BY <2>1, <2>2
<1>7. TablesTyped'
  BY <1>0, <1>2, <1>4, <1>6 DEF Placed, TablesTyped
<1> QED BY <1>5, <1>6, <1>7 DEF Placed

LEMMA DeleteNozzlePlaced ==
  ASSUME Placed, UNCHANGED hardwareVars, NEW n \in DOMAIN nozzles, DeleteNozzle(n)
  PROVE  Placed'
<1> USE DEF hardwareVars
<1>0. nozzles \in [DOMAIN nozzles -> Nozzle] /\ DOMAIN nozzles \subseteq NozzleIds
  BY DEF Placed, TablesTyped
<1>1. /\ nozzles' = Removed(nozzles, n) /\ fuel_sales' = Repointed(n)
      /\ UNCHANGED <<fuel_types, tanks, dispensers, purchases, tank_dips>>
  BY DEF DeleteNozzle
<1>2. /\ nozzles' \in [DOMAIN nozzles' -> Nozzle] /\ DOMAIN nozzles' = DOMAIN nozzles \ {n}
      /\ \A m \in DOMAIN nozzles \ {n} : nozzles'[m] = nozzles[m]
  BY <1>0, <1>1 DEF Removed
<1>3. fuel_sales' \in Seq(FuelSale) /\ PurchasesPlaced' /\ DipsPlaced' /\ SalesPlaced'
  <2>1. fuel_sales' = Repointed(n) /\ UNCHANGED <<tanks, purchases, tank_dips>>
    BY <1>1
  <2>2. DOMAIN nozzles \ {n} \subseteq DOMAIN nozzles'
    BY <1>2
  <2> QED BY <1>2, <2>1, <2>2, NozzleChangedPlaced
<1>4. TanksFueled' /\ NozzlesPlaced'
  BY <1>1, <1>2 DEF Placed, TanksFueled, NozzlesPlaced
<1>5. TablesTyped'
  BY <1>0, <1>1, <1>2, <1>3 DEF Placed, TablesTyped
<1> QED BY <1>3, <1>4, <1>5 DEF Placed

\* No operation on the equipment takes away what a row or document names.
LEMMA EquipmentPlaced ==
  ASSUME Placed, EquipmentNext, UNCHANGED hardwareVars
  PROVE  Placed'
BY FuelTypesPlaced, CreateTankPlaced, UpdateTankPlaced, DeleteTankPlaced, DispensersPlaced,
   CreateNozzlePlaced, UpdateNozzlePlaced, DeleteNozzlePlaced DEF EquipmentNext

-----------------------------------------------------------------------------
(* Documents. *)

\* The tank of a nozzle is one that exists, or none.
LEMMA TankOfNozzle ==
  ASSUME Placed, NEW n \in DOMAIN nozzles
  PROVE  /\ TankOf(n) \in TankIds \cup {NoId}
         /\ TankOf(n) # NoId => TankOf(n) \in DOMAIN tanks /\ TankOf(n) = nozzles[n].tank_id
         /\ nozzles[n].tank_id \in DOMAIN tanks => TankOf(n) = nozzles[n].tank_id
BY DEF TankOf, Placed, TablesTyped

\* A tank that is pumped into or out of keeps all but its volume, and so do the others.
LEMMA TanksPumped ==
  ASSUME Placed, NEW t \in TankIds \cup {NoId}, t # NoId => t \in DOMAIN tanks,
         NEW quantity \in Int, NEW other, other = Pumped(t, quantity)
  PROVE  /\ other \in [DOMAIN other -> Tank] /\ DOMAIN other = DOMAIN tanks
         /\ \A r \in DOMAIN tanks :
              /\ other[r].fuel_type_id = tanks[r].fuel_type_id
              /\ other[r].entered = tanks[r].entered
              /\ other[r].current_volume
                   = tanks[r].current_volume + (IF r = t THEN quantity ELSE 0)
<1>0. tanks \in [DOMAIN tanks -> Tank] /\ DOMAIN tanks \subseteq TankIds
  BY DEF Placed, TablesTyped
<1>1. CASE t = NoId
  <2>1. other = tanks /\ \A r \in DOMAIN tanks : r # t /\ tanks[r].current_volume \in Int
    BY <1>0, <1>1 DEF Pumped, NoId, TankIds, Tank
  <2> QED BY <1>0, <2>1
<1>2. CASE t # NoId
  <2>1. PICK row : row = [tanks[t] EXCEPT !.current_volume = tanks[t].current_volume + quantity]
    OBVIOUS
  <2>2. other = [tanks EXCEPT ![t] = row]
    BY <1>0, <1>2, <2>1 DEF Pumped
  <2>3. /\ row \in Tank /\ row.fuel_type_id = tanks[t].fuel_type_id
        /\ row.entered = tanks[t].entered
        /\ row.current_volume = tanks[t].current_volume + quantity
    BY <1>0, <1>2, <2>1 DEF Tank
  <2>4. /\ other \in [DOMAIN other -> Tank] /\ DOMAIN other = DOMAIN tanks
        /\ other[t] = row /\ \A r \in DOMAIN tanks : r # t => other[r] = tanks[r]
    BY <1>0, <1>2, <2>2, <2>3, WrittenRow
  <2>5. \A r \in DOMAIN tanks : tanks[r].current_volume \in Int
    BY <1>0 DEF Tank
  <2> QED BY <1>2, <2>3, <2>4, <2>5
<1> QED BY <1>1, <1>2

\* What a document does to the equipment: a tank is pumped, a meter is read.
DocumentMade ==
  /\ \E t \in TankIds \cup {NoId}, quantity \in Int :
       (t # NoId => t \in DOMAIN tanks) /\ tanks' = Pumped(t, quantity)
  /\ \/ nozzles' = nozzles
     \/ \E n \in DOMAIN nozzles, reading \in Nat :
          nozzles' = [nozzles EXCEPT ![n].meter_reading = reading]
  /\ fuel_sales' \in Seq(FuelSale) /\ purchases' \in Seq(Purchase)
  /\ UNCHANGED <<fuel_types, dispensers, hardwareVars>>

LEMMA DocumentKeeps ==
  ASSUME Placed, DocumentMade
  PROVE  EquipmentKept /\ TablesTyped' /\ TanksFueled' /\ NozzlesPlaced'
<1> USE DEF hardwareVars
<1>1. /\ tanks' \in [DOMAIN tanks' -> Tank] /\ DOMAIN tanks' = DOMAIN tanks
      /\ \A r \in DOMAIN tanks : tanks'[r].fuel_type_id = tanks[r].fuel_type_id
  <2>1. PICK t \in TankIds \cup {NoId}, quantity \in Int :
          (t # NoId => t \in DOMAIN tanks) /\ tanks' = Pumped(t, quantity)
    BY DEF DocumentMade
  <2> QED BY <2>1, TanksPumped
<1>2. /\ nozzles' \in [DOMAIN nozzles' -> Nozzle] /\ DOMAIN nozzles' = DOMAIN nozzles
      /\ \A n \in DOMAIN nozzles : SameConnections(nozzles'[n], nozzles[n])
  <2>0. nozzles \in [DOMAIN nozzles -> Nozzle]
    BY DEF Placed, TablesTyped
  <2>1. CASE nozzles' = nozzles
    BY <2>0, <2>1 DEF SameConnections
  <2>2. ASSUME NEW n \in DOMAIN nozzles, NEW reading \in Nat,
               nozzles' = [nozzles EXCEPT ![n].meter_reading = reading]
        PROVE  /\ nozzles' \in [DOMAIN nozzles' -> Nozzle] /\ DOMAIN nozzles' = DOMAIN nozzles
               /\ \A m \in DOMAIN nozzles : SameConnections(nozzles'[m], nozzles[m])
    <3>1. PICK row : row = [nozzles[n] EXCEPT !.meter_reading = reading]
      OBVIOUS
    <3>2. row \in Nozzle /\ SameConnections(row, nozzles[n])
      BY <2>0, <3>1 DEF Nozzle, SameConnections
    <3>3. nozzles' = [nozzles EXCEPT ![n] = row]
      BY <2>0, <2>2, <3>1
    <3>4. /\ nozzles' \in [DOMAIN nozzles' -> Nozzle] /\ DOMAIN nozzles' = DOMAIN nozzles
          /\ nozzles'[n] = row /\ \A m \in DOMAIN nozzles : m # n => nozzles'[m] = nozzles[m]
      BY <2>0, <3>2, <3>3, WrittenRow
    <3> QED BY <3>2, <3>4 DEF SameConnections
  <2> QED BY <2>1, <2>2 DEF DocumentMade
<1>3. EquipmentKept
  BY <1>1, <1>2 DEF EquipmentKept, DocumentMade
<1>4. TablesTyped'
  BY <1>1, <1>2 DEF Placed, TablesTyped, DocumentMade
<1> QED BY <1>1, <1>2, <1>3, <1>4, KeptForEquipment

LEMMA CreateFuelSalePlaced ==
  ASSUME Placed, NEW n \in DOMAIN nozzles, NEW closing \in Meters, CreateFuelSale(n, closing)
  PROVE  Placed'
<1>1. PICK t : t = TankOf(n)
  OBVIOUS
<1>2. PICK quantity : quantity = closing - nozzles[n].meter_reading
  OBVIOUS
<1>3. PICK sale : sale =
        [nozzle_id |-> n, fuel_type_id |-> nozzles[n].fuel_type_id,
         opening_meter |-> nozzles[n].meter_reading, closing_meter |-> closing,
         is_reversed |-> FALSE, drawn_from |-> t, returned_to |-> NoId, repointed |-> FALSE]
  OBVIOUS
<1>4. /\ t # NoId => tanks[t].fuel_type_id = nozzles[n].fuel_type_id
      /\ fuel_sales' = Append(fuel_sales, sale)
      /\ nozzles' = [nozzles EXCEPT ![n].meter_reading = closing]
      /\ tanks' = Pumped(t, -quantity)
      /\ UNCHANGED <<fuel_types, dispensers, purchases, tank_dips, hardwareVars>>
  BY <1>1, <1>2, <1>3 DEF CreateFuelSale
<1>5. /\ t \in TankIds \cup {NoId}
      /\ t # NoId => t \in DOMAIN tanks /\ t = nozzles[n].tank_id
  BY <1>1, TankOfNozzle
<1>6. /\ nozzles[n] \in Nozzle /\ n \in NozzleIds /\ closing \in Nat
      /\ fuel_sales \in Seq(FuelSale) /\ purchases \in Seq(Purchase)
  BY EquipmentAssumption DEF Placed, TablesTyped
<1>7. sale \in FuelSale
  BY <1>3, <1>5, <1>6 DEF FuelSale, Nozzle
<1>8. -quantity \in Int
  BY <1>2, <1>6 DEF Nozzle
<1>9. DocumentMade
  <2>1. fuel_sales' \in Seq(FuelSale)
    BY <1>4, <1>6, <1>7
  <2> QED BY <1>4, <1>5, <1>6, <1>8, <2>1 DEF DocumentMade
<1>10. EquipmentKept /\ TablesTyped' /\ TanksFueled' /\ NozzlesPlaced'
  BY <1>9, DocumentKeeps
<1>11. PurchasesPlaced' /\ DipsPlaced'
  BY <1>4, <1>10, KeptForDocuments
<1>12. DrawnFrom(sale) /\ ReturnedTo(sale) /\ StillConnected(sale)
  BY <1>3, <1>4, <1>5 DEF DrawnFrom, ReturnedTo, StillConnected
<1>13. SalesPlaced'
  <2>1. /\ Len(fuel_sales') = Len(fuel_sales) + 1 /\ fuel_sales'[Len(fuel_sales) + 1] = sale
        /\ \A i \in 1..Len(fuel_sales) : fuel_sales'[i] = fuel_sales[i]
        /\ Len(fuel_sales) \in Nat
    BY <1>4, <1>6, <1>7
  <2>2. ASSUME NEW i \in 1..Len(fuel_sales')
        PROVE  DrawnFrom(fuel_sales[i])' /\ ReturnedTo(fuel_sales[i])'
                 /\ StillConnected(fuel_sales[i])'
    <3>1. PICK row : row = fuel_sales'[i]
      OBVIOUS
    <3>2. DrawnFrom(row) /\ ReturnedTo(row) /\ StillConnected(row)
      <4>1. CASE i = Len(fuel_sales) + 1
        BY <1>12, <2>1, <3>1, <4>1
      <4>2. CASE i # Len(fuel_sales) + 1
        <5>1. i \in 1..Len(fuel_sales) /\ row = fuel_sales[i]
          BY <2>1, <3>1, <4>2
        <5> QED BY <5>1 DEF Placed, SalesPlaced
      <4> QED BY <4>1, <4>2
    <3>3. DrawnFrom(row)' /\ ReturnedTo(row)' /\ StillConnected(row)'
      BY <1>10, <3>2, SaleKept
    <3> QED BY <3>1, <3>3
  <2> QED BY <2>2 DEF SalesPlaced
<1> QED BY <1>10, <1>11, <1>13 DEF Placed

LEMMA ReverseFuelSalePlaced ==
  ASSUME Placed, NEW i \in 1..Len(fuel_sales), ReverseFuelSale(i)
  PROVE  Placed'
<1>0. fuel_sales \in Seq(FuelSale) /\ purchases \in Seq(Purchase)
  BY DEF Placed, TablesTyped
<1>1. PICK sale \in FuelSale : sale = fuel_sales[i]
  BY <1>0
<1>2. PICK n : n = sale.nozzle_id
  OBVIOUS
<1>3. PICK t : t = TankOf(n)
  OBVIOUS
<1>4. PICK row : row = [sale EXCEPT !.is_reversed = TRUE, !.returned_to = t]
  OBVIOUS
<1>5. /\ n \in DOMAIN nozzles
      /\ nozzles' = [nozzles EXCEPT ![n].meter_reading = sale.opening_meter]
      /\ tanks' = Pumped(t, Quantity(sale))
      /\ fuel_sales' = [fuel_sales EXCEPT ![i] = row]
      /\ UNCHANGED <<fuel_types, dispensers, purchases, tank_dips, hardwareVars>>
  <2>1. fuel_sales' = [fuel_sales EXCEPT ![i].is_reversed = TRUE, ![i].returned_to = t]
    BY <1>1, <1>2, <1>3 DEF ReverseFuelSale
  <2>2. fuel_sales' = [fuel_sales EXCEPT ![i] = row]
    BY <1>0, <1>1, <1>4, <2>1
  <2> QED BY <1>1, <1>2, <1>3, <2>2 DEF ReverseFuelSale
<1>6. /\ t \in TankIds \cup {NoId}
      /\ t # NoId => t \in DOMAIN tanks /\ t = nozzles[n].tank_id
      /\ nozzles[n].tank_id \in DOMAIN tanks => t = nozzles[n].tank_id
  BY <1>3, <1>5, TankOfNozzle
<1>7. /\ row \in FuelSale /\ row.is_reversed /\ row.returned_to = t
      /\ row.nozzle_id = n /\ row.drawn_from = sale.drawn_from
      /\ row.fuel_type_id = sale.fuel_type_id /\ row.repointed = sale.repointed
  BY <1>2, <1>4, <1>6 DEF FuelSale
<1>8. Quantity(sale) \in Int /\ sale.opening_meter \in Nat
  BY DEF Quantity, FuelSale
<1>9. DocumentMade
  <2>1. fuel_sales' \in Seq(FuelSale)
    BY <1>0, <1>5, <1>7
  <2> QED BY <1>0, <1>5, <1>6, <1>8, <2>1 DEF DocumentMade
<1>10. EquipmentKept /\ TablesTyped' /\ TanksFueled' /\ NozzlesPlaced'
  BY <1>9, DocumentKeeps
<1>11. PurchasesPlaced' /\ DipsPlaced'
  BY <1>5, <1>10, KeptForDocuments
<1>12. DrawnFrom(row) /\ ReturnedTo(row) /\ StillConnected(row)
  <2>1. DrawnFrom(sale) /\ ReturnedTo(sale) /\ StillConnected(sale)
    BY <1>1 DEF Placed, SalesPlaced
  <2>2. DrawnFrom(row) /\ StillConnected(row)
    BY <1>2, <1>7, <2>1 DEF DrawnFrom, StillConnected
  <2>3. sale.drawn_from # NoId /\ ~sale.repointed => t = sale.drawn_from
    BY <1>2, <1>6, <2>1 DEF DrawnFrom, StillConnected
  <2> QED BY <1>6, <1>7, <2>2, <2>3 DEF ReturnedTo
<1>13. SalesPlaced'
  <2>1. /\ Len(fuel_sales') = Len(fuel_sales) /\ fuel_sales'[i] = row
        /\ \A k \in 1..Len(fuel_sales) : k # i => fuel_sales'[k] = fuel_sales[k]
    BY <1>0, <1>5, <1>7
  <2>2. ASSUME NEW k \in 1..Len(fuel_sales')
        PROVE  DrawnFrom(fuel_sales[k])' /\ ReturnedTo(fuel_sales[k])'
                 /\ StillConnected(fuel_sales[k])'
    <3>1. PICK other : other = fuel_sales'[k]
      OBVIOUS
    <3>2. DrawnFrom(other) /\ ReturnedTo(other) /\ StillConnected(other)
      BY <1>12, <2>1, <3>1 DEF Placed, SalesPlaced
    <3>3. DrawnFrom(other)' /\ ReturnedTo(other)' /\ StillConnected(other)'
      BY <1>10, <3>2, SaleKept
    <3> QED BY <3>1, <3>3
  <2> QED BY <2>2 DEF SalesPlaced
<1> QED BY <1>10, <1>11, <1>13 DEF Placed

LEMMA PurchasesAndDipsPlaced ==
  ASSUME Placed,
         \/ \E t \in DOMAIN tanks : CreatePurchase(t)
         \/ \E i \in 1..Len(purchases) : ReversePurchase(i)
         \/ \E t \in DOMAIN tanks, volume \in Volumes : CreateTankDip(t, volume)
  PROVE  Placed'
<1>0. /\ fuel_sales \in Seq(FuelSale) /\ purchases \in Seq(Purchase)
      /\ tanks \in [DOMAIN tanks -> Tank] /\ DOMAIN tanks \subseteq TankIds
  BY DEF Placed, TablesTyped
<1>1. ASSUME NEW t \in DOMAIN tanks, CreatePurchase(t) PROVE Placed'
  <2>1. PICK row : row = [tank_id |-> t, fuel_type_id |-> tanks[t].fuel_type_id,
                          is_reversed |-> FALSE]
    OBVIOUS
  <2>2. /\ purchases' = Append(purchases, row) /\ tanks' = Pumped(t, 1)
        /\ UNCHANGED <<fuel_types, dispensers, nozzles, fuel_sales, tank_dips, hardwareVars>>
    BY <1>1, <2>1 DEF CreatePurchase
  <2>3. row \in Purchase /\ row.tank_id = t /\ row.fuel_type_id = tanks[t].fuel_type_id
    BY <1>0, <2>1 DEF Purchase, Tank
  <2>4. DocumentMade
    BY <1>0, <2>2, <2>3 DEF DocumentMade
  <2>5. EquipmentKept /\ TablesTyped' /\ TanksFueled' /\ NozzlesPlaced'
    BY <2>4, DocumentKeeps
  <2>6. SalesPlaced' /\ DipsPlaced'
    BY <2>2, <2>5, KeptForDocuments
  <2>7. PurchasesPlaced'
    <3>1. /\ Len(purchases') = Len(purchases) + 1 /\ purchases'[Len(purchases) + 1] = row
          /\ \A i \in 1..Len(purchases) : purchases'[i] = purchases[i]
          /\ Len(purchases) \in Nat
      BY <1>0, <2>2, <2>3
    <3>2. ASSUME NEW i \in 1..Len(purchases')
          PROVE  /\ purchases'[i].tank_id \in DOMAIN tanks
                 /\ tanks[purchases'[i].tank_id].fuel_type_id = purchases'[i].fuel_type_id
      <4>1. CASE i = Len(purchases) + 1
        BY <2>3, <3>1, <4>1
      <4>2. CASE i # Len(purchases) + 1
        BY <3>1, <4>2 DEF Placed, PurchasesPlaced
      <4> QED BY <4>1, <4>2
    <3> QED BY <2>5, <3>2 DEF PurchasesPlaced, EquipmentKept
  <2> QED BY <2>5, <2>6, <2>7 DEF Placed
<1>2. ASSUME NEW i \in 1..Len(purchases), ReversePurchase(i) PROVE Placed'
  <2>1. PICK t : t = purchases[i].tank_id
    OBVIOUS
  <2>2. PICK row : row = [purchases[i] EXCEPT !.is_reversed = TRUE]
    OBVIOUS
  <2>3. /\ t \in DOMAIN tanks /\ tanks' = Pumped(t, -1)
        /\ purchases' = [purchases EXCEPT ![i] = row]
        /\ UNCHANGED <<fuel_types, dispensers, nozzles, fuel_sales, tank_dips, hardwareVars>>
    BY <1>0, <1>2, <2>1, <2>2 DEF ReversePurchase
  <2>4. /\ row \in Purchase /\ row.tank_id = purchases[i].tank_id
        /\ row.fuel_type_id = purchases[i].fuel_type_id
    <3>1. PICK old \in Purchase : old = purchases[i]
      BY <1>0
    <3> QED BY <2>2, <3>1 DEF Purchase
  <2>5. DocumentMade
    <3>1. purchases' \in Seq(Purchase) /\ -1 \in Int
      BY <1>0, <2>3, <2>4
    <3> QED BY <1>0, <2>3, <3>1 DEF DocumentMade
  <2>6. EquipmentKept /\ TablesTyped' /\ TanksFueled' /\ NozzlesPlaced'
    BY <2>5, DocumentKeeps
  <2>7. SalesPlaced' /\ DipsPlaced'
    BY <2>3, <2>6, KeptForDocuments
  <2>8. PurchasesPlaced'
    <3>1. /\ Len(purchases') = Len(purchases) /\ purchases'[i] = row
          /\ \A k \in 1..Len(purchases) : k # i => purchases'[k] = purchases[k]
      BY <1>0, <2>3, <2>4
    <3>2. ASSUME NEW k \in 1..Len(purchases')
          PROVE  /\ purchases'[k].tank_id \in DOMAIN tanks
                 /\ tanks[purchases'[k].tank_id].fuel_type_id = purchases'[k].fuel_type_id
      BY <2>4, <3>1 DEF Placed, PurchasesPlaced
    <3> QED BY <2>6, <3>2 DEF PurchasesPlaced, EquipmentKept
  <2> QED BY <2>6, <2>7, <2>8 DEF Placed
<1>3. ASSUME NEW t \in DOMAIN tanks, NEW volume \in Volumes, CreateTankDip(t, volume)
      PROVE  Placed'
  <2>1. PICK row : row = SetVolume(tanks[t], volume)
    OBVIOUS
  <2>2. /\ tanks' = [tanks EXCEPT ![t] = row] /\ tank_dips' = tank_dips \cup {t}
        /\ UNCHANGED <<fuel_types, dispensers, nozzles, hardwareVars>>
        /\ UNCHANGED <<fuel_sales, purchases>>
    BY <1>3, <2>1 DEF CreateTankDip
  <2>3. tanks[t] \in Tank /\ volume \in Nat /\ 0 \in Nat
    BY <1>0, EquipmentAssumption
  <2>4. row \in Tank /\ row.fuel_type_id = tanks[t].fuel_type_id
    BY <2>1, <2>3, VolumeSet
  <2>5. /\ EquipmentKept /\ TanksFueled' /\ NozzlesPlaced' /\ DOMAIN tanks' = DOMAIN tanks
        /\ fuel_sales' \in Seq(FuelSale) /\ purchases' \in Seq(Purchase) => TablesTyped'
    BY <2>2, <2>4, TankWritten
  <2>6. TablesTyped' /\ PurchasesPlaced' /\ SalesPlaced'
    BY <1>0, <2>2, <2>5, KeptForDocuments
  <2>7. DipsPlaced'
    BY <2>2, <2>5 DEF Placed, DipsPlaced
  <2> QED BY <2>5, <2>6, <2>7 DEF Placed
<1> QED BY <1>1, <1>2, <1>3

\* Nor does a document.
LEMMA DocumentsPlaced ==
  ASSUME Placed, DocumentsNext
  PROVE  Placed'
BY CreateFuelSalePlaced, ReverseFuelSalePlaced, PurchasesAndDipsPlaced DEF DocumentsNext

-----------------------------------------------------------------------------
(* Devices. *)

\* What was asked of a device when it was last entered, as far as it is about its columns
\* alone.
DeviceFits(row) ==
  /\ VendorConfigured(row)
  /\ row.device_type = "dispenser"  => row.dispenser_id # NoId /\ row.tank_id = NoId
  /\ row.device_type = "tank_probe" => row.tank_id # NoId /\ row.dispenser_id = NoId

DevicesFit == \A d \in DOMAIN devices : DeviceFits(devices[d])

\* The columns that a request changes, written over the others, make a device.
LEMMA MergedTyped ==
  ASSUME NEW device \in Device, NEW f \in DOMAIN Columns, NEW g \in DOMAIN Columns,
         NEW v \in Columns[f], NEW w \in Columns[g]
  PROVE  Merged(device, [k \in {f, g} |-> IF k = f THEN v ELSE w]) \in Device
<1> DEFINE names == {"station_id", "device_type", "integration_mode", "vendor_name",
                     "device_identifier", "dispenser_id", "tank_id", "is_active"}
           changed == {"integration_mode", "vendor_name", "device_identifier", "dispenser_id",
                       "tank_id", "is_active"}
<1>1. PICK row : row = Merged(device, [k \in {f, g} |-> IF k = f THEN v ELSE w])
  OBVIOUS
<1>2. DOMAIN device = names
  BY DEF Device
<1>3. DOMAIN Columns = changed
  BY DEF Columns
<1>4. row = [k \in names |-> IF k = f THEN v ELSE IF k = g THEN w ELSE device[k]]
  BY <1>1, <1>2 DEF Merged
<1>5. /\ device.station_id \in Stations /\ device.device_type \in DeviceTypes
      /\ device.integration_mode \in IntegrationModes
      /\ device.vendor_name \in VendorNames \cup {NoVendor}
      /\ device.device_identifier \in BOOLEAN /\ device.is_active \in BOOLEAN
      /\ device.dispenser_id \in DispenserIds \cup {NoId}
      /\ device.tank_id \in TankIds \cup {NoId}
  BY DEF Device
<1>6. /\ Columns["integration_mode"] \subseteq IntegrationModes
      /\ Columns["vendor_name"] = VendorNames \cup {NoVendor}
      /\ Columns["device_identifier"] = BOOLEAN /\ Columns["is_active"] = BOOLEAN
      /\ Columns["dispenser_id"] = DispenserIds \cup {NoId}
      /\ Columns["tank_id"] = TankIds \cup {NoId}
  BY DEF Columns, IntegrationModes
<1>7. f \in changed /\ g \in changed
  BY <1>3
<1>8. row.station_id = device.station_id /\ row.device_type = device.device_type
  BY <1>4, <1>7
<1>9. row.integration_mode \in IntegrationModes
  BY <1>4, <1>5, <1>6
<1>10. row.vendor_name \in VendorNames \cup {NoVendor}
  BY <1>4, <1>5, <1>6
<1>11. row.device_identifier \in BOOLEAN /\ row.is_active \in BOOLEAN
  BY <1>4, <1>5, <1>6
<1>12. row.dispenser_id \in DispenserIds \cup {NoId} /\ row.tank_id \in TankIds \cup {NoId}
  BY <1>4, <1>5, <1>6
<1>13. row = [station_id |-> row.station_id, device_type |-> row.device_type,
              integration_mode |-> row.integration_mode, vendor_name |-> row.vendor_name,
              device_identifier |-> row.device_identifier,
              dispenser_id |-> row.dispenser_id, tank_id |-> row.tank_id,
              is_active |-> row.is_active]
  BY <1>4
<1> QED BY <1>1, <1>5, <1>8, <1>9, <1>10, <1>11, <1>12, <1>13 DEF Device

\* Operations on the devices, and the events that are recorded.
Sound == Placed /\ EventsPlaced /\ DevicesFit

\* Nothing but hardware changes.
LEMMA PlacedAnyway ==
  ASSUME Placed, UNCHANGED <<setupVars, documentVars>>,
         DOMAIN devices' \subseteq DeviceIds, devices' \in [DOMAIN devices' -> Device],
         events' \in Seq([device_id : DeviceIds, nozzle_id : NozzleIds \cup {NoId},
                          dispenser_id : DispenserIds \cup {NoId}, tank_id : TankIds \cup {NoId}])
  PROVE  Placed'
<1>1. UNCHANGED <<fuel_types, tanks, dispensers, nozzles, fuel_sales, purchases, tank_dips>>
  BY DEF setupVars, documentVars
<1>2. EquipmentKept
  BY <1>1 DEF EquipmentKept, SameConnections
<1>3. TablesTyped'
  BY <1>1 DEF Placed, TablesTyped
<1> QED BY <1>1, <1>2, <1>3, KeptForDocuments, KeptForEquipment DEF Placed

LEMMA CreateDeviceSound ==
  ASSUME Sound, NEW row \in EnteredDevices, CreateDevice(row)
  PROVE  Sound'
<1>0. devices \in [DOMAIN devices -> Device] /\ DOMAIN devices \subseteq DeviceIds
  BY DEF Sound, Placed, TablesTyped
<1>1. PICK d : d = NextId(devices)
  OBVIOUS
<1>2. /\ d \in DeviceIds /\ ValidDevice(row) /\ devices' = Added(devices, d, row)
      /\ UNCHANGED <<setupVars, documentVars, events>>
  BY <1>1 DEF CreateDevice
<1>3. d \notin DOMAIN devices
  BY <1>0, <1>1, NextIdIsNew, HardwareAssumption DEF DeviceIds
<1>4. row \in Device
  BY DEF EnteredDevices
<1>5. /\ devices' \in [DOMAIN devices' -> Device] /\ DOMAIN devices' = DOMAIN devices \cup {d}
      /\ devices'[d] = row /\ \A c \in DOMAIN devices : devices'[c] = devices[c]
  BY <1>0, <1>2, <1>3, <1>4 DEF Added
<1>6. Placed'
  BY <1>0, <1>2, <1>5, PlacedAnyway DEF Sound, Placed, TablesTyped
<1>7. EventsPlaced'
  BY <1>2, <1>5 DEF Sound, EventsPlaced
<1>8. DeviceFits(row)
  BY <1>2 DEF ValidDevice, LinkedAssetsFit, DeviceFits
<1>9. DevicesFit'
  <2>1. ASSUME NEW c \in DOMAIN devices' PROVE DeviceFits(devices'[c])
    BY <1>5, <1>8 DEF Sound, DevicesFit
  <2> QED BY <2>1 DEF DevicesFit, DeviceFits, VendorConfigured
<1> QED BY <1>6, <1>7, <1>9 DEF Sound

LEMMA UpdateDeviceSound ==
  ASSUME Sound, NEW d \in DOMAIN devices, NEW f \in DOMAIN Columns, NEW g \in DOMAIN Columns,
         NEW v \in Columns[f], NEW w \in Columns[g],
         UpdateDevice(d, [k \in {f, g} |-> IF k = f THEN v ELSE w])
  PROVE  Sound'
<1>0. devices \in [DOMAIN devices -> Device] /\ DOMAIN devices \subseteq DeviceIds
  BY DEF Sound, Placed, TablesTyped
<1>1. PICK row : row = Merged(devices[d], [k \in {f, g} |-> IF k = f THEN v ELSE w])
  OBVIOUS
<1>2. /\ ValidDevice(row) /\ devices' = [devices EXCEPT ![d] = row]
      /\ UNCHANGED <<setupVars, documentVars, events>>
  BY <1>1 DEF UpdateDevice, Checked
<1>3. row \in Device
  <2>1. devices[d] \in Device
    BY <1>0
  <2> QED BY <1>1, <2>1, MergedTyped
<1>4. /\ devices' \in [DOMAIN devices' -> Device] /\ DOMAIN devices' = DOMAIN devices
      /\ devices'[d] = row /\ \A c \in DOMAIN devices : c # d => devices'[c] = devices[c]
  BY <1>0, <1>2, <1>3, WrittenRow
<1>5. Placed'
  BY <1>0, <1>2, <1>4, PlacedAnyway DEF Sound, Placed, TablesTyped
<1>6. EventsPlaced'
  BY <1>2, <1>4 DEF Sound, EventsPlaced
<1>7. DeviceFits(row)
  BY <1>2 DEF ValidDevice, LinkedAssetsFit, DeviceFits
<1>8. DevicesFit'
  <2>1. ASSUME NEW c \in DOMAIN devices' PROVE DeviceFits(devices'[c])
    BY <1>4, <1>7 DEF Sound, DevicesFit
  <2> QED BY <2>1 DEF DevicesFit, DeviceFits, VendorConfigured
<1> QED BY <1>5, <1>6, <1>8 DEF Sound

LEMMA DeleteDeviceSound ==
  ASSUME Sound, NEW d \in DOMAIN devices, DeleteDevice(d)
  PROVE  Sound'
<1>0. devices \in [DOMAIN devices -> Device] /\ DOMAIN devices \subseteq DeviceIds
  BY DEF Sound, Placed, TablesTyped
<1>1. /\ \A i \in 1..Len(events) : events[i].device_id # d
      /\ devices' = Removed(devices, d)
      /\ UNCHANGED <<setupVars, documentVars, events>>
  BY DEF DeleteDevice, HasEvents
<1>2. /\ devices' \in [DOMAIN devices' -> Device] /\ DOMAIN devices' = DOMAIN devices \ {d}
      /\ \A c \in DOMAIN devices \ {d} : devices'[c] = devices[c]
  BY <1>0, <1>1 DEF Removed
<1>3. Placed'
  BY <1>0, <1>1, <1>2, PlacedAnyway DEF Sound, Placed, TablesTyped
<1>4. EventsPlaced'
  BY <1>1, <1>2 DEF Sound, EventsPlaced
<1>5. DevicesFit'
  <2>1. ASSUME NEW c \in DOMAIN devices' PROVE DeviceFits(devices'[c])
    BY <1>2 DEF Sound, DevicesFit
  <2> QED BY <2>1 DEF DevicesFit, DeviceFits, VendorConfigured
<1> QED BY <1>3, <1>4, <1>5 DEF Sound

\* An event names the device that reports it, which is there.
LEMMA RecordSound ==
  ASSUME Sound, NEW d \in DOMAIN devices, NEW n \in NozzleIds \cup {NoId},
         NEW s \in DispenserIds \cup {NoId}, NEW t \in TankIds \cup {NoId},
         Record([device_id |-> d, nozzle_id |-> n, dispenser_id |-> s, tank_id |-> t])
  PROVE  Sound'
<1> DEFINE Event == [device_id : DeviceIds, nozzle_id : NozzleIds \cup {NoId},
                     dispenser_id : DispenserIds \cup {NoId}, tank_id : TankIds \cup {NoId}]
<1>1. PICK event : event = [device_id |-> d, nozzle_id |-> n, dispenser_id |-> s, tank_id |-> t]
  OBVIOUS
<1>2. /\ devices \in [DOMAIN devices -> Device] /\ DOMAIN devices \subseteq DeviceIds
      /\ events \in Seq(Event)
  BY DEF Sound, Placed, TablesTyped
<1>3. event \in Event /\ event.device_id = d
  BY <1>1, <1>2
<1>4. events' = Append(events, event) /\ UNCHANGED <<setupVars, documentVars, devices>>
  BY <1>1 DEF Record
<1> HIDE DEF Event
<1>5. /\ events' \in Seq(Event) /\ Len(events') = Len(events) + 1 /\ Len(events) \in Nat
      /\ events'[Len(events) + 1] = event
      /\ \A i \in 1..Len(events) : events'[i] = events[i]
  BY <1>2, <1>3, <1>4
<1>6. Placed'
  BY <1>2, <1>4, <1>5, PlacedAnyway DEF Sound, Event
<1>7. EventsPlaced'
  <2>1. ASSUME NEW i \in 1..Len(events') PROVE events'[i].device_id \in DOMAIN devices
    <3>1. CASE i = Len(events) + 1
      BY <1>3, <1>5, <3>1
    <3>2. CASE i # Len(events) + 1
      BY <1>5, <3>2 DEF Sound, EventsPlaced
    <3> QED BY <3>1, <3>2
  <2> QED BY <1>4, <2>1 DEF EventsPlaced
<1>8. DevicesFit'
  BY <1>4 DEF Sound, DevicesFit, DeviceFits, VendorConfigured
<1> QED BY <1>6, <1>7, <1>8 DEF Sound

LEMMA HardwareSound ==
  ASSUME Sound, HardwareNext
  PROVE  Sound'
<1>0. /\ devices \in [DOMAIN devices -> Device] /\ DOMAIN nozzles \subseteq NozzleIds
      /\ NoId \in NozzleIds \cup {NoId} /\ NoId \in DispenserIds \cup {NoId}
      /\ NoId \in TankIds \cup {NoId}
  BY DEF Sound, Placed, TablesTyped
<1>1. ASSUME NEW d \in DOMAIN devices
      PROVE  /\ devices[d].dispenser_id \in DispenserIds \cup {NoId}
             /\ devices[d].tank_id \in TankIds \cup {NoId}
  BY <1>0 DEF Device
<1>2. ASSUME NEW row \in EnteredDevices, CreateDevice(row) PROVE Sound'
  BY <1>2, CreateDeviceSound
<1>3. ASSUME NEW d \in DOMAIN devices, NEW f \in DOMAIN Columns, NEW g \in DOMAIN Columns,
             NEW v \in Columns[f], NEW w \in Columns[g],
             UpdateDevice(d, [k \in {f, g} |-> IF k = f THEN v ELSE w])
      PROVE  Sound'
  BY <1>3, UpdateDeviceSound
<1>4. ASSUME NEW d \in DOMAIN devices, DeleteDevice(d) PROVE Sound'
  BY <1>4, DeleteDeviceSound
<1>5. ASSUME NEW d \in DOMAIN devices, NEW n \in DOMAIN nozzles, SimulateDispenserReading(d, n)
      PROVE  Sound'
  BY <1>0, <1>1, <1>5, RecordSound DEF SimulateDispenserReading
<1>6. ASSUME NEW d \in DOMAIN devices, SimulateTankProbeReading(d) PROVE Sound'
  BY <1>0, <1>1, <1>6, RecordSound DEF SimulateTankProbeReading
<1>7. ASSUME NEW d \in DOMAIN devices, PollVendorDevice(d) PROVE Sound'
  BY <1>0, <1>1, <1>7, RecordSound DEF PollVendorDevice
<1> QED BY <1>2, <1>3, <1>4, <1>5, <1>6, <1>7 DEF HardwareNext

\* A device that fits can be polled.
LEMMA FittingDeviceAnswers ==
  ASSUME NEW device \in Device, DeviceFits(device), device.integration_mode = "vendor_api"
  PROVE  /\ Answers(device)
         /\ device.device_type = "dispenser"  <=> device.dispenser_id # NoId
         /\ device.device_type = "tank_probe" <=> device.tank_id # NoId
<1>1. /\ device.vendor_name # NoVendor /\ device.device_identifier
      /\ device.device_type \in {"dispenser", "tank_probe"}
      /\ device.vendor_name \in ProbeVendors     => device.device_type = "tank_probe"
      /\ device.vendor_name \in DispenserVendors => device.device_type = "dispenser"
  BY DEF DeviceFits, VendorConfigured
<1>2. Answers(device)
  BY <1>1 DEF Answers, Adapter, Supported, Measures, ProbeVendors, DispenserVendors
<1> QED BY <1>1, <1>2 DEF DeviceFits

-----------------------------------------------------------------------------
(* What tanks hold. *)

\* What a row of the sales, or of the purchases, contributes to a tank's books.
DrawnOf(t)    == [sale \in FuelSale |-> IF sale.drawn_from = t THEN Quantity(sale) ELSE 0]
ReturnedOf(t) == [sale \in FuelSale |-> IF sale.returned_to = t THEN Quantity(sale) ELSE 0]
BoughtOf(t)   ==
  [row \in Purchase |-> IF row.tank_id = t /\ ~row.is_reversed THEN 1 ELSE 0]

\* What came into a tank by its documents, less what left it.
Net(bought, sales, t) ==
  Total(Amounts(bought, BoughtOf(t)))
    - (Total(Amounts(sales, DrawnOf(t))) - Total(Amounts(sales, ReturnedOf(t))))

\* A tank holds that and what was entered.
Explained(tank, bought, sales, t) ==
  tank.current_volume = tank.entered + Net(bought, sales, t)

StockExplained == \A t \in DOMAIN tanks : Explained(tanks[t], purchases, fuel_sales, t)

\* The columns are of integers.
LEMMA ColumnsTyped ==
  ASSUME NEW t
  PROVE  /\ DrawnOf(t) \in [FuelSale -> Int] /\ ReturnedOf(t) \in [FuelSale -> Int]
         /\ BoughtOf(t) \in [Purchase -> Int]
<1>1. ASSUME NEW sale \in FuelSale PROVE Quantity(sale) \in Int
  BY DEF FuelSale, Quantity
<1> QED BY <1>1 DEF DrawnOf, ReturnedOf, BoughtOf

\* Net is an integer.
LEMMA NetTyped ==
  ASSUME NEW t, NEW bought \in Seq(Purchase), NEW sales \in Seq(FuelSale)
  PROVE  /\ Total(Amounts(bought, BoughtOf(t))) \in Int
         /\ Total(Amounts(sales, DrawnOf(t))) \in Int
         /\ Total(Amounts(sales, ReturnedOf(t))) \in Int
         /\ Net(bought, sales, t) \in Int
<1>1. /\ Total(Amounts(bought, BoughtOf(t))) \in Int
      /\ Total(Amounts(sales, DrawnOf(t))) \in Int
      /\ Total(Amounts(sales, ReturnedOf(t))) \in Int
  BY ColumnsTyped, AmountsTyped
<1> QED BY <1>1 DEF Net

\* Sales that draw and return as much leave Net alone.
LEMMA NetSame ==
  ASSUME NEW t, NEW bought, NEW sales \in Seq(FuelSale), NEW other \in Seq(FuelSale),
         Len(other) = Len(sales),
         \A i \in 1..Len(sales) : /\ DrawnOf(t)[other[i]] = DrawnOf(t)[sales[i]]
                                  /\ ReturnedOf(t)[other[i]] = ReturnedOf(t)[sales[i]]
  PROVE  Net(bought, other, t) = Net(bought, sales, t)
<1>1. Amounts(other, DrawnOf(t)) = Amounts(sales, DrawnOf(t))
  BY DEF Amounts
<1>2. Amounts(other, ReturnedOf(t)) = Amounts(sales, ReturnedOf(t))
  BY DEF Amounts
<1> QED BY <1>1, <1>2 DEF Net

\* A tank that no document names has none.
LEMMA NetOfNewTank ==
  ASSUME Placed, NEW t \in TankIds, t \notin DOMAIN tanks
  PROVE  Net(purchases, fuel_sales, t) = 0
<1>1. fuel_sales \in Seq(FuelSale) /\ purchases \in Seq(Purchase) /\ t # NoId
  BY DEF Placed, TablesTyped, TankIds, NoId
<1>2. PICK b : b = Amounts(purchases, BoughtOf(t))
  OBVIOUS
<1>3. PICK d : d = Amounts(fuel_sales, DrawnOf(t))
  OBVIOUS
<1>4. PICK r : r = Amounts(fuel_sales, ReturnedOf(t))
  OBVIOUS
<1>5. /\ b \in Seq(Int) /\ d \in Seq(Int) /\ r \in Seq(Int)
      /\ Len(b) = Len(purchases) /\ Len(d) = Len(fuel_sales) /\ Len(r) = Len(fuel_sales)
  <2>1. /\ BoughtOf(t) \in [Purchase -> Int] /\ DrawnOf(t) \in [FuelSale -> Int]
        /\ ReturnedOf(t) \in [FuelSale -> Int]
    BY ColumnsTyped
  <2>2. b \in Seq(Int) /\ Len(b) = Len(purchases)
    BY <1>1, <1>2, <2>1, AmountsTyped
  <2>3. /\ d \in Seq(Int) /\ Len(d) = Len(fuel_sales)
        /\ r \in Seq(Int) /\ Len(r) = Len(fuel_sales)
    BY <1>1, <1>3, <1>4, <2>1, AmountsTyped
  <2> QED BY <2>2, <2>3
<1>6. \A i \in 1..Len(purchases) : b[i] = 0
  <2>1. ASSUME NEW i \in 1..Len(purchases) PROVE b[i] = 0
    <3>1. purchases[i] \in Purchase /\ purchases[i].tank_id # t
      BY <1>1 DEF Placed, PurchasesPlaced
    <3> QED BY <1>2, <3>1 DEF Amounts, BoughtOf
  <2> QED BY <2>1
<1>7. \A i \in 1..Len(fuel_sales) : d[i] = 0 /\ r[i] = 0
  <2>1. ASSUME NEW i \in 1..Len(fuel_sales) PROVE d[i] = 0 /\ r[i] = 0
    <3>1. /\ fuel_sales[i] \in FuelSale
          /\ fuel_sales[i].drawn_from # t /\ fuel_sales[i].returned_to # t
      BY <1>1 DEF Placed, SalesPlaced, DrawnFrom, ReturnedTo
    <3> QED BY <1>3, <1>4, <3>1 DEF Amounts, DrawnOf, ReturnedOf
  <2> QED BY <2>1
<1>8. Total(b) = 0 /\ Total(d) = 0 /\ Total(r) = 0
  BY <1>5, <1>6, <1>7, TotalZero
<1> QED BY <1>2, <1>3, <1>4, <1>8 DEF Net

-----------------------------------------------------------------------------
(* Operations on the equipment leave what tanks hold explained. *)

\* Tanks that are neither created nor pumped, over documents that did not change for them.
LEMMA StockKept ==
  ASSUME Placed, StockExplained, DOMAIN tanks' \subseteq DOMAIN tanks,
         \A t \in DOMAIN tanks' :
           /\ tanks'[t].current_volume - tanks'[t].entered
                = tanks[t].current_volume - tanks[t].entered
           /\ tanks'[t].current_volume \in Int /\ tanks'[t].entered \in Int
           /\ Net(purchases', fuel_sales', t) = Net(purchases, fuel_sales, t)
  PROVE  StockExplained'
<1>1. ASSUME NEW t \in DOMAIN tanks'
      PROVE  Explained(tanks'[t], purchases', fuel_sales', t)
  <2>1. Explained(tanks[t], purchases, fuel_sales, t)
    BY DEF StockExplained
  <2>2. tanks[t].current_volume \in Int /\ tanks[t].entered \in Int
    BY DEF Placed, TablesTyped, Tank
  <2>3. Net(purchases, fuel_sales, t) \in Int
    BY NetTyped DEF Placed, TablesTyped
  <2> QED BY <2>1, <2>2, <2>3 DEF Explained
<1> QED BY <1>1 DEF StockExplained

\* The documents and the tanks are as they were.
LEMMA StockUnchanged ==
  ASSUME StockExplained, UNCHANGED <<tanks, purchases, fuel_sales>>
  PROVE  StockExplained'
<1>1. ASSUME NEW t \in DOMAIN tanks'
      PROVE  Explained(tanks'[t], purchases', fuel_sales', t)
  BY DEF StockExplained
<1> QED BY <1>1 DEF StockExplained

LEMMA CreateTankExplained ==
  ASSUME Placed, StockExplained, NEW s \in Stations, NEW f \in fuel_types,
         NEW capacity \in Capacities, NEW volume \in Volumes, CreateTank(s, f, capacity, volume)
  PROVE  StockExplained'
<1>0. tanks \in [DOMAIN tanks -> Tank] /\ DOMAIN tanks \subseteq TankIds
  BY DEF Placed, TablesTyped
<1>1. PICK t : t = NextId(tanks)
  OBVIOUS
<1>2. PICK row : row = [station_id |-> s, fuel_type_id |-> f, capacity |-> capacity,
                        current_volume |-> volume, entered |-> volume]
  OBVIOUS
<1>3. /\ t \in TankIds /\ tanks' = Added(tanks, t, row)
      /\ UNCHANGED <<purchases, fuel_sales>>
  BY <1>1, <1>2 DEF CreateTank, documentVars
<1>4. t \notin DOMAIN tanks
  BY <1>0, <1>1, NextIdIsNew, EquipmentAssumption DEF TankIds
<1>5. /\ DOMAIN tanks' = DOMAIN tanks \cup {t}
      /\ tanks'[t] = row /\ \A r \in DOMAIN tanks : tanks'[r] = tanks[r]
  BY <1>3, <1>4 DEF Added
<1>6. Explained(row, purchases, fuel_sales, t)
  <2>1. Net(purchases, fuel_sales, t) = 0
    BY <1>3, <1>4, NetOfNewTank
  <2>2. row.current_volume = volume /\ row.entered = volume /\ volume \in Nat
    BY <1>2, EquipmentAssumption
  <2> QED BY <2>1, <2>2 DEF Explained
<1>7. ASSUME NEW r \in DOMAIN tanks'
      PROVE  Explained(tanks'[r], purchases', fuel_sales', r)
  BY <1>3, <1>5, <1>6 DEF StockExplained
<1> QED BY <1>7 DEF StockExplained

\* A tank whose volume is set, by an edit or a dip.
LEMMA SetVolumeExplained ==
  ASSUME Placed, StockExplained, NEW t \in DOMAIN tanks, NEW row \in Tank,
         row.current_volume - row.entered = tanks[t].current_volume - tanks[t].entered,
         tanks' = [tanks EXCEPT ![t] = row], UNCHANGED <<purchases, fuel_sales>>
  PROVE  StockExplained'
<1>0. tanks \in [DOMAIN tanks -> Tank]
  BY DEF Placed, TablesTyped
<1>1. /\ tanks' \in [DOMAIN tanks' -> Tank] /\ DOMAIN tanks' = DOMAIN tanks
      /\ tanks'[t] = row /\ \A r \in DOMAIN tanks : r # t => tanks'[r] = tanks[r]
  BY <1>0, WrittenRow
<1>2. ASSUME NEW r \in DOMAIN tanks'
      PROVE  /\ tanks'[r].current_volume - tanks'[r].entered
                  = tanks[r].current_volume - tanks[r].entered
             /\ tanks'[r].current_volume \in Int /\ tanks'[r].entered \in Int
             /\ Net(purchases', fuel_sales', r) = Net(purchases, fuel_sales, r)
  <2>1. tanks'[r] \in Tank
    BY <1>1
  <2>2. tanks'[r].current_volume \in Int /\ tanks'[r].entered \in Int
    BY <2>1 DEF Tank
  <2>3. tanks'[r].current_volume - tanks'[r].entered
          = tanks[r].current_volume - tanks[r].entered
    BY <1>1
  <2> QED BY <2>2, <2>3
<1> QED BY <1>1, <1>2, StockKept

LEMMA UpdateTankExplained ==
  ASSUME Placed, StockExplained, NEW t \in DOMAIN tanks, NEW capacity \in Capacities,
         NEW volume \in Volumes, UpdateTank(t, capacity, volume)
  PROVE  StockExplained'
<1>1. PICK row : row = [SetVolume(tanks[t], volume) EXCEPT !.capacity = capacity]
  OBVIOUS
<1>2. tanks[t] \in Tank /\ volume \in Nat /\ capacity \in Nat
  BY EquipmentAssumption DEF Placed, TablesTyped
<1>3. row \in Tank
      /\ row.current_volume - row.entered = tanks[t].current_volume - tanks[t].entered
  BY <1>1, <1>2, VolumeSet
<1>4. tanks' = [tanks EXCEPT ![t] = row] /\ UNCHANGED <<purchases, fuel_sales>>
  BY <1>1 DEF UpdateTank, documentVars
<1> QED BY <1>3, <1>4, SetVolumeExplained

LEMMA DeleteTankExplained ==
  ASSUME Placed, StockExplained, NEW t \in DOMAIN tanks, DeleteTank(t)
  PROVE  StockExplained'
<1>0. /\ fuel_sales \in Seq(FuelSale) /\ tanks \in [DOMAIN tanks -> Tank]
      /\ DOMAIN tanks \subseteq TankIds
  BY DEF Placed, TablesTyped
<1>1. /\ tanks' = Removed(tanks, t) /\ UNCHANGED purchases
      /\ fuel_sales' = [i \in 1..Len(fuel_sales) |-> Forgetting(fuel_sales[i], t)]
  BY DEF DeleteTank, Forgetting
<1>2. /\ fuel_sales' \in Seq(FuelSale) /\ Len(fuel_sales') = Len(fuel_sales)
      /\ \A i \in 1..Len(fuel_sales) : fuel_sales'[i] = Forgetting(fuel_sales[i], t)
  <2>1. fuel_sales \in Seq(FuelSale)
    BY <1>0
  <2> QED BY <1>1, <2>1, Forgotten, ZenonT(40)
<1>3. DOMAIN tanks' = DOMAIN tanks \ {t} /\ \A r \in DOMAIN tanks \ {t} : tanks'[r] = tanks[r]
  BY <1>1 DEF Removed
<1>4. ASSUME NEW r \in DOMAIN tanks \ {t}
      PROVE  Net(purchases', fuel_sales', r) = Net(purchases, fuel_sales, r)
  <2>1. ASSUME NEW i \in 1..Len(fuel_sales)
        PROVE  /\ DrawnOf(r)[fuel_sales'[i]] = DrawnOf(r)[fuel_sales[i]]
               /\ ReturnedOf(r)[fuel_sales'[i]] = ReturnedOf(r)[fuel_sales[i]]
    <3>1. PICK sale \in FuelSale : sale = fuel_sales[i]
      BY <1>0
    <3>2. PICK row \in FuelSale : row = Forgetting(sale, t)
      BY <1>2, <3>1
    <3>3. /\ row.drawn_from = IF sale.drawn_from = t THEN NoId ELSE sale.drawn_from
          /\ row.returned_to = IF sale.returned_to = t THEN NoId ELSE sale.returned_to
          /\ row.opening_meter = sale.opening_meter /\ row.closing_meter = sale.closing_meter
      BY <3>2 DEF Forgetting, FuelSale
    <3>4. r # NoId /\ r # t
      BY <1>0 DEF TankIds, NoId
    <3>5. DrawnOf(r)[row] = DrawnOf(r)[sale] /\ ReturnedOf(r)[row] = ReturnedOf(r)[sale]
      BY <3>3, <3>4 DEF DrawnOf, ReturnedOf, Quantity
    <3> QED BY <1>2, <3>1, <3>2, <3>5
  <2>2. Net(purchases, fuel_sales', r) = Net(purchases, fuel_sales, r)
    BY <1>0, <1>2, <2>1, NetSame
  <2> QED BY <1>1, <2>2
<1>5. ASSUME NEW r \in DOMAIN tanks'
      PROVE  Explained(tanks'[r], purchases', fuel_sales', r)
  BY <1>3, <1>4 DEF StockExplained, Explained
<1> QED BY <1>5 DEF StockExplained

\* What the sales of a nozzle remember of it is not in the books.
LEMMA RepointedExplained ==
  ASSUME Placed, StockExplained, NEW n, fuel_sales' = fuel_sales \/ fuel_sales' = Repointed(n),
         UNCHANGED <<tanks, purchases>>
  PROVE  StockExplained'
<1>1. CASE fuel_sales' = fuel_sales
  BY <1>1, StockUnchanged
<1>2. CASE fuel_sales' = Repointed(n)
  <2>0. fuel_sales \in Seq(FuelSale)
    BY DEF Placed, TablesTyped
  <2>1. /\ fuel_sales' \in Seq(FuelSale) /\ Len(fuel_sales') = Len(fuel_sales)
        /\ \A i \in 1..Len(fuel_sales) : fuel_sales'[i] = Reconnected(fuel_sales[i], n)
    BY <1>2, <2>0, RepointedSales
  <2>2. ASSUME NEW r PROVE Net(purchases, fuel_sales', r) = Net(purchases, fuel_sales, r)
    <3>1. ASSUME NEW i \in 1..Len(fuel_sales)
          PROVE  /\ DrawnOf(r)[fuel_sales'[i]] = DrawnOf(r)[fuel_sales[i]]
                 /\ ReturnedOf(r)[fuel_sales'[i]] = ReturnedOf(r)[fuel_sales[i]]
      <4>1. PICK sale \in FuelSale : sale = fuel_sales[i]
        BY <2>0
      <4>2. PICK row \in FuelSale : row = Reconnected(sale, n)
        BY <2>1, <4>1
      <4>3. /\ row.drawn_from = sale.drawn_from /\ row.returned_to = sale.returned_to
            /\ row.opening_meter = sale.opening_meter /\ row.closing_meter = sale.closing_meter
        BY <4>2 DEF Reconnected, FuelSale
      <4>4. DrawnOf(r)[row] = DrawnOf(r)[sale] /\ ReturnedOf(r)[row] = ReturnedOf(r)[sale]
        BY <4>3 DEF DrawnOf, ReturnedOf, Quantity
      <4> QED BY <2>1, <4>1, <4>2, <4>4
    <3> QED BY <2>0, <2>1, <3>1, NetSame
  <2>3. ASSUME NEW r \in DOMAIN tanks'
        PROVE  Explained(tanks'[r], purchases', fuel_sales', r)
    BY <2>2 DEF StockExplained, Explained
  <2> QED BY <2>3 DEF StockExplained
<1> QED BY <1>1, <1>2

LEMMA EquipmentExplained ==
  ASSUME Placed, StockExplained, EquipmentNext
  PROVE  StockExplained'
<1> USE DEF documentVars
<1>1. CASE CreateFuelType \/ \E f \in fuel_types : DeleteFuelType(f)
  BY <1>1, StockUnchanged DEF CreateFuelType, DeleteFuelType
<1>2. CASE \/ \E s \in Stations : CreateDispenser(s)
           \/ \E d \in DOMAIN dispensers : DeleteDispenser(d)
  BY <1>2, StockUnchanged DEF CreateDispenser, DeleteDispenser
<1>3. ASSUME NEW d, NEW t, NEW f, NEW reading, CreateNozzle(d, t, f, reading)
      PROVE  StockExplained'
  BY <1>3, StockUnchanged DEF CreateNozzle
<1>4. ASSUME NEW n, NEW t, NEW f, UpdateNozzle(n, t, f) PROVE StockExplained'
  BY <1>4, RepointedExplained DEF UpdateNozzle
<1>5. ASSUME NEW n, DeleteNozzle(n) PROVE StockExplained'
  BY <1>5, RepointedExplained DEF DeleteNozzle
<1> QED BY <1>1, <1>2, <1>3, <1>4, <1>5, CreateTankExplained, UpdateTankExplained,
           DeleteTankExplained DEF EquipmentNext

-----------------------------------------------------------------------------
(* And so do the documents, which move what they write down. *)

LEMMA CreateFuelSaleExplained ==
  ASSUME Placed, StockExplained, NEW n \in DOMAIN nozzles, NEW closing \in Meters,
         CreateFuelSale(n, closing)
  PROVE  StockExplained'
<1>0. /\ fuel_sales \in Seq(FuelSale) /\ purchases \in Seq(Purchase)
      /\ tanks \in [DOMAIN tanks -> Tank] /\ DOMAIN tanks \subseteq TankIds
      /\ nozzles[n] \in Nozzle /\ n \in NozzleIds /\ closing \in Nat
  BY EquipmentAssumption DEF Placed, TablesTyped
<1>1. PICK t : t = TankOf(n)
  OBVIOUS
<1>2. PICK quantity \in Int : quantity = closing - nozzles[n].meter_reading
  BY <1>0 DEF Nozzle
<1>3. PICK sale : sale =
        [nozzle_id |-> n, fuel_type_id |-> nozzles[n].fuel_type_id,
         opening_meter |-> nozzles[n].meter_reading, closing_meter |-> closing,
         is_reversed |-> FALSE, drawn_from |-> t, returned_to |-> NoId, repointed |-> FALSE]
  OBVIOUS
<1>4. /\ fuel_sales' = Append(fuel_sales, sale) /\ tanks' = Pumped(t, -quantity)
      /\ UNCHANGED purchases
  BY <1>1, <1>2, <1>3 DEF CreateFuelSale
<1>5. t \in TankIds \cup {NoId} /\ (t # NoId => t \in DOMAIN tanks)
  BY <1>1, TankOfNozzle
<1>6. sale \in FuelSale
  BY <1>0, <1>3, <1>5 DEF FuelSale, Nozzle
<1>7. Quantity(sale) = quantity /\ sale.drawn_from = t /\ sale.returned_to = NoId
  BY <1>2, <1>3 DEF Quantity
<1>8. /\ DOMAIN tanks' = DOMAIN tanks
      /\ \A r \in DOMAIN tanks :
           /\ tanks'[r].entered = tanks[r].entered
           /\ tanks'[r].current_volume
                = tanks[r].current_volume + (IF r = t THEN -quantity ELSE 0)
  <2>1. PICK out \in Int : out = -quantity
    OBVIOUS
  <2>2. tanks' = Pumped(t, out)
    BY <1>4, <2>1
  <2>3. PICK other : other = Pumped(t, out)
    OBVIOUS
  <2>4. /\ other \in [DOMAIN other -> Tank] /\ DOMAIN other = DOMAIN tanks
        /\ \A r \in DOMAIN tanks :
             /\ other[r].fuel_type_id = tanks[r].fuel_type_id
             /\ other[r].entered = tanks[r].entered
             /\ other[r].current_volume
                  = tanks[r].current_volume + (IF r = t THEN out ELSE 0)
    BY <1>5, <2>3, TanksPumped
  <2> QED BY <2>1, <2>2, <2>3, <2>4
<1>9. ASSUME NEW r \in DOMAIN tanks'
      PROVE  Explained(tanks'[r], purchases', fuel_sales', r)
  <2>1. r \in DOMAIN tanks /\ r # NoId
    BY <1>0, <1>8 DEF TankIds, NoId
  <2>2. DrawnOf(r)[sale] = (IF r = t THEN quantity ELSE 0) /\ ReturnedOf(r)[sale] = 0
    BY <1>6, <1>7, <2>1 DEF DrawnOf, ReturnedOf
  <2>3. DrawnOf(r) \in [FuelSale -> Int] /\ ReturnedOf(r) \in [FuelSale -> Int]
    BY ColumnsTyped
  <2>4. /\ Total(Amounts(Append(fuel_sales, sale), DrawnOf(r)))
             = Total(Amounts(fuel_sales, DrawnOf(r))) + DrawnOf(r)[sale]
        /\ Total(Amounts(fuel_sales, DrawnOf(r))) \in Int /\ DrawnOf(r)[sale] \in Int
    BY <1>0, <1>6, <2>3, AmountsAppended
  <2>5. /\ Total(Amounts(Append(fuel_sales, sale), ReturnedOf(r)))
             = Total(Amounts(fuel_sales, ReturnedOf(r))) + ReturnedOf(r)[sale]
        /\ Total(Amounts(fuel_sales, ReturnedOf(r))) \in Int /\ ReturnedOf(r)[sale] \in Int
    BY <1>0, <1>6, <2>3, AmountsAppended
  <2>6. Explained(tanks[r], purchases, fuel_sales, r)
    BY <2>1 DEF StockExplained
  <2>7. tanks[r].current_volume \in Int /\ tanks[r].entered \in Int
    BY <1>0, <2>1 DEF Tank
  <2>8. /\ Total(Amounts(purchases, BoughtOf(r))) \in Int
        /\ Total(Amounts(fuel_sales, DrawnOf(r))) \in Int
        /\ Total(Amounts(fuel_sales, ReturnedOf(r))) \in Int
    BY <1>0, NetTyped
  <2>9. tanks'[r].current_volume
          = tanks'[r].entered + Net(purchases, Append(fuel_sales, sale), r)
    <3>1. CASE r = t
      BY <1>8, <2>1, <2>2, <2>4, <2>5, <2>6, <2>7, <2>8, <3>1 DEF Explained, Net
    <3>2. CASE r # t
      BY <1>8, <2>1, <2>2, <2>4, <2>5, <2>6, <2>7, <2>8, <3>2 DEF Explained, Net
    <3> QED BY <3>1, <3>2
  <2> QED BY <1>4, <2>9 DEF Explained
<1> QED BY <1>9 DEF StockExplained

LEMMA ReverseFuelSaleExplained ==
  ASSUME Placed, StockExplained, NEW i \in 1..Len(fuel_sales), ReverseFuelSale(i)
  PROVE  StockExplained'
<1>0. /\ fuel_sales \in Seq(FuelSale) /\ purchases \in Seq(Purchase)
      /\ tanks \in [DOMAIN tanks -> Tank] /\ DOMAIN tanks \subseteq TankIds
  BY DEF Placed, TablesTyped
<1>1. PICK sale \in FuelSale : sale = fuel_sales[i]
  BY <1>0
<1>2. PICK t : t = TankOf(sale.nozzle_id)
  OBVIOUS
<1>3. PICK row : row = [sale EXCEPT !.is_reversed = TRUE, !.returned_to = t]
  OBVIOUS
<1>4. /\ sale.nozzle_id \in DOMAIN nozzles /\ ~sale.is_reversed
      /\ tanks' = Pumped(t, Quantity(sale)) /\ UNCHANGED purchases
      /\ fuel_sales' = [fuel_sales EXCEPT ![i] = row]
  <2>1. fuel_sales' = [fuel_sales EXCEPT ![i].is_reversed = TRUE, ![i].returned_to = t]
    BY <1>1, <1>2 DEF ReverseFuelSale
  <2>2. fuel_sales' = [fuel_sales EXCEPT ![i] = row]
    BY <1>0, <1>1, <1>3, <2>1
  <2> QED BY <1>1, <1>2, <2>2 DEF ReverseFuelSale, Standing
<1>5. t \in TankIds \cup {NoId} /\ (t # NoId => t \in DOMAIN tanks)
  BY <1>2, <1>4, TankOfNozzle
<1>6. /\ row \in FuelSale /\ row.returned_to = t /\ row.drawn_from = sale.drawn_from
      /\ Quantity(row) = Quantity(sale)
  BY <1>3, <1>5 DEF FuelSale, Quantity
<1>7. sale.returned_to = NoId
  BY <1>1, <1>4 DEF Placed, SalesPlaced, ReturnedTo
<1>8. PICK quantity \in Int : quantity = Quantity(sale)
  BY DEF Quantity, FuelSale
<1>9. /\ DOMAIN tanks' = DOMAIN tanks
      /\ \A r \in DOMAIN tanks :
           /\ tanks'[r].entered = tanks[r].entered
           /\ tanks'[r].current_volume
                = tanks[r].current_volume + (IF r = t THEN quantity ELSE 0)
  BY <1>4, <1>5, <1>8, TanksPumped
<1>10. ASSUME NEW r \in DOMAIN tanks'
       PROVE  Explained(tanks'[r], purchases', fuel_sales', r)
  <2>1. r \in DOMAIN tanks /\ r # NoId
    BY <1>0, <1>9 DEF TankIds, NoId
  <2>2. /\ DrawnOf(r)[row] = DrawnOf(r)[sale] /\ ReturnedOf(r)[sale] = 0
        /\ ReturnedOf(r)[row] = IF r = t THEN quantity ELSE 0
    BY <1>6, <1>7, <1>8, <2>1 DEF DrawnOf, ReturnedOf
  <2>3. DrawnOf(r) \in [FuelSale -> Int] /\ ReturnedOf(r) \in [FuelSale -> Int]
    BY ColumnsTyped
  <2>4. /\ Total(Amounts([fuel_sales EXCEPT ![i] = row], DrawnOf(r)))
             = Total(Amounts(fuel_sales, DrawnOf(r)))
                 - DrawnOf(r)[fuel_sales[i]] + DrawnOf(r)[row]
        /\ Total(Amounts(fuel_sales, DrawnOf(r))) \in Int
        /\ DrawnOf(r)[fuel_sales[i]] \in Int /\ DrawnOf(r)[row] \in Int
    BY <1>0, <1>6, <2>3, AmountsRewritten
  <2>5. /\ Total(Amounts([fuel_sales EXCEPT ![i] = row], ReturnedOf(r)))
             = Total(Amounts(fuel_sales, ReturnedOf(r)))
                 - ReturnedOf(r)[fuel_sales[i]] + ReturnedOf(r)[row]
        /\ Total(Amounts(fuel_sales, ReturnedOf(r))) \in Int
        /\ ReturnedOf(r)[fuel_sales[i]] \in Int /\ ReturnedOf(r)[row] \in Int
    BY <1>0, <1>6, <2>3, AmountsRewritten
  <2>6. Explained(tanks[r], purchases, fuel_sales, r)
    BY <2>1 DEF StockExplained
  <2>7. tanks[r].current_volume \in Int /\ tanks[r].entered \in Int
    BY <1>0, <2>1 DEF Tank
  <2>8. /\ Total(Amounts(purchases, BoughtOf(r))) \in Int
        /\ Total(Amounts(fuel_sales, DrawnOf(r))) \in Int
        /\ Total(Amounts(fuel_sales, ReturnedOf(r))) \in Int
    BY <1>0, NetTyped
  <2>9. /\ Total(Amounts([fuel_sales EXCEPT ![i] = row], DrawnOf(r)))
             = Total(Amounts(fuel_sales, DrawnOf(r)))
        /\ Total(Amounts([fuel_sales EXCEPT ![i] = row], ReturnedOf(r)))
             = Total(Amounts(fuel_sales, ReturnedOf(r))) + (IF r = t THEN quantity ELSE 0)
    BY <1>1, <2>2, <2>4, <2>5, <2>8
  <2>10. tanks'[r].current_volume
           = tanks'[r].entered + Net(purchases, [fuel_sales EXCEPT ![i] = row], r)
    <3>1. CASE r = t
      <4>1. /\ tanks'[r].current_volume = tanks[r].current_volume + quantity
            /\ tanks'[r].entered = tanks[r].entered
            /\ Total(Amounts([fuel_sales EXCEPT ![i] = row], ReturnedOf(r)))
                 = Total(Amounts(fuel_sales, ReturnedOf(r))) + quantity
        BY <1>9, <2>1, <2>9, <3>1
      <4>2. tanks[r].current_volume = tanks[r].entered + Net(purchases, fuel_sales, r)
        BY <2>6 DEF Explained
      <4>3. Net(purchases, fuel_sales, r) \in Int
        BY <2>8 DEF Net
      <4>4. Net(purchases, [fuel_sales EXCEPT ![i] = row], r)
              = Net(purchases, fuel_sales, r) + quantity
        BY <1>8, <2>8, <2>9, <4>1 DEF Net
      <4> QED BY <1>8, <2>7, <4>1, <4>2, <4>3, <4>4
    <3>2. CASE r # t
      BY <1>9, <2>1, <2>6, <2>7, <2>8, <2>9, <3>2 DEF Explained, Net
    <3> QED BY <3>1, <3>2
  <2> QED BY <1>4, <2>10 DEF Explained
<1> QED BY <1>10 DEF StockExplained

\* A purchase that is made or reversed moves one unit.
LEMMA PurchaseExplained ==
  ASSUME Placed, StockExplained,
         \/ \E t \in DOMAIN tanks : CreatePurchase(t)
         \/ \E i \in 1..Len(purchases) : ReversePurchase(i)
  PROVE  StockExplained'
<1>0. /\ fuel_sales \in Seq(FuelSale) /\ purchases \in Seq(Purchase)
      /\ tanks \in [DOMAIN tanks -> Tank] /\ DOMAIN tanks \subseteq TankIds
  BY DEF Placed, TablesTyped
<1>1. ASSUME NEW t \in DOMAIN tanks, NEW quantity \in Int, tanks' = Pumped(t, quantity),
             fuel_sales' = fuel_sales,
             \A r \in DOMAIN tanks :
               Total(Amounts(purchases', BoughtOf(r)))
                 = Total(Amounts(purchases, BoughtOf(r))) + (IF r = t THEN quantity ELSE 0)
      PROVE  StockExplained'
  <2>1. /\ DOMAIN tanks' = DOMAIN tanks
        /\ \A r \in DOMAIN tanks :
             /\ tanks'[r].entered = tanks[r].entered
             /\ tanks'[r].current_volume
                  = tanks[r].current_volume + (IF r = t THEN quantity ELSE 0)
    BY <1>0, <1>1, TanksPumped
  <2>2. ASSUME NEW r \in DOMAIN tanks'
        PROVE  Explained(tanks'[r], purchases', fuel_sales', r)
    <3>1. r \in DOMAIN tanks
      BY <2>1
    <3>2. Explained(tanks[r], purchases, fuel_sales, r)
      BY <3>1 DEF StockExplained
    <3>3. tanks[r].current_volume \in Int /\ tanks[r].entered \in Int
      BY <1>0, <3>1 DEF Tank
    <3>4. /\ Total(Amounts(purchases, BoughtOf(r))) \in Int
          /\ Total(Amounts(fuel_sales, DrawnOf(r))) \in Int
          /\ Total(Amounts(fuel_sales, ReturnedOf(r))) \in Int
      BY <1>0, NetTyped
    <3>5. tanks'[r].current_volume = tanks'[r].entered + Net(purchases', fuel_sales, r)
      <4>1. CASE r = t
        BY <1>1, <2>1, <3>1, <3>2, <3>3, <3>4, <4>1 DEF Explained, Net
      <4>2. CASE r # t
        BY <1>1, <2>1, <3>1, <3>2, <3>3, <3>4, <4>2 DEF Explained, Net
      <4> QED BY <4>1, <4>2
    <3> QED BY <1>1, <3>5 DEF Explained
  <2> QED BY <2>2 DEF StockExplained
<1>2. ASSUME NEW t \in DOMAIN tanks, CreatePurchase(t) PROVE StockExplained'
  <2>1. PICK row : row = [tank_id |-> t, fuel_type_id |-> tanks[t].fuel_type_id,
                          is_reversed |-> FALSE]
    OBVIOUS
  <2>2. /\ purchases' = Append(purchases, row) /\ tanks' = Pumped(t, 1)
        /\ fuel_sales' = fuel_sales
    BY <1>2, <2>1 DEF CreatePurchase
  <2>3. row \in Purchase /\ row.tank_id = t /\ ~row.is_reversed
    BY <1>0, <2>1 DEF Purchase, Tank
  <2>4. ASSUME NEW r \in DOMAIN tanks
        PROVE  Total(Amounts(purchases', BoughtOf(r)))
                 = Total(Amounts(purchases, BoughtOf(r))) + (IF r = t THEN 1 ELSE 0)
    <3>1. BoughtOf(r) \in [Purchase -> Int]
      BY ColumnsTyped
    <3>2. Total(Amounts(Append(purchases, row), BoughtOf(r)))
            = Total(Amounts(purchases, BoughtOf(r))) + BoughtOf(r)[row]
      BY <1>0, <2>3, <3>1, AmountsAppended
    <3>3. BoughtOf(r)[row] = IF r = t THEN 1 ELSE 0
      BY <2>3 DEF BoughtOf
    <3> QED BY <2>2, <3>2, <3>3
  <2> QED BY <1>1, <2>2, <2>4
<1>3. ASSUME NEW i \in 1..Len(purchases), ReversePurchase(i) PROVE StockExplained'
  <2>1. PICK old \in Purchase : old = purchases[i]
    BY <1>0
  <2>2. PICK t : t = old.tank_id
    OBVIOUS
  <2>3. PICK row : row = [old EXCEPT !.is_reversed = TRUE]
    OBVIOUS
  <2>4. /\ t \in DOMAIN tanks /\ tanks' = Pumped(t, -1) /\ ~old.is_reversed
        /\ purchases' = [purchases EXCEPT ![i] = row] /\ fuel_sales' = fuel_sales
    BY <1>0, <1>3, <2>1, <2>2, <2>3 DEF ReversePurchase
  <2>5. row \in Purchase /\ row.is_reversed
    BY <2>3 DEF Purchase
  <2>6. ASSUME NEW r \in DOMAIN tanks
        PROVE  Total(Amounts(purchases', BoughtOf(r)))
                 = Total(Amounts(purchases, BoughtOf(r))) + (IF r = t THEN -1 ELSE 0)
    <3>1. BoughtOf(r) \in [Purchase -> Int]
      BY ColumnsTyped
    <3>2. /\ Total(Amounts([purchases EXCEPT ![i] = row], BoughtOf(r)))
               = Total(Amounts(purchases, BoughtOf(r)))
                   - BoughtOf(r)[purchases[i]] + BoughtOf(r)[row]
          /\ Total(Amounts(purchases, BoughtOf(r))) \in Int
          /\ BoughtOf(r)[purchases[i]] \in Int /\ BoughtOf(r)[row] \in Int
      BY <1>0, <2>5, <3>1, AmountsRewritten
    <3>3. BoughtOf(r)[old] = (IF r = t THEN 1 ELSE 0) /\ BoughtOf(r)[row] = 0
      BY <2>2, <2>4, <2>5 DEF BoughtOf
    <3> QED BY <2>1, <2>4, <3>2, <3>3
  <2>7. -1 \in Int
    OBVIOUS
  <2> QED BY <1>1, <2>4, <2>6, <2>7
<1> QED BY <1>2, <1>3

LEMMA DocumentsExplained ==
  ASSUME Placed, StockExplained, DocumentsNext
  PROVE  StockExplained'
<1>1. ASSUME NEW t \in DOMAIN tanks, NEW volume \in Volumes, CreateTankDip(t, volume)
      PROVE  StockExplained'
  <2>1. PICK row : row = SetVolume(tanks[t], volume)
    OBVIOUS
  <2>2. tanks[t] \in Tank /\ volume \in Nat /\ 0 \in Nat
    BY EquipmentAssumption DEF Placed, TablesTyped
  <2>3. row \in Tank
        /\ row.current_volume - row.entered = tanks[t].current_volume - tanks[t].entered
    BY <2>1, <2>2, VolumeSet
  <2>4. tanks' = [tanks EXCEPT ![t] = row] /\ UNCHANGED <<purchases, fuel_sales>>
    BY <1>1, <2>1 DEF CreateTankDip
  <2> QED BY <2>3, <2>4, SetVolumeExplained
<1> QED BY <1>1, CreateFuelSaleExplained, ReverseFuelSaleExplained, PurchaseExplained
        DEF DocumentsNext

-----------------------------------------------------------------------------
(* The invariant, and what follows from it. *)

IInv == Sound /\ StockExplained

LEMMA EquipmentInitInv ==
  ASSUME EquipmentInit
  PROVE  IInv
<1>1. PICK s \in Stations, capacity \in Capacities, volume \in Volumes :
        /\ tanks = [t \in {1} |->
             [station_id |-> s, fuel_type_id |-> 1, capacity |-> capacity,
              current_volume |-> volume, entered |-> volume]]
        /\ dispensers = [d \in {1} |-> s]
  BY DEF EquipmentInit
<1>2. /\ fuel_types = FuelTypeIds
      /\ nozzles = [n \in {1} |->
           [dispenser_id |-> 1, tank_id |-> 1, fuel_type_id |-> 1, meter_reading |-> 0,
            edited |-> FALSE]]
      /\ fuel_sales = <<>> /\ purchases = <<>> /\ tank_dips = {}
      /\ devices = <<>> /\ events = <<>>
  BY DEF EquipmentInit
<1>3. /\ 1 \in FuelTypeIds /\ 1 \in TankIds /\ 1 \in DispenserIds /\ 1 \in NozzleIds
      /\ capacity \in Nat /\ volume \in Nat
  BY EquipmentAssumption DEF FuelTypeIds, TankIds, DispenserIds, NozzleIds
<1>4. /\ DOMAIN tanks = {1} /\ tanks[1] \in Tank /\ tanks[1].fuel_type_id = 1
      /\ tanks[1].current_volume = volume /\ tanks[1].entered = volume
  BY <1>1, <1>3 DEF Tank
<1>5. /\ DOMAIN nozzles = {1} /\ nozzles[1] \in Nozzle /\ nozzles[1].dispenser_id = 1
      /\ nozzles[1].tank_id = 1 /\ nozzles[1].fuel_type_id = 1
  BY <1>2, <1>3 DEF Nozzle
<1>6. /\ Len(fuel_sales) = 0 /\ Len(purchases) = 0 /\ Len(events) = 0 /\ DOMAIN devices = {}
      /\ fuel_sales \in Seq(FuelSale) /\ purchases \in Seq(Purchase)
  BY <1>2
<1>7. TablesTyped
  <2>1. tanks \in [DOMAIN tanks -> Tank] /\ DOMAIN tanks \subseteq TankIds
    BY <1>1, <1>3, <1>4
  <2>2. nozzles \in [DOMAIN nozzles -> Nozzle] /\ DOMAIN nozzles \subseteq NozzleIds
    BY <1>2, <1>3, <1>5
  <2>3. dispensers \in [DOMAIN dispensers -> Stations] /\ DOMAIN dispensers \subseteq DispenserIds
    BY <1>1, <1>3
  <2>4. devices \in [DOMAIN devices -> Device] /\ DOMAIN devices \subseteq DeviceIds
    BY <1>2
  <2>5. events \in Seq([device_id : DeviceIds, nozzle_id : NozzleIds \cup {NoId},
                        dispenser_id : DispenserIds \cup {NoId}, tank_id : TankIds \cup {NoId}])
    BY <1>2
  <2> QED BY <1>2, <1>6, <2>1, <2>2, <2>3, <2>4, <2>5 DEF TablesTyped
<1>8. Placed
  <2>1. TanksFueled /\ NozzlesPlaced
    BY <1>1, <1>2, <1>3, <1>4, <1>5 DEF TanksFueled, NozzlesPlaced
  <2>2. PurchasesPlaced /\ DipsPlaced /\ SalesPlaced
    BY <1>2, <1>6 DEF PurchasesPlaced, DipsPlaced, SalesPlaced
  <2> QED BY <1>7, <2>1, <2>2 DEF Placed
<1>9. Sound
  BY <1>6, <1>8 DEF Sound, EventsPlaced, DevicesFit
<1>10. StockExplained
  <2>1. Net(purchases, fuel_sales, 1) = 0
    <3>1. /\ Total(Amounts(purchases, BoughtOf(1))) = 0
          /\ Total(Amounts(fuel_sales, DrawnOf(1))) = 0
          /\ Total(Amounts(fuel_sales, ReturnedOf(1))) = 0
      BY <1>6, ColumnsTyped, AmountsEmpty
    <3> QED BY <3>1 DEF Net
  <2> QED BY <1>3, <1>4, <2>1 DEF StockExplained, Explained
<1> QED BY <1>9, <1>10 DEF IInv

LEMMA EquipmentNextInv ==
  ASSUME IInv, [EquipmentBooksNext]_equipmentVars
  PROVE  IInv'
<1>1. CASE EquipmentNext /\ UNCHANGED hardwareVars
  <2>1. Placed'
    BY <1>1, EquipmentPlaced DEF IInv, Sound
  <2>2. EventsPlaced' /\ DevicesFit'
    BY <1>1 DEF IInv, Sound, EventsPlaced, DevicesFit, DeviceFits, VendorConfigured, hardwareVars
  <2>3. StockExplained'
    BY <1>1, EquipmentExplained DEF IInv, Sound
  <2> QED BY <2>1, <2>2, <2>3 DEF IInv, Sound
<1>2. CASE DocumentsNext
  <2>1. Placed'
    BY <1>2, DocumentsPlaced DEF IInv, Sound
  <2>2. UNCHANGED hardwareVars
    BY <1>2 DEF DocumentsNext, CreateFuelSale, ReverseFuelSale, CreatePurchase, ReversePurchase,
                CreateTankDip
  <2>3. EventsPlaced' /\ DevicesFit'
    BY <2>2 DEF IInv, Sound, EventsPlaced, DevicesFit, DeviceFits, VendorConfigured, hardwareVars
  <2>4. StockExplained'
    BY <1>2, DocumentsExplained DEF IInv, Sound
  <2> QED BY <2>1, <2>3, <2>4 DEF IInv, Sound
<1>3. CASE HardwareNext
  <2>1. Sound'
    BY <1>3, HardwareSound DEF IInv
  <2>2. UNCHANGED <<tanks, purchases, fuel_sales>>
    BY <1>3 DEF HardwareNext, CreateDevice, UpdateDevice, DeleteDevice, SimulateDispenserReading,
                SimulateTankProbeReading, PollVendorDevice, Record, setupVars, documentVars
  <2>3. StockExplained'
    BY <2>2, StockUnchanged DEF IInv
  <2> QED BY <2>1, <2>3 DEF IInv
<1>4. CASE UNCHANGED equipmentVars
  <2>1. UNCHANGED <<fuel_types, tanks, dispensers, nozzles, fuel_sales, purchases, tank_dips,
                    devices, events>>
    BY <1>4 DEF equipmentVars, setupVars, documentVars, hardwareVars
  <2>2. Placed'
    BY <2>1, PlacedAnyway DEF IInv, Sound, Placed, TablesTyped, setupVars, documentVars
  <2>3. EventsPlaced' /\ DevicesFit'
    BY <2>1 DEF IInv, Sound, EventsPlaced, DevicesFit, DeviceFits, VendorConfigured
  <2>4. StockExplained'
    BY <2>1, StockUnchanged DEF IInv
  <2> QED BY <2>2, <2>3, <2>4 DEF IInv, Sound
<1> QED BY <1>1, <1>2, <1>3, <1>4 DEF EquipmentBooksNext

LEMMA IInvReferences ==
  ASSUME IInv
  PROVE  ReferencesHold
<1>1. EquipmentTypeOK
  BY DEF IInv, Sound, Placed, TablesTyped, EquipmentTypeOK
<1> QED BY <1>1 DEF IInv, Sound, Placed, TanksFueled, NozzlesPlaced, PurchasesPlaced, DipsPlaced,
                    SalesPlaced, DrawnFrom, EventsPlaced, ReferencesHold

\* What the property adds up is what the columns do.
LEMMA TankColumns ==
  ASSUME Placed, NEW t
  PROVE  /\ Bought(t) = Total(Amounts(purchases, BoughtOf(t)))
         /\ Drawn(t) = Total(Amounts(fuel_sales, DrawnOf(t)))
         /\ Returned(t) = Total(Amounts(fuel_sales, ReturnedOf(t)))
<1>1. /\ \A i \in 1..Len(fuel_sales) : fuel_sales[i] \in FuelSale
      /\ \A i \in 1..Len(purchases) : purchases[i] \in Purchase
  BY DEF Placed, TablesTyped
<1>2. Amounts(purchases, BoughtOf(t))
        = [i \in 1..Len(purchases) |->
             IF purchases[i].tank_id = t /\ ~purchases[i].is_reversed THEN 1 ELSE 0]
  BY <1>1 DEF Amounts, BoughtOf
<1>3. Amounts(fuel_sales, DrawnOf(t))
        = [i \in 1..Len(fuel_sales) |->
             IF fuel_sales[i].drawn_from = t THEN Quantity(fuel_sales[i]) ELSE 0]
  BY <1>1 DEF Amounts, DrawnOf
<1>4. Amounts(fuel_sales, ReturnedOf(t))
        = [i \in 1..Len(fuel_sales) |->
             IF fuel_sales[i].returned_to = t THEN Quantity(fuel_sales[i]) ELSE 0]
  BY <1>1 DEF Amounts, ReturnedOf
<1> QED BY <1>2, <1>3, <1>4 DEF Bought, Drawn, Returned

LEMMA IInvStock ==
  ASSUME IInv
  PROVE  TankStockExplained
<1>1. ASSUME NEW t \in DOMAIN tanks
      PROVE  tanks[t].current_volume
               = tanks[t].entered + Bought(t) - (Drawn(t) - Returned(t))
  <2>1. Explained(tanks[t], purchases, fuel_sales, t)
    BY DEF IInv, StockExplained
  <2>2. /\ Bought(t) = Total(Amounts(purchases, BoughtOf(t)))
        /\ Drawn(t) = Total(Amounts(fuel_sales, DrawnOf(t)))
        /\ Returned(t) = Total(Amounts(fuel_sales, ReturnedOf(t)))
    BY TankColumns DEF IInv, Sound
  <2>3. /\ Total(Amounts(purchases, BoughtOf(t))) \in Int
        /\ Total(Amounts(fuel_sales, DrawnOf(t))) \in Int
        /\ Total(Amounts(fuel_sales, ReturnedOf(t))) \in Int
    BY NetTyped DEF IInv, Sound, Placed, TablesTyped
  <2>4. tanks[t].entered \in Int
    BY DEF IInv, Sound, Placed, TablesTyped, Tank
  <2> QED BY <2>1, <2>2, <2>3, <2>4 DEF Explained, Net
<1>2. \A i \in 1..Len(fuel_sales) : ReturnedTo(fuel_sales[i])
  BY DEF IInv, Sound, Placed, SalesPlaced
<1> QED BY <1>1, <1>2 DEF TankStockExplained, ReturnedTo

LEMMA IInvPollable ==
  ASSUME IInv
  PROVE  DevicesPollable
<1>1. \A d \in DOMAIN devices : devices[d] \in Device /\ DeviceFits(devices[d])
  BY DEF IInv, Sound, Placed, TablesTyped, DevicesFit
<1> QED BY <1>1, FittingDeviceAnswers DEF DevicesPollable

LEMMA EquipmentInvariant == EquipmentSpec => []IInv
BY EquipmentInitInv, EquipmentNextInv, PTL DEF EquipmentSpec

\* Although no foreign key is enforced, no sequence of creations, edits, deletions,
\* documents and readings leaves a row naming one that is gone, but where update_nozzle
\* (nozzle.py:116) stored what it was given.
THEOREM ReferencesStayInPlace == EquipmentSpec => []ReferencesHold
<1>1. IInv => ReferencesHold
  BY IInvReferences
<1> QED BY <1>1, EquipmentInvariant, PTL

\* What a tank holds is what was entered and bought, less what was drawn and not returned,
\* and fuel is returned to another tank than it was drawn from only after its nozzle was
\* changed or had no tank (fuel_sales.py:158, :176).
THEOREM TankStockIsExplained == EquipmentSpec => []TankStockExplained
<1>1. IInv => TankStockExplained
  BY IInvStock
<1> QED BY <1>1, EquipmentInvariant, PTL

\* Every device in the mode vendor_api can be polled, after any partial updates
\* (hardware.py:161-182).
THEOREM DevicesStayPollable == EquipmentSpec => []DevicesPollable
<1>1. IInv => DevicesPollable
  BY IInvPollable
<1> QED BY <1>1, EquipmentInvariant, PTL

=============================================================================
