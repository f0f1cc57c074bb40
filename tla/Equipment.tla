------------------------------ MODULE Equipment -----------------------------
(***************************************************************************)
(* The equipment of stations, as its handlers create, edit and delete it:  *)
(* fuel types, tanks, dispensers and nozzles (api/fuel_type.py, tank.py,   *)
(* dispenser.py, nozzle.py).                                               *)
(*                                                                         *)
(* A table is a function from ids in use to rows. SQLite gives a new row   *)
(* the id after the largest in use, so that the id of a deleted row may    *)
(* come back; foreign keys are not enforced (core/database.py). Whoever    *)
(* acts may act on the station (Admin or Manager); codes and names are     *)
(* taken to be new, as those handlers refuse one that is not.              *)
(***************************************************************************)
EXTENDS Integers, Sequences, FiniteSetsExt

CONSTANTS
  Stations,
  MaxFuelTypes, MaxTanks, MaxDispensers, MaxNozzles,   \* the ids that are reached
  Capacities,                                          \* of tanks, as entered
  Volumes,                                             \* of tanks, as entered
  Meters                                               \* readings of nozzles

NoId == 0

FuelTypeIds  == 1..MaxFuelTypes
TankIds      == 1..MaxTanks
DispenserIds == 1..MaxDispensers
NozzleIds    == 1..MaxNozzles

ASSUME EquipmentAssumption ==
  /\ MaxFuelTypes \in Nat \ {0} /\ MaxTanks \in Nat \ {0}
  /\ MaxDispensers \in Nat \ {0} /\ MaxNozzles \in Nat \ {0}
  /\ Capacities \subseteq Nat /\ Volumes \subseteq Nat /\ Meters \subseteq Nat

VARIABLES
  fuel_types,    \* the ids in use
  tanks,         \* id -> Tank
  dispensers,    \* id -> its station
  nozzles,       \* id -> Nozzle
  fuel_sales,    \* the sales, oldest first
  purchases,     \* the approved purchases, oldest first
  tank_dips      \* the tanks that have been dipped

setupVars    == <<fuel_types, tanks, dispensers, nozzles>>
documentVars == <<fuel_sales, purchases, tank_dips>>

\* entered: what creation, edits and dips account for in the volume.
Tank ==
  [station_id : Stations, fuel_type_id : FuelTypeIds, capacity : Nat,
   current_volume : Int, entered : Int]

\* edited: update_nozzle has been used on it.
Nozzle ==
  [dispenser_id : DispenserIds, tank_id : TankIds, fuel_type_id : FuelTypeIds,
   meter_reading : Nat, edited : BOOLEAN]

\* drawn_from and returned_to: the tank whose volume the sale and its reversal changed,
\* NoId if none or deleted since. repointed: its nozzle was given another tank, or
\* deleted, after the sale.
FuelSale ==
  [nozzle_id : NozzleIds, fuel_type_id : FuelTypeIds, opening_meter : Nat,
   closing_meter : Nat, is_reversed : BOOLEAN, drawn_from : TankIds \cup {NoId},
   returned_to : TankIds \cup {NoId}, repointed : BOOLEAN]

Purchase == [tank_id : TankIds, fuel_type_id : FuelTypeIds, is_reversed : BOOLEAN]

-----------------------------------------------------------------------------
NextId(table) == IF DOMAIN table = {} THEN 1 ELSE Max(DOMAIN table) + 1

Added(table, id, row) ==
  [i \in DOMAIN table \cup {id} |-> IF i = id THEN row ELSE table[i]]

Removed(table, id) == [i \in DOMAIN table \ {id} |-> table[i]]

PurchasesInto(t) == {i \in 1..Len(purchases) : purchases[i].tank_id = t}

CreateFuelType ==
  LET f == IF fuel_types = {} THEN 1 ELSE Max(fuel_types) + 1 IN
  /\ f \in FuelTypeIds
  /\ fuel_types' = fuel_types \cup {f}
  /\ UNCHANGED <<tanks, dispensers, nozzles, documentVars>>

\* Slip: the nozzles of the fuel are not looked for.
FuelInUseSlip(f) ==
  \/ \E t \in DOMAIN tanks : tanks[t].fuel_type_id = f
  \/ \E i \in 1..Len(purchases) : purchases[i].fuel_type_id = f
FuelInUse(f) ==
  \/ \E t \in DOMAIN tanks : tanks[t].fuel_type_id = f
  \/ \E n \in DOMAIN nozzles : nozzles[n].fuel_type_id = f
  \/ \E i \in 1..Len(purchases) : purchases[i].fuel_type_id = f

DeleteFuelType(f) ==
  /\ ~FuelInUse(f)
  /\ fuel_types' = fuel_types \ {f}
  /\ UNCHANGED <<tanks, dispensers, nozzles, documentVars>>

CreateTank(s, f, capacity, volume) ==
  LET t == NextId(tanks) IN
  /\ t \in TankIds
  /\ f \in fuel_types
  /\ tanks' = Added(tanks, t,
       [station_id |-> s, fuel_type_id |-> f, capacity |-> capacity,
        current_volume |-> volume, entered |-> volume])
  /\ UNCHANGED <<fuel_types, dispensers, nozzles, documentVars>>

\* A tank whose volume is set, whatever it held.
SetVolume(tank, volume) ==
  [tank EXCEPT !.current_volume = volume,
               !.entered = tank.entered + (volume - tank.current_volume)]

\* Neither the documents nor the capacity are compared with what is entered.
UpdateTank(t, capacity, volume) ==
  /\ tanks' = [tanks EXCEPT ![t] = [SetVolume(tanks[t], volume) EXCEPT !.capacity = capacity]]
  /\ UNCHANGED <<fuel_types, dispensers, nozzles, documentVars>>

TankInUse(t) ==
  \/ \E n \in DOMAIN nozzles : nozzles[n].tank_id = t
  \/ PurchasesInto(t) # {}
  \/ t \in tank_dips

\* The sales that were drawn from it do not keep it.
DeleteTank(t) ==
  /\ ~TankInUse(t)
  /\ tanks' = Removed(tanks, t)
  /\ fuel_sales' = [i \in 1..Len(fuel_sales) |->
       [fuel_sales[i] EXCEPT !.drawn_from  = IF @ = t THEN NoId ELSE @,
                             !.returned_to = IF @ = t THEN NoId ELSE @]]
  /\ UNCHANGED <<fuel_types, dispensers, nozzles, purchases, tank_dips>>

CreateDispenser(s) ==
  LET d == NextId(dispensers) IN
  /\ d \in DispenserIds
  /\ dispensers' = Added(dispensers, d, s)
  /\ UNCHANGED <<fuel_types, tanks, nozzles, documentVars>>

\* The mapper clears the column dispenser_id of its nozzles, which may not be empty.
DeleteDispenser(d) ==
  /\ \A n \in DOMAIN nozzles : nozzles[n].dispenser_id # d
  /\ dispensers' = Removed(dispensers, d)
  /\ UNCHANGED <<fuel_types, tanks, nozzles, documentVars>>

\* That the tank is at the station, and holds the fuel, is not asked.
CreateNozzle(d, t, f, reading) ==
  LET n == NextId(nozzles) IN
  /\ n \in NozzleIds
  /\ d \in DOMAIN dispensers
  /\ t \in DOMAIN tanks
  /\ f \in fuel_types
  /\ nozzles' = Added(nozzles, n,
       [dispenser_id |-> d, tank_id |-> t, fuel_type_id |-> f, meter_reading |-> reading,
        edited |-> FALSE])
  /\ UNCHANGED <<fuel_types, tanks, dispensers, documentVars>>

\* The sales of a nozzle that no longer is what it was.
Repointed(n) ==
  [i \in 1..Len(fuel_sales) |->
     IF fuel_sales[i].nozzle_id = n
     THEN [fuel_sales[i] EXCEPT !.repointed = TRUE] ELSE fuel_sales[i]]

\* The tank and the fuel type are stored as given, those that do not exist included.
UpdateNozzle(n, t, f) ==
  /\ nozzles' = [nozzles EXCEPT ![n].tank_id = t, ![n].fuel_type_id = f,
                               ![n].edited = TRUE]
  /\ fuel_sales' = IF t = nozzles[n].tank_id THEN fuel_sales ELSE Repointed(n)
  /\ UNCHANGED <<fuel_types, tanks, dispensers, purchases, tank_dips>>

\* The sales of a nozzle do not keep it.
DeleteNozzle(n) ==
  /\ nozzles' = Removed(nozzles, n)
  /\ fuel_sales' = Repointed(n)
  /\ UNCHANGED <<fuel_types, tanks, dispensers, purchases, tank_dips>>

-----------------------------------------------------------------------------
EquipmentNext ==
  \/ CreateFuelType
  \/ \E f \in fuel_types : DeleteFuelType(f)
  \/ \E s \in Stations, f \in fuel_types, capacity \in Capacities, volume \in Volumes :
       CreateTank(s, f, capacity, volume)
  \/ \E t \in DOMAIN tanks :
       \/ \E capacity \in Capacities, volume \in Volumes : UpdateTank(t, capacity, volume)
       \/ DeleteTank(t)
  \/ \E s \in Stations : CreateDispenser(s)
  \/ \E d \in DOMAIN dispensers : DeleteDispenser(d)
  \/ \E d \in DOMAIN dispensers, t \in DOMAIN tanks, f \in fuel_types, reading \in Meters :
       CreateNozzle(d, t, f, reading)
  \/ \E n \in DOMAIN nozzles :
       \/ \E t \in TankIds, f \in FuelTypeIds : UpdateNozzle(n, t, f)
       \/ DeleteNozzle(n)

=============================================================================
