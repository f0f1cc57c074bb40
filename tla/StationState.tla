---------------------------- MODULE StationState ----------------------------
(***************************************************************************)
(* The records of one fuel station that several services change: tanks,    *)
(* nozzles, customers and suppliers (ppms/app/models), and the table of    *)
(* fuel sales, which shifts total up.                                      *)
(*                                                                         *)
(* A table is a sequence of rows; a row's id is its position.  Litres,     *)
(* meter readings and money are naturals or integers (the columns are      *)
(* Float).  All users, tanks and parties belong to the station, so the     *)
(* station checks of the handlers pass; handlers are atomic here, because  *)
(* each runs in one database transaction (ConcurrentPostings drops this).  *)
(***************************************************************************)
EXTENDS Integers, Sequences, FiniteSets, Permissions

CONSTANTS
  Tanks, Nozzles, Customers, Suppliers,
  NoCustomer,    \* a sale without a customer_id
  Feeds,         \* [Nozzles -> Tanks], nozzle.tank_id
  Capacity,      \* [Tanks -> Nat], tank.capacity
  OpeningStock,  \* [Tanks -> Nat], current_volume of a newly created tank
  OpeningMeter,  \* [Nozzles -> Nat], meter_reading of a newly created nozzle
  InitialLimit   \* [Customers -> Nat], credit_limit of a newly created customer

ASSUME RecordsAssumption ==
  /\ NoCustomer \notin Customers
  /\ Feeds \in [Nozzles -> Tanks]
  /\ Capacity \in [Tanks -> Nat]
  /\ OpeningStock \in [Tanks -> Nat]
  /\ \A t \in Tanks : OpeningStock[t] <= Capacity[t]
  /\ OpeningMeter \in [Nozzles -> Nat]
  /\ InitialLimit \in [Customers -> Nat]

VARIABLES
  current_volume,   \* [Tanks -> Int]
  nozzle,           \* [Nozzles -> [meter_reading, segment_start]]
  customer,         \* [Customers -> [outstanding_balance, credit_limit, override_...]]
  payable_balance,  \* [Suppliers -> Int]
  sales             \* the fuel_sales table

-----------------------------------------------------------------------------
Nozzle   == [meter_reading : Nat, segment_start : Nat]
OverrideStatuses == {"none", "pending", "approved", "rejected"}
Customer == [outstanding_balance : Int, credit_limit : Nat,
             override_amount : Nat, override_requested : Nat,
             override_status : OverrideStatuses]

StateInit ==
  /\ current_volume = OpeningStock
  /\ nozzle = [n \in Nozzles |-> [meter_reading |-> OpeningMeter[n],
                                  segment_start |-> OpeningMeter[n]]]
  /\ customer = [c \in Customers |->
       [outstanding_balance |-> 0, credit_limit |-> InitialLimit[c],
        override_amount |-> 0, override_requested |-> 0,
        override_status |-> "none"]]
  /\ payable_balance = [s \in Suppliers |-> 0]
  /\ sales = << >>

=============================================================================
