------------------------- MODULE ConcurrentClosings -------------------------
(***************************************************************************)
(* Requests that close what other requests still add to: a shift gathers   *)
(* sales until close_shift sums them (services/shifts.py), a trip gathers  *)
(* deliveries until complete_trip posts them as a purchase                 *)
(* (services/tanker_ops.py).  A request makes its checks on what it reads  *)
(* and writes at the end, whatever was committed in between; from its      *)
(* first flush to its commit it holds the write lock (see                  *)
(* ConcurrentPostings), so its writes are one step.                        *)
(*                                                                         *)
(* A request is overtaken if what it read has changed when it commits.     *)
(* Every sale amounts to 1, so a total is a number of sales.  There is one *)
(* trip, to the station; the tank it unloads into is in                    *)
(* ConcurrentPostings.                                                     *)
(***************************************************************************)
EXTENDS Totals, FiniteSets, TLC

CONSTANTS
  Threads, Idle,      \* the threads of the pool; no request
  Users,              \* who opens shifts
  Quantities,         \* of deliveries
  MaxShifts, MaxSales, MaxDeliveries,
  MaxTripPurchases    \* bounds: rows of the tables

ASSUME ClosingsAssumption ==
  /\ Quantities \subseteq Nat \ {0}
  /\ {MaxShifts, MaxSales, MaxDeliveries, MaxTripPurchases} \subseteq Nat

VARIABLES
  shifts,
  sales,            \* the sales that were posted to a shift
  trip,
  deliveries,       \* quantities of the trip's deliveries
  trip_purchases,   \* quantities of the purchases that completing it has posted
  inflight          \* thread -> the request that has made its checks, or Idle

forecourt == <<shifts, sales>>
haulage   == <<trip, deliveries, trip_purchases>>
vars      == <<forecourt, haulage, inflight>>

\* History: doubled and overtaken mark what an overtaken request has committed.
ShiftRow == [user : Users, open : BOOLEAN, total : Nat, doubled : BOOLEAN, overtaken : BOOLEAN]

\* History: after_close marks sales that were reversed when their shift was closed.
SaleRow == [shift : Nat \ {0}, is_reversed : BOOLEAN, after_close : BOOLEAN]

TripRow == [completed : BOOLEAN, total_quantity : Nat, overtaken : BOOLEAN]

-----------------------------------------------------------------------------
Begin(t, request) ==
  /\ inflight[t] = Idle
  /\ inflight' = [inflight EXCEPT ![t] = request]
  /\ UNCHANGED <<forecourt, haulage>>

Continue(t, request) ==
  /\ inflight' = [inflight EXCEPT ![t] = request]
  /\ UNCHANGED <<forecourt, haulage>>

Pending(t, kind) == inflight[t] # Idle /\ inflight[t].kind = kind

Done(t) == inflight' = [inflight EXCEPT ![t] = Idle]

\* A refusal, an error or the death of the process: the session rolls back.
Abandon(t) ==
  /\ inflight[t] # Idle
  /\ Done(t)
  /\ UNCHANGED <<forecourt, haulage>>

-----------------------------------------------------------------------------
\* Shifts.

OpenShiftsOf(u) == {k \in 1..Len(shifts) : shifts[k].user = u /\ shifts[k].open}
SalesOf(k)      == {i \in 1..Len(sales) : sales[i].shift = k}

MayOpen(u) == OpenShiftsOf(u) = {}

\* create_shift looks for an open shift of the user ...
StartShift(t, u) ==
  /\ MayOpen(u)
  /\ Begin(t, [kind |-> "shift", user |-> u, seen |-> OpenShiftsOf(u)])

\* ... and inserts the new one; no constraint keeps two of them apart.
InsertShift(t) ==
  /\ Pending(t, "shift")
  /\ Len(shifts) < MaxShifts
  /\ LET r == inflight[t] IN
       shifts' = Append(shifts,
         [user |-> r.user, open |-> TRUE, total |-> 0,
          doubled |-> OpenShiftsOf(r.user) # r.seen, overtaken |-> FALSE])
  /\ Done(t)
  /\ UNCHANGED <<sales, haulage>>

\* A sale names an open shift, or is posted to an open one of its user
\* (fuel_sales.py:34-50) ...
StartSale(t, k) ==
  /\ shifts[k].open
  /\ Begin(t, [kind |-> "sale", shift |-> k, seen |-> shifts[k].open])

\* ... whose status is not looked at again.
InsertSale(t) ==
  /\ Pending(t, "sale")
  /\ Len(sales) < MaxSales
  /\ LET r == inflight[t] IN
       /\ sales' = Append(sales,
            [shift |-> r.shift, is_reversed |-> FALSE, after_close |-> FALSE])
       /\ shifts' = [shifts EXCEPT ![r.shift].overtaken =
                       @ \/ shifts[r.shift].open # r.seen]
  /\ Done(t)
  /\ UNCHANGED haulage

\* What reverse_fuel_sale reads and refuses is in ConcurrentPostings.
ReverseSale(i) ==
  /\ ~sales[i].is_reversed
  /\ sales' = [sales EXCEPT ![i] = [@ EXCEPT
       !.is_reversed = TRUE, !.after_close = ~shifts[sales[i].shift].open]]
  /\ UNCHANGED <<shifts, haulage, inflight>>

\* The handler selects the shift, whose state close_shift checks, ...
StartClose(t, k) ==
  /\ shifts[k].open
  /\ Begin(t, [kind |-> "close", shift |-> k, seen |-> shifts[k]])

\* Slip: reversed sales count as well.
StandingSlip(k) == SalesOf(k)
Standing(k) == {i \in SalesOf(k) : ~sales[i].is_reversed}

\* ... then the sales it sums, ...
SumShift(t) ==
  /\ Pending(t, "close")
  /\ Continue(t, [kind |-> "summed", shift |-> inflight[t].shift, seen |-> inflight[t].seen,
                  standing |-> Standing(inflight[t].shift)])

\* ... and writes; a column that keeps the value it was loaded with is not written.
CommitClose(t) ==
  /\ Pending(t, "summed")
  /\ LET r   == inflight[t]
         sum == Cardinality(r.standing)
         row == shifts[r.shift]
     IN  shifts' = [shifts EXCEPT ![r.shift] = [row EXCEPT
           !.open = FALSE,
           !.total = IF sum = r.seen.total THEN @ ELSE sum,
           !.overtaken = @ \/ row # r.seen \/ Standing(r.shift) # r.standing]]
  /\ Done(t)
  /\ UNCHANGED <<sales, haulage>>

-----------------------------------------------------------------------------
\* The trip.

\* The handler selects the trip, whose status add_trip_delivery checks ...
StartDelivery(t, quantity) ==
  /\ ~trip.completed
  /\ Begin(t, [kind |-> "delivery", quantity |-> quantity, seen |-> trip.completed])

\* ... before it inserts the row and computes the trip's totals anew of all there are.
InsertDelivery(t) ==
  /\ Pending(t, "delivery")
  /\ Len(deliveries) < MaxDeliveries
  /\ deliveries' = Append(deliveries, inflight[t].quantity)
  /\ trip' = [trip EXCEPT !.total_quantity = Total(deliveries'),
                          !.overtaken = @ \/ trip.completed # inflight[t].seen]
  /\ Done(t)
  /\ UNCHANGED <<forecourt, trip_purchases>>

\* Slip: a trip can be completed again.
MayCompleteAgain(row) == TRUE
MayComplete(row) == ~row.completed

\* The handler selects the trip, complete_trip checks its status, ...
StartCompletion(t) ==
  /\ MayComplete(trip)
  /\ Begin(t, [kind |-> "complete", seen |-> trip])

\* ... loads the deliveries, which must not be none, ...
LoadDeliveries(t) ==
  /\ Pending(t, "complete")
  /\ deliveries # << >>
  /\ Continue(t, [kind |-> "loaded", seen |-> inflight[t].seen, deliveries |-> deliveries])

\* ... and posts their sum; the trip's own total is written if it has changed.
CommitCompletion(t) ==
  /\ Pending(t, "loaded")
  /\ Len(trip_purchases) < MaxTripPurchases
  /\ LET r   == inflight[t]
         sum == Total(r.deliveries)
     IN  /\ trip_purchases' = Append(trip_purchases, sum)
         /\ trip' = [trip EXCEPT
              !.completed = TRUE,
              !.total_quantity = IF sum = r.seen.total_quantity THEN @ ELSE sum,
              !.overtaken = @ \/ trip # r.seen \/ deliveries # r.deliveries]
  /\ Done(t)
  /\ UNCHANGED <<forecourt, deliveries>>

-----------------------------------------------------------------------------
Init ==
  /\ shifts = << >> /\ sales = << >>
  /\ trip = [completed |-> FALSE, total_quantity |-> 0, overtaken |-> FALSE]
  /\ deliveries = << >> /\ trip_purchases = << >>
  /\ inflight = [t \in Threads |-> Idle]

ShiftNext(t) ==
  \/ \E u \in Users : StartShift(t, u)
  \/ \E k \in 1..Len(shifts) : StartSale(t, k) \/ StartClose(t, k)
  \/ InsertShift(t) \/ InsertSale(t) \/ SumShift(t) \/ CommitClose(t)

TripNext(t) ==
  \/ \E quantity \in Quantities : StartDelivery(t, quantity)
  \/ StartCompletion(t)
  \/ InsertDelivery(t) \/ LoadDeliveries(t) \/ CommitCompletion(t)

Next ==
  \/ \E t \in Threads : ShiftNext(t) \/ TripNext(t) \/ Abandon(t)
  \/ \E i \in 1..Len(sales) : ReverseSale(i)

Spec == Init /\ [][Next]_vars

-----------------------------------------------------------------------------
\* Type invariant, as far as the tables go.
ClosingsTypeOK ==
  /\ shifts \in Seq(ShiftRow) /\ sales \in Seq(SaleRow)
  /\ trip \in TripRow /\ deliveries \in Seq(Quantities) /\ trip_purchases \in Seq(Nat)
  /\ \A i \in 1..Len(sales) : sales[i].shift \in 1..Len(shifts)

\* Of the open shifts of a user, one at most was opened without being overtaken.
OneShiftUnlessDoubled ==
  \A u \in Users : Cardinality({k \in OpenShiftsOf(u) : ~shifts[k].doubled}) <= 1

Counted(k) == {i \in SalesOf(k) : ~sales[i].is_reversed \/ sales[i].after_close}

\* A user has one open shift, unless two requests to open one overlapped: both find
\* none (shifts.py:18-24), and both are inserted.  A closed shift shows the sales that
\* stood when it was closed, unless a sale, a reversal or a second closing came
\* between what the closing (or the sale) read and what it wrote (:62-75).  Even then
\* it never shows more than was ever posted to it.
ShiftsKeptRight ==
  /\ ClosingsTypeOK
  /\ OneShiftUnlessDoubled
  /\ \A k \in 1..Len(shifts) :
       /\ ~shifts[k].open /\ ~shifts[k].overtaken => shifts[k].total = Cardinality(Counted(k))
       /\ shifts[k].total <= Cardinality(SalesOf(k))

\* A completed trip has posted one purchase, of all its deliveries, unless a delivery
\* or a second completion overlapped the one that completed it: then litres are
\* missing or posted twice (tanker_ops.py:238-279).  Even then no purchase is of
\* more than what was delivered, and none is posted before completion.
TripsPostOnce ==
  /\ trip.completed /\ ~trip.overtaken =>
       /\ trip_purchases = <<Total(deliveries)>>
       /\ trip.total_quantity = Total(deliveries)
  /\ trip.completed <=> trip_purchases # << >>
  /\ \A i \in 1..Len(trip_purchases) : trip_purchases[i] \in 1..Total(deliveries)

-----------------------------------------------------------------------------
\* For TLC.
Alike == Permutations(Threads) \cup Permutations(Users)

=============================================================================
