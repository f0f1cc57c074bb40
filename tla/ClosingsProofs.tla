---------------------------- MODULE ClosingsProofs ----------------------------
(***************************************************************************)
(* Closing a shift and completing a trip while other requests still add to *)
(* them.  The two halves of the model share only the threads, so there is  *)
(* one inductive invariant for what the requests in flight carry, and one  *)
(* for each half.                                                          *)
(***************************************************************************)
EXTENDS ConcurrentClosings, TotalsProofs, FiniteSetTheorems

\* What a request that has made its checks still holds.
HeldShift(r) ==
  /\ r.shift \in 1..Len(shifts)
  /\ r.seen \in ShiftRow /\ r.seen.open

Holds(r) ==
  /\ r.kind = "shift"    => r.user \in Users /\ r.seen = {}
  /\ r.kind = "sale"     => r.shift \in 1..Len(shifts) /\ r.seen = TRUE
  /\ r.kind = "close"    => HeldShift(r)
  /\ r.kind = "summed"   => HeldShift(r) /\ r.standing \subseteq SalesOf(r.shift)
  /\ r.kind = "delivery" => r.quantity \in Quantities /\ r.seen = FALSE
  /\ r.kind = "complete" => r.seen \in TripRow /\ ~r.seen.completed
  /\ r.kind = "loaded"   => /\ r.seen \in TripRow /\ ~r.seen.completed
                            /\ Total(r.deliveries) \in 1..Total(deliveries)

\* The half of the deliveries.
TripInv ==
  /\ trip \in TripRow /\ deliveries \in Seq(Quantities) /\ trip_purchases \in Seq(Nat)
  /\ deliveries # << >> => Total(deliveries) >= 1
  /\ TripsPostOnce

\* The half of the shifts: while a shift is open nothing is counted in it yet, and
\* no sale of it was reversed after its closing.
ShiftInv ==
  /\ shifts \in Seq(ShiftRow) /\ sales \in Seq(SaleRow)
  /\ \A i \in 1..Len(sales) :
       /\ sales[i].shift \in 1..Len(shifts)
       /\ sales[i].after_close => ~shifts[sales[i].shift].open
  /\ \A u \in Users : \A j, k \in OpenShiftsOf(u) :
       ~shifts[j].doubled /\ ~shifts[k].doubled => j = k
  /\ \A k \in 1..Len(shifts) :
       /\ shifts[k].open => shifts[k].total = 0
       /\ ~shifts[k].open /\ ~shifts[k].overtaken => shifts[k].total = Cardinality(Counted(k))
       /\ shifts[k].total <= Cardinality(SalesOf(k))

\* The inductive invariant.
Inv ==
  /\ TripInv
  /\ ShiftInv
  /\ DOMAIN inflight = Threads
  /\ \A t \in Threads : inflight[t] # Idle => Holds(inflight[t])

-----------------------------------------------------------------------------
\* Sales are never taken from a shift, nor deliveries from the trip, so what a
\* request holds it keeps.
Grows ==
  /\ Len(shifts) <= Len(shifts')
  /\ \A k \in 1..Len(shifts) : SalesOf(k) \subseteq SalesOf(k)'
  /\ Total(deliveries) <= Total(deliveries')

LEMMA DeliveriesTyped ==
  ASSUME deliveries \in Seq(Quantities)
  PROVE  deliveries \in Seq(Int) /\ Total(deliveries) \in Nat
<1>1. \A q \in Quantities : q \in Nat
  BY ClosingsAssumption
<1>2. deliveries \in Seq(Nat) /\ deliveries \in Seq(Int)
  BY <1>1
<1> QED BY <1>2, TotalNatural

LEMMA HoldsKept ==
  ASSUME Inv, Len(shifts') \in Nat, Total(deliveries') \in Nat, Grows, NEW r, Holds(r)
  PROVE  Holds(r)'
<1>1. Len(shifts) \in Nat
  BY DEF Inv, ShiftInv
<1>2. r.shift \in 1..Len(shifts) =>
        r.shift \in 1..Len(shifts') /\ SalesOf(r.shift) \subseteq SalesOf(r.shift)'
  BY <1>1 DEF Grows
<1>3. HeldShift(r) => HeldShift(r)'
  BY <1>2 DEF HeldShift
<1>4. Total(deliveries) \in Nat
  BY DeliveriesTyped DEF Inv, TripInv
<1>5. Total(r.deliveries) \in 1..Total(deliveries) => Total(r.deliveries) \in 1..Total(deliveries')
  BY <1>4 DEF Grows
<1> QED BY <1>2, <1>3, <1>5 DEF Holds, HeldShift

\* A thread that takes up or drops a request leaves those of the others alone.
LEMMA InflightKept ==
  ASSUME Inv, TripInv', ShiftInv', Grows, NEW t \in Threads, NEW x, x = Idle \/ Holds(x),
         inflight' = [inflight EXCEPT ![t] = x]
  PROVE  Inv'
<1>1. Len(shifts') \in Nat /\ Total(deliveries') \in Nat
  <2>1. (deliveries \in Seq(Quantities))'
    BY DEF TripInv
  <2>2. (deliveries \in Seq(Int) /\ Total(deliveries) \in Nat)'
    BY <2>1, DeliveriesTyped, PTL
  <2> QED BY <2>2 DEF ShiftInv
<1>2. DOMAIN inflight' = Threads
  BY DEF Inv
<1>3. ASSUME NEW v \in Threads, (inflight[v] # Idle)' PROVE Holds(inflight[v])'
  <2>1. PICK r : r = inflight'[v]
    OBVIOUS
  <2>2. Holds(r)
    <3>1. CASE v = t
      BY <1>3, <2>1, <3>1 DEF Inv
    <3>2. CASE v # t
      BY <1>3, <2>1, <3>2 DEF Inv
    <3> QED BY <3>1, <3>2
  <2>3. Holds(r)'
    BY <1>1, <2>2, HoldsKept
  <2> QED BY <2>1, <2>3 DEF Holds, HeldShift
<1> QED BY <1>2, <1>3 DEF Inv

\* The same of a request that just made its checks, or looked further, and wrote nothing.
LEMMA BeginInv ==
  ASSUME Inv, NEW t \in Threads, NEW x, Holds(x),
         inflight' = [inflight EXCEPT ![t] = x], UNCHANGED <<forecourt, haulage>>
  PROVE  Inv'
<1>1. UNCHANGED <<shifts, sales, trip, deliveries, trip_purchases>>
  BY DEF forecourt, haulage
<1>2. TripInv'
  BY <1>1 DEF Inv, TripInv, TripsPostOnce
<1>3. ShiftInv'
  BY <1>1 DEF Inv, ShiftInv, OpenShiftsOf, Counted, SalesOf
<1>4. Grows
  <2>1. Len(shifts) \in Nat /\ Total(deliveries) \in Nat
    BY DeliveriesTyped DEF Inv, ShiftInv, TripInv
  <2> QED BY <1>1, <2>1 DEF Grows, SalesOf
<1> QED BY <1>2, <1>3, <1>4, InflightKept

\* A change of one half, by a request that is then done.
LEMMA TripGrows ==
  ASSUME Inv, TripInv', UNCHANGED forecourt, Total(deliveries) <= Total(deliveries'),
         NEW t \in Threads, Done(t)
  PROVE  Inv'
<1>1. UNCHANGED <<shifts, sales>>
  BY DEF forecourt
<1>2. ShiftInv'
  BY <1>1 DEF Inv, ShiftInv, OpenShiftsOf, Counted, SalesOf
<1>3. Grows
  <2>1. Len(shifts) \in Nat
    BY DEF Inv, ShiftInv
  <2> QED BY <1>1, <2>1 DEF Grows, SalesOf
<1> QED BY <1>2, <1>3, InflightKept DEF Done

LEMMA ShiftGrows ==
  ASSUME Inv, ShiftInv', UNCHANGED haulage, Len(shifts) <= Len(shifts'),
         \A k \in 1..Len(shifts) : SalesOf(k) \subseteq SalesOf(k)',
         NEW t \in Threads, Done(t)
  PROVE  Inv'
<1>1. UNCHANGED <<trip, deliveries, trip_purchases>>
  BY DEF haulage
<1>2. TripInv'
  BY <1>1 DEF Inv, TripInv, TripsPostOnce
<1>3. Grows
  <2>1. Total(deliveries) \in Nat
    BY DeliveriesTyped DEF Inv, TripInv
  <2> QED BY <1>1, <2>1 DEF Grows
<1> QED BY <1>2, <1>3, InflightKept DEF Done

-----------------------------------------------------------------------------
\* A delivery adds its quantity to what the trip has delivered.
LEMMA InsertDeliveryInv ==
  ASSUME Inv, NEW t \in Threads, InsertDelivery(t)
  PROVE  Inv'
<1>1. PICK q : q = inflight[t].quantity
  OBVIOUS
<1>2. /\ q \in Quantities /\ q \in Nat /\ q >= 1 /\ inflight[t].seen = FALSE
      /\ deliveries' = Append(deliveries, q) /\ Done(t) /\ UNCHANGED <<forecourt, trip_purchases>>
      /\ trip' = [trip EXCEPT !.total_quantity = Total(deliveries'),
                              !.overtaken = @ \/ trip.completed # inflight[t].seen]
  <2>1. inflight[t] # Idle /\ inflight[t].kind = "delivery"
    BY DEF InsertDelivery, Pending
  <2>2. q \in Quantities /\ inflight[t].seen = FALSE
    BY <1>1, <2>1 DEF Inv, Holds
  <2>3. q \in Nat /\ q >= 1
    BY <2>2, ClosingsAssumption
  <2> QED BY <1>1, <2>2, <2>3 DEF InsertDelivery
<1>3. TripInv
  BY DEF Inv
<1>4. /\ deliveries \in Seq(Int) /\ deliveries' \in Seq(Int) /\ deliveries' \in Seq(Quantities)
      /\ Total(deliveries) \in Nat /\ Total(deliveries') = Total(deliveries) + q
  <2>1. deliveries \in Seq(Quantities) /\ deliveries' \in Seq(Quantities)
    BY <1>2, <1>3 DEF TripInv
  <2>2. deliveries \in Seq(Int) /\ Total(deliveries) \in Nat /\ (deliveries \in Seq(Int))'
    <3>1. (deliveries \in Seq(Quantities))'
      BY <2>1
    <3> QED BY <2>1, <3>1, DeliveriesTyped, PTL
  <2>3. /\ Len(deliveries') = Len(deliveries) + 1 /\ deliveries'[Len(deliveries')] = q
        /\ \A k \in 1..Len(deliveries) : deliveries'[k] = deliveries[k]
    BY <1>2, <2>1
  <2>4. \A other \in Seq(Int) :
          Len(other) = Len(deliveries) + 1 /\ (\A k \in 1..Len(deliveries) : other[k] = deliveries[k])
            => Total(other) = Total(deliveries) + other[Len(other)]
    BY <2>2, TotalAppend
  <2> QED BY <2>1, <2>2, <2>3, <2>4
<1>5. Total(deliveries') \in Nat /\ Total(deliveries') >= 1 /\ Total(deliveries) <= Total(deliveries')
  BY <1>2, <1>4
<1>6. TripInv'
  <2>1. trip' \in TripRow /\ trip'.completed = trip.completed
        /\ (~trip'.overtaken => ~trip.completed)
    <3>1. trip \in TripRow /\ Total(deliveries') \in Nat
      BY <1>3, <1>5 DEF TripInv
    <3> HIDE DEF TripInv
    <3> QED BY <1>2, <3>1 DEF TripRow
  <2>2. \A i \in 1..Len(trip_purchases) : trip_purchases[i] \in 1..Total(deliveries')
    BY <1>3, <1>4, <1>5 DEF TripInv, TripsPostOnce
  <2> QED BY <1>2, <1>3, <1>4, <1>5, <2>1, <2>2 DEF TripInv, TripsPostOnce
<1> QED BY <1>2, <1>5, <1>6, TripGrows

\* A completion posts what it has loaded.
LEMMA CommitCompletionInv ==
  ASSUME Inv, NEW t \in Threads, CommitCompletion(t)
  PROVE  Inv'
<1>1. PICK r, sum : r = inflight[t] /\ sum = Total(r.deliveries)
  OBVIOUS
<1>2. /\ r.seen \in TripRow /\ ~r.seen.completed /\ sum \in 1..Total(deliveries)
      /\ trip_purchases' = Append(trip_purchases, sum)
      /\ trip' = [trip EXCEPT
           !.completed = TRUE,
           !.total_quantity = IF sum = r.seen.total_quantity THEN @ ELSE sum,
           !.overtaken = @ \/ trip # r.seen \/ deliveries # r.deliveries]
      /\ Done(t) /\ UNCHANGED <<forecourt, deliveries>>
  BY <1>1 DEF CommitCompletion, Pending, Inv, Holds
<1>3. TripInv /\ Total(deliveries) \in Nat
  BY DeliveriesTyped DEF Inv, TripInv
<1>4. /\ trip' \in TripRow /\ trip'.completed
      /\ ~trip'.overtaken => /\ trip = r.seen /\ deliveries = r.deliveries
                             /\ trip'.total_quantity = sum
  <2>1. trip \in TripRow /\ sum \in Nat
    BY <1>2, <1>3 DEF TripInv
  <2>2. trip'.completed /\ trip'.overtaken = (trip.overtaken \/ trip # r.seen \/ deliveries # r.deliveries)
        /\ trip'.total_quantity = IF sum = r.seen.total_quantity THEN trip.total_quantity ELSE sum
    BY <1>2, <2>1 DEF TripRow
  <2>3. trip' \in TripRow
    BY <1>2, <2>1 DEF TripRow
  <2> QED BY <2>2, <2>3
<1>5. trip_purchases' \in Seq(Nat) /\ trip_purchases' # << >>
      /\ \A i \in 1..Len(trip_purchases') : trip_purchases'[i] \in 1..Total(deliveries)
  <2>1. sum \in Nat /\ trip_purchases \in Seq(Nat)
        /\ \A i \in 1..Len(trip_purchases) : trip_purchases[i] \in 1..Total(deliveries)
    BY <1>2, <1>3 DEF TripInv, TripsPostOnce
  <2> QED BY <1>2, <2>1
<1>6. ~trip'.overtaken => trip_purchases' = <<Total(deliveries)>> /\ trip'.total_quantity = Total(deliveries)
  <2> SUFFICES ASSUME ~trip'.overtaken
               PROVE  trip_purchases' = <<Total(deliveries)>> /\ trip'.total_quantity = Total(deliveries)
    OBVIOUS
  <2>1. ~trip.completed /\ sum = Total(deliveries) /\ trip'.total_quantity = sum
    BY <1>1, <1>2, <1>4
  <2>2. trip_purchases = << >>
    BY <1>3, <2>1 DEF TripInv, TripsPostOnce
  <2> QED BY <1>2, <2>1, <2>2
<1>7. TripInv'
  BY <1>2, <1>3, <1>4, <1>5, <1>6 DEF TripInv, TripsPostOnce
<1> QED BY <1>2, <1>3, <1>7, TripGrows

\* The operations on the trip.
LEMMA TripNextInv ==
  ASSUME Inv, NEW t \in Threads, TripNext(t)
  PROVE  Inv'
<1>1. ASSUME NEW q \in Quantities, StartDelivery(t, q) PROVE Inv'
  <2>1. PICK x : x = [kind |-> "delivery", quantity |-> q, seen |-> trip.completed]
    OBVIOUS
  <2>2. trip.completed = FALSE
    BY <1>1 DEF StartDelivery, Inv, TripInv, TripRow
  <2>3. Holds(x)
    BY <2>1, <2>2 DEF Holds
  <2> QED BY <1>1, <2>1, <2>3, BeginInv DEF StartDelivery, Begin
<1>2. CASE StartCompletion(t)
  <2>1. PICK x : x = [kind |-> "complete", seen |-> trip]
    OBVIOUS
  <2>2. trip \in TripRow /\ ~trip.completed
    BY <1>2 DEF StartCompletion, MayComplete, Inv, TripInv
  <2>3. Holds(x)
    BY <2>1, <2>2 DEF Holds
  <2> QED BY <1>2, <2>1, <2>3, BeginInv DEF StartCompletion, Begin
<1>3. CASE LoadDeliveries(t)
  <2>1. PICK x : x = [kind |-> "loaded", seen |-> inflight[t].seen, deliveries |-> deliveries]
    OBVIOUS
  <2>2. inflight[t].seen \in TripRow /\ ~inflight[t].seen.completed
    BY <1>3 DEF LoadDeliveries, Pending, Inv, Holds
  <2>3. Total(deliveries) \in 1..Total(deliveries)
    <3>1. Total(deliveries) \in Nat /\ Total(deliveries) >= 1
      BY <1>3, DeliveriesTyped DEF LoadDeliveries, Inv, TripInv
    <3> QED BY <3>1
  <2>4. Holds(x)
    BY <2>1, <2>2, <2>3 DEF Holds
  <2> QED BY <1>3, <2>1, <2>4, BeginInv DEF LoadDeliveries, Continue
<1> QED BY <1>1, <1>2, <1>3, InsertDeliveryInv, CommitCompletionInv DEF TripNext

-----------------------------------------------------------------------------
\* The sales of a shift are finitely many.
LEMMA SalesFinite ==
  ASSUME sales \in Seq(SaleRow), NEW k
  PROVE  /\ IsFiniteSet(SalesOf(k)) /\ Cardinality(SalesOf(k)) \in Nat
         /\ \A S \in SUBSET SalesOf(k) :
              IsFiniteSet(S) /\ Cardinality(S) \in Nat /\ Cardinality(S) <= Cardinality(SalesOf(k))
<1>1. IsFiniteSet(1..Len(sales))
  BY FS_Interval
<1>2. SalesOf(k) \in SUBSET (1..Len(sales))
  BY DEF SalesOf
<1>3. IsFiniteSet(SalesOf(k))
  BY <1>1, <1>2, FS_Subset
<1> QED BY <1>3, FS_Subset, FS_CardinalityType

\* A new shift is counted as its user's only one unless its request was overtaken.
LEMMA InsertShiftInv ==
  ASSUME Inv, NEW t \in Threads, InsertShift(t)
  PROVE  Inv'
<1>1. PICK u : u = inflight[t].user
  OBVIOUS
<1>2. PICK row : row = [user |-> u, open |-> TRUE, total |-> 0,
                        doubled |-> OpenShiftsOf(u) # inflight[t].seen, overtaken |-> FALSE]
  OBVIOUS
<1>3. /\ u \in Users /\ inflight[t].seen = {}
      /\ shifts' = Append(shifts, row) /\ sales' = sales /\ Done(t) /\ UNCHANGED haulage
  BY <1>1, <1>2 DEF InsertShift, Pending, Inv, Holds
<1>4. /\ row \in ShiftRow /\ row.user = u /\ row.open /\ row.total = 0
      /\ ~row.doubled => OpenShiftsOf(u) = {}
  BY <1>2, <1>3 DEF ShiftRow
<1>5. ShiftInv
  BY DEF Inv
<1> DEFINE n == Len(shifts) + 1
<1>6. /\ shifts \in Seq(ShiftRow) /\ shifts' \in Seq(ShiftRow) /\ Len(shifts) \in Nat
      /\ Len(shifts') = n /\ shifts'[n] = row
      /\ \A k \in 1..Len(shifts) : shifts'[k] = shifts[k]
  BY <1>3, <1>4, <1>5 DEF ShiftInv
<1>7. \A k : SalesOf(k)' = SalesOf(k) /\ Counted(k)' = Counted(k)
  BY <1>3 DEF SalesOf, Counted
<1>8. ShiftInv'
  <2>1. \A i \in 1..Len(sales') :
          /\ sales'[i].shift \in 1..Len(shifts')
          /\ sales'[i].after_close => ~shifts'[sales'[i].shift].open
    BY <1>3, <1>5, <1>6 DEF ShiftInv
  <2>2. ASSUME NEW v \in Users, NEW j \in OpenShiftsOf(v)', NEW k \in OpenShiftsOf(v)',
               ~shifts'[j].doubled, ~shifts'[k].doubled
        PROVE  j = k
    <3>1. \A m \in OpenShiftsOf(v)' : m \in OpenShiftsOf(v) \/ (m = n /\ v = u)
      BY <1>4, <1>6 DEF OpenShiftsOf
    <3>2. \A m \in OpenShiftsOf(v) : m \in 1..Len(shifts) /\ shifts'[m] = shifts[m]
      BY <1>6 DEF OpenShiftsOf
    <3>3. CASE j \in OpenShiftsOf(v) /\ k \in OpenShiftsOf(v)
      BY <1>5, <2>2, <3>2, <3>3 DEF ShiftInv
    <3>4. CASE j = n \/ k = n
      <4>1. v = u /\ OpenShiftsOf(u) = {}
        BY <1>4, <1>6, <2>2, <3>1, <3>2, <3>4
      <4> QED BY <3>1, <4>1
    <3> QED BY <3>1, <3>3, <3>4
  <2>3. ASSUME NEW k \in 1..Len(shifts')
        PROVE  /\ shifts'[k].open => shifts'[k].total = 0
               /\ ~shifts'[k].open /\ ~shifts'[k].overtaken =>
                    shifts'[k].total = Cardinality(Counted(k)')
               /\ shifts'[k].total <= Cardinality(SalesOf(k)')
    <3>1. CASE k = n
      <4>1. Cardinality(SalesOf(k)) \in Nat
        BY <1>5, SalesFinite DEF ShiftInv
      <4> QED BY <1>4, <1>6, <1>7, <3>1, <4>1
    <3>2. CASE k # n
      <4>1. k \in 1..Len(shifts) /\ shifts'[k] = shifts[k]
        BY <1>6, <3>2
      <4> QED BY <1>5, <1>7, <4>1 DEF ShiftInv
    <3> QED BY <3>1, <3>2
  <2> QED BY <1>3, <1>5, <1>6, <2>1, <2>2, <2>3 DEF ShiftInv
<1>9. Len(shifts) <= Len(shifts')
  BY <1>6
<1> QED BY <1>3, <1>7, <1>8, <1>9, ShiftGrows

\* A sale is one more of its shift, which is overtaken if it was closed meanwhile.
LEMMA InsertSaleInv ==
  ASSUME Inv, NEW t \in Threads, InsertSale(t)
  PROVE  Inv'
<1>1. PICK h : h = inflight[t].shift
  OBVIOUS
<1>2. PICK sale : sale = [shift |-> h, is_reversed |-> FALSE, after_close |-> FALSE]
  OBVIOUS
<1> DEFINE n == Len(sales) + 1
<1>3. /\ h \in 1..Len(shifts) /\ inflight[t].seen = TRUE
      /\ sales' = Append(sales, sale)
      /\ shifts' = [shifts EXCEPT ![h].overtaken = @ \/ shifts[h].open # inflight[t].seen]
      /\ Done(t) /\ UNCHANGED haulage
  BY <1>1, <1>2 DEF InsertSale, Pending, Inv, Holds
<1>4. ShiftInv
  BY DEF Inv
<1>5. /\ shifts \in Seq(ShiftRow) /\ sales \in Seq(SaleRow)
      /\ Len(shifts) \in Nat /\ Len(sales) \in Nat
  BY <1>4 DEF ShiftInv
<1>6. /\ sale \in SaleRow /\ sale.shift = h /\ ~sale.after_close
      /\ sales' \in Seq(SaleRow) /\ Len(sales') = n /\ sales'[n] = sale
      /\ \A i \in 1..Len(sales) : sales'[i] = sales[i]
  <2>1. sale \in SaleRow /\ sale.shift = h /\ ~sale.after_close
    BY <1>2, <1>3, <1>5 DEF SaleRow
  <2> QED BY <1>3, <1>5, <2>1
<1>7. /\ shifts' \in Seq(ShiftRow) /\ Len(shifts') = Len(shifts)
      /\ \A k \in 1..Len(shifts) :
           /\ k # h => shifts'[k] = shifts[k]
           /\ shifts'[k].user = shifts[k].user /\ shifts'[k].open = shifts[k].open
           /\ shifts'[k].total = shifts[k].total /\ shifts'[k].doubled = shifts[k].doubled
           /\ shifts'[k].overtaken = (shifts[k].overtaken \/ (k = h /\ ~shifts[h].open))
  <2>1. PICK row : row = [shifts[h] EXCEPT !.overtaken = @ \/ shifts[h].open # inflight[t].seen]
    OBVIOUS
  <2>2. shifts[h] \in ShiftRow
    BY <1>3, <1>5
  <2>3. /\ row \in ShiftRow /\ row.user = shifts[h].user /\ row.open = shifts[h].open
        /\ row.total = shifts[h].total /\ row.doubled = shifts[h].doubled
        /\ row.overtaken = (shifts[h].overtaken \/ ~shifts[h].open)
    BY <1>3, <2>1, <2>2 DEF ShiftRow
  <2>4. shifts' = [shifts EXCEPT ![h] = row]
    BY <1>3, <2>1
  <2>5. \A k \in 1..Len(shifts) : shifts[k] \in ShiftRow
    BY <1>5
  <2>6. \A k \in 1..Len(shifts) : shifts[k].overtaken \in BOOLEAN
    BY <2>5 DEF ShiftRow
  <2>7. shifts' \in Seq(ShiftRow) /\ Len(shifts') = Len(shifts) /\ shifts'[h] = row
        /\ \A k \in 1..Len(shifts) : k # h => shifts'[k] = shifts[k]
    <3>1. shifts \in Seq(ShiftRow) /\ h \in 1..Len(shifts) /\ row \in ShiftRow
      BY <1>3, <1>5, <2>3
    <3> QED BY <2>4, <3>1
  <2> QED BY <2>3, <2>6, <2>7
<1>8. \A k : /\ SalesOf(k) \subseteq SalesOf(k)'
             /\ k # h => SalesOf(k)' = SalesOf(k) /\ Counted(k)' = Counted(k)
  BY <1>5, <1>6 DEF SalesOf, Counted
<1>9. \A k : /\ Cardinality(SalesOf(k)) \in Nat /\ Cardinality(SalesOf(k)') \in Nat
             /\ Cardinality(SalesOf(k)) <= Cardinality(SalesOf(k)')
  <2> SUFFICES ASSUME NEW k
               PROVE  /\ Cardinality(SalesOf(k)) \in Nat /\ Cardinality(SalesOf(k)') \in Nat
                      /\ Cardinality(SalesOf(k)) <= Cardinality(SalesOf(k)')
    OBVIOUS
  <2>1. IsFiniteSet(SalesOf(k)')
    <3>1. IsFiniteSet(1..n) /\ SalesOf(k)' \in SUBSET (1..n)
      BY <1>5, <1>6, FS_Interval DEF SalesOf
    <3> QED BY <3>1, FS_Subset
  <2> QED BY <1>8, <2>1, FS_Subset, FS_CardinalityType
<1>10. ShiftInv'
  <2>1. \A i \in 1..Len(sales') :
          /\ sales'[i].shift \in 1..Len(shifts')
          /\ sales'[i].after_close => ~shifts'[sales'[i].shift].open
    <3>1. \A i \in 1..Len(sales') : i = n \/ i \in 1..Len(sales)
      BY <1>5, <1>6
    <3> QED BY <1>3, <1>4, <1>6, <1>7, <3>1 DEF ShiftInv
  <2>2. \A u \in Users : OpenShiftsOf(u)' = OpenShiftsOf(u)
    BY <1>7 DEF OpenShiftsOf
  <2>3. \A u \in Users : \A j, k \in OpenShiftsOf(u)' :
          ~shifts'[j].doubled /\ ~shifts'[k].doubled => j = k
    <3>1. \A u \in Users : \A k \in OpenShiftsOf(u) : shifts'[k].doubled = shifts[k].doubled
      BY <1>7 DEF OpenShiftsOf
    <3> QED BY <1>4, <2>2, <3>1 DEF ShiftInv
  <2>4. ASSUME NEW k \in 1..Len(shifts')
        PROVE  /\ shifts'[k].open => shifts'[k].total = 0
               /\ ~shifts'[k].open /\ ~shifts'[k].overtaken =>
                    shifts'[k].total = Cardinality(Counted(k)')
               /\ shifts'[k].total <= Cardinality(SalesOf(k)')
    <3>1. k \in 1..Len(shifts) /\ shifts[k].total \in Nat
      <4>1. k \in 1..Len(shifts) /\ shifts[k] \in ShiftRow
        BY <1>5, <1>7
      <4> QED BY <4>1 DEF ShiftRow
    <3>2. /\ shifts[k].open => shifts[k].total = 0
          /\ ~shifts[k].open /\ ~shifts[k].overtaken => shifts[k].total = Cardinality(Counted(k))
          /\ shifts[k].total <= Cardinality(SalesOf(k))
      BY <1>4, <3>1 DEF ShiftInv
    <3>3. shifts'[k].total <= Cardinality(SalesOf(k)')
      BY <1>7, <1>9, <3>1, <3>2
    <3>4. shifts'[k].open => shifts'[k].total = 0
      BY <1>7, <3>1, <3>2
    <3>5. ~shifts'[k].open /\ ~shifts'[k].overtaken => shifts'[k].total = Cardinality(Counted(k)')
      <4> SUFFICES ASSUME ~shifts'[k].open, ~shifts'[k].overtaken
                   PROVE  shifts'[k].total = Cardinality(Counted(k)')
        OBVIOUS
      <4>1. ~shifts[k].open /\ ~shifts[k].overtaken /\ k # h /\ shifts'[k].total = shifts[k].total
        BY <1>7, <3>1
      <4> QED BY <1>8, <3>2, <4>1
    <3> QED BY <3>3, <3>4, <3>5
  <2> QED BY <1>6, <1>7, <2>1, <2>3, <2>4 DEF ShiftInv
<1> QED BY <1>3, <1>5, <1>7, <1>8, <1>10, ShiftGrows

\* A closing writes what it summed, if that is not what the shift showed.
LEMMA CommitCloseInv ==
  ASSUME Inv, NEW t \in Threads, CommitClose(t)
  PROVE  Inv'
<1>1. PICK r, h, sum : r = inflight[t] /\ h = r.shift /\ sum = Cardinality(r.standing)
  OBVIOUS
<1>2. PICK row : row = [shifts[h] EXCEPT
                          !.open = FALSE,
                          !.total = IF sum = r.seen.total THEN @ ELSE sum,
                          !.overtaken = @ \/ shifts[h] # r.seen \/ Standing(h) # r.standing]
  OBVIOUS
<1>3. /\ h \in 1..Len(shifts) /\ r.seen \in ShiftRow /\ r.seen.open
      /\ r.standing \subseteq SalesOf(h)
      /\ shifts' = [shifts EXCEPT ![h] = row] /\ sales' = sales
      /\ Done(t) /\ UNCHANGED haulage
  BY <1>1, <1>2 DEF CommitClose, Pending, Inv, Holds, HeldShift
<1>4. ShiftInv
  BY DEF Inv
<1>5. /\ shifts \in Seq(ShiftRow) /\ sales \in Seq(SaleRow)
      /\ Len(shifts) \in Nat /\ shifts[h] \in ShiftRow
  BY <1>3, <1>4 DEF ShiftInv
<1>6. sum \in Nat /\ sum <= Cardinality(SalesOf(h))
  BY <1>1, <1>3, <1>5, SalesFinite
<1>7. /\ row \in ShiftRow /\ row.user = shifts[h].user /\ ~row.open /\ row.doubled = shifts[h].doubled
      /\ row.total \in {shifts[h].total, sum}
      /\ ~row.overtaken => shifts[h] = r.seen /\ Standing(h) = r.standing /\ row.total = sum
  <2>1. /\ row.total = IF sum = r.seen.total THEN shifts[h].total ELSE sum
        /\ row.overtaken = (shifts[h].overtaken \/ shifts[h] # r.seen \/ Standing(h) # r.standing)
    BY <1>2, <1>5 DEF ShiftRow
  <2>2. row \in ShiftRow /\ row.user = shifts[h].user /\ ~row.open /\ row.doubled = shifts[h].doubled
    BY <1>2, <1>5, <1>6 DEF ShiftRow
  <2> QED BY <2>1, <2>2
<1>8. /\ shifts' \in Seq(ShiftRow) /\ Len(shifts') = Len(shifts) /\ shifts'[h] = row
      /\ \A k \in 1..Len(shifts) : k # h => shifts'[k] = shifts[k]
  BY <1>3, <1>5, <1>7
<1>9. \A k : SalesOf(k)' = SalesOf(k) /\ Counted(k)' = Counted(k)
  BY <1>3 DEF SalesOf, Counted
<1>10. shifts[h].open => Counted(h) = Standing(h)
  BY <1>4 DEF ShiftInv, Counted, Standing, SalesOf
<1>11. ShiftInv'
  <2>1. \A i \in 1..Len(sales') :
          /\ sales'[i].shift \in 1..Len(shifts')
          /\ sales'[i].after_close => ~shifts'[sales'[i].shift].open
    BY <1>3, <1>4, <1>7, <1>8 DEF ShiftInv
  <2>2. \A u \in Users : \A k \in OpenShiftsOf(u)' :
          k \in OpenShiftsOf(u) /\ shifts'[k].doubled = shifts[k].doubled
    BY <1>7, <1>8 DEF OpenShiftsOf
  <2>3. \A u \in Users : \A j, k \in OpenShiftsOf(u)' :
          ~shifts'[j].doubled /\ ~shifts'[k].doubled => j = k
    BY <1>4, <2>2 DEF ShiftInv
  <2>4. ASSUME NEW k \in 1..Len(shifts')
        PROVE  /\ shifts'[k].open => shifts'[k].total = 0
               /\ ~shifts'[k].open /\ ~shifts'[k].overtaken =>
                    shifts'[k].total = Cardinality(Counted(k)')
               /\ shifts'[k].total <= Cardinality(SalesOf(k)')
    <3>1. CASE k = h
      <4>1. shifts[h].total <= Cardinality(SalesOf(h))
        BY <1>3, <1>4 DEF ShiftInv
      <4>2. row.total <= Cardinality(SalesOf(h))
        BY <1>6, <1>7, <4>1
      <4>3. ~row.overtaken => row.total = Cardinality(Counted(h))
        BY <1>1, <1>3, <1>7, <1>10
      <4> QED BY <1>7, <1>8, <1>9, <3>1, <4>2, <4>3
    <3>2. CASE k # h
      <4>1. k \in 1..Len(shifts) /\ shifts'[k] = shifts[k]
        BY <1>8, <3>2
      <4> QED BY <1>4, <1>9, <4>1 DEF ShiftInv
    <3> QED BY <3>1, <3>2
  <2> QED BY <1>3, <1>5, <1>8, <2>1, <2>3, <2>4 DEF ShiftInv
<1>12. Len(shifts) <= Len(shifts')
  BY <1>5, <1>8
<1> QED BY <1>3, <1>9, <1>11, <1>12, ShiftGrows

\* The operations on shifts.
LEMMA ShiftNextInv ==
  ASSUME Inv, NEW t \in Threads, ShiftNext(t)
  PROVE  Inv'
<1>0. shifts \in Seq(ShiftRow) /\ \A k \in 1..Len(shifts) : shifts[k] \in ShiftRow
  BY DEF Inv, ShiftInv
<1>1. ASSUME NEW u \in Users, StartShift(t, u) PROVE Inv'
  <2>1. PICK x : x = [kind |-> "shift", user |-> u, seen |-> OpenShiftsOf(u)]
    OBVIOUS
  <2>2. OpenShiftsOf(u) = {}
    BY <1>1 DEF StartShift, MayOpen
  <2>3. Holds(x)
    BY <2>1, <2>2 DEF Holds
  <2> QED BY <1>1, <2>1, <2>3, BeginInv DEF StartShift, Begin
<1>2. ASSUME NEW k \in 1..Len(shifts), StartSale(t, k) PROVE Inv'
  <2>1. PICK x : x = [kind |-> "sale", shift |-> k, seen |-> shifts[k].open]
    OBVIOUS
  <2>2. shifts[k].open = TRUE
    BY <1>0, <1>2 DEF StartSale, ShiftRow
  <2>3. Holds(x)
    BY <2>1, <2>2 DEF Holds
  <2> QED BY <1>2, <2>1, <2>3, BeginInv DEF StartSale, Begin
<1>3. ASSUME NEW k \in 1..Len(shifts), StartClose(t, k) PROVE Inv'
  <2>1. PICK x : x = [kind |-> "close", shift |-> k, seen |-> shifts[k]]
    OBVIOUS
  <2>2. shifts[k].open /\ shifts[k] \in ShiftRow
    BY <1>0, <1>3 DEF StartClose
  <2>3. Holds(x)
    BY <2>1, <2>2 DEF Holds, HeldShift
  <2> QED BY <1>3, <2>1, <2>3, BeginInv DEF StartClose, Begin
<1>4. CASE SumShift(t)
  <2>1. PICK x : x = [kind |-> "summed", shift |-> inflight[t].shift, seen |-> inflight[t].seen,
                      standing |-> Standing(inflight[t].shift)]
    OBVIOUS
  <2>2. HeldShift(inflight[t])
    BY <1>4 DEF SumShift, Pending, Inv, Holds
  <2>3. Standing(inflight[t].shift) \subseteq SalesOf(inflight[t].shift)
    BY DEF Standing
  <2>4. Holds(x)
    BY <2>1, <2>2, <2>3 DEF Holds, HeldShift
  <2> QED BY <1>4, <2>1, <2>4, BeginInv DEF SumShift, Continue
<1> QED BY <1>1, <1>2, <1>3, <1>4, InsertShiftInv, InsertSaleInv, CommitCloseInv DEF ShiftNext

\* A reversal leaves the sale of a closed shift counted.
LEMMA ReverseSaleInv ==
  ASSUME Inv, NEW i \in 1..Len(sales), ReverseSale(i)
  PROVE  Inv'
<1>1. PICK row : row = [sales[i] EXCEPT !.is_reversed = TRUE,
                                        !.after_close = ~shifts[sales[i].shift].open]
  OBVIOUS
<1>2. sales' = [sales EXCEPT ![i] = row] /\ ~sales[i].is_reversed
      /\ UNCHANGED <<shifts, haulage, inflight>>
  BY <1>1 DEF ReverseSale
<1>3. ShiftInv /\ sales \in Seq(SaleRow) /\ sales[i] \in SaleRow
  BY DEF Inv, ShiftInv
<1>4. /\ row \in SaleRow /\ row.shift = sales[i].shift /\ row.is_reversed
      /\ row.after_close <=> ~shifts[sales[i].shift].open
  BY <1>1, <1>3 DEF SaleRow
<1>5. /\ sales' \in Seq(SaleRow) /\ Len(sales') = Len(sales) /\ sales'[i] = row
      /\ \A j \in 1..Len(sales) : j # i => sales'[j] = sales[j]
  BY <1>2, <1>3, <1>4
<1>6. \A k : /\ SalesOf(k)' = SalesOf(k)
             /\ ~shifts[k].open => Counted(k)' = Counted(k)
  BY <1>2, <1>4, <1>5 DEF SalesOf, Counted
<1>7. ShiftInv'
  <2>1. \A j \in 1..Len(sales') :
          /\ sales'[j].shift \in 1..Len(shifts')
          /\ sales'[j].after_close => ~shifts'[sales'[j].shift].open
    BY <1>2, <1>3, <1>4, <1>5 DEF ShiftInv
  <2>2. \A k \in 1..Len(shifts') :
          /\ shifts'[k].open => shifts'[k].total = 0
          /\ ~shifts'[k].open /\ ~shifts'[k].overtaken => shifts'[k].total = Cardinality(Counted(k)')
          /\ shifts'[k].total <= Cardinality(SalesOf(k)')
    BY <1>2, <1>3, <1>6 DEF ShiftInv
  <2>3. \A u \in Users : OpenShiftsOf(u)' = OpenShiftsOf(u)
    BY <1>2 DEF OpenShiftsOf
  <2> QED BY <1>2, <1>3, <1>5, <2>1, <2>2, <2>3 DEF ShiftInv
<1>8. UNCHANGED <<shifts, trip, deliveries, trip_purchases, inflight>>
  BY <1>2 DEF haulage
<1>9. TripInv'
  BY <1>8 DEF Inv, TripInv, TripsPostOnce
<1>10. Grows /\ Len(shifts') \in Nat /\ Total(deliveries') \in Nat
  <2>1. Len(shifts) \in Nat /\ Total(deliveries) \in Nat
    BY DeliveriesTyped DEF Inv, ShiftInv, TripInv
  <2> QED BY <1>6, <1>8, <2>1 DEF Grows
<1>11. ASSUME NEW v \in Threads, (inflight[v] # Idle)' PROVE Holds(inflight[v])'
  <2>1. PICK r : r = inflight[v]
    OBVIOUS
  <2>2. Holds(r)'
    BY <1>8, <1>10, <1>11, <2>1, HoldsKept DEF Inv
  <2> QED BY <1>8, <2>1, <2>2 DEF Holds, HeldShift
<1> QED BY <1>7, <1>8, <1>9, <1>11 DEF Inv

-----------------------------------------------------------------------------
LEMMA InitInv == Init => Inv
<1> SUFFICES ASSUME Init PROVE Inv
  OBVIOUS
<1>1. TripInv
  BY DEF Init, TripInv, TripRow, TripsPostOnce
<1>2. ShiftInv
  BY DEF Init, ShiftInv, OpenShiftsOf
<1> QED BY <1>1, <1>2 DEF Init, Inv

LEMMA InvStep ==
  ASSUME Inv, [Next]_vars
  PROVE  Inv'
<1>1. ASSUME UNCHANGED <<forecourt, haulage>>, DOMAIN inflight' = Threads,
             \A t \in Threads : inflight'[t] \in {inflight[t], Idle}
      PROVE  Inv'
  <2>1. UNCHANGED <<shifts, sales, trip, deliveries, trip_purchases>>
    BY <1>1 DEF forecourt, haulage
  <2>2. TripInv' /\ ShiftInv'
    BY <2>1 DEF Inv, TripInv, TripsPostOnce, ShiftInv, OpenShiftsOf, Counted, SalesOf
  <2>3. ASSUME NEW v \in Threads, (inflight[v] # Idle)' PROVE Holds(inflight[v])'
    <3>1. inflight'[v] = inflight[v] /\ Holds(inflight[v])
      BY <1>1, <2>3 DEF Inv
    <3> QED BY <2>1, <3>1 DEF Holds, HeldShift, SalesOf
  <2> QED BY <1>1, <2>2, <2>3 DEF Inv
<1>2. CASE UNCHANGED vars
  BY <1>1, <1>2 DEF vars, Inv
<1>3. ASSUME NEW t \in Threads, Abandon(t) PROVE Inv'
  BY <1>1, <1>3 DEF Abandon, Done, Inv
<1> QED BY <1>2, <1>3, ShiftNextInv, TripNextInv, ReverseSaleInv DEF Next

\* A user has one open shift, and a closed shift shows the sales that stood when it
\* was closed, except where requests overlapped; even then a shift never shows more
\* than was posted to it (services/shifts.py).
THEOREM ClosedShiftsAreRight == Spec => []ShiftsKeptRight
<1>1. Inv => ShiftsKeptRight
  <2> SUFFICES ASSUME Inv PROVE ShiftsKeptRight
    OBVIOUS
  <2>1. ClosingsTypeOK
    BY DEF Inv, TripInv, ShiftInv, ClosingsTypeOK
  <2>2. OneShiftUnlessDoubled
    <3> SUFFICES ASSUME NEW u \in Users
                 PROVE  Cardinality({k \in OpenShiftsOf(u) : ~shifts[k].doubled}) <= 1
      BY DEF OneShiftUnlessDoubled
    <3> DEFINE S == {k \in OpenShiftsOf(u) : ~shifts[k].doubled}
    <3>1. S = {} \/ \E k : S = {k}
      <4>1. \A j, k \in S : j = k
        BY DEF Inv, ShiftInv
      <4> HIDE DEF S
      <4> QED BY <4>1
    <3> HIDE DEF S
    <3>2. Cardinality(S) \in {0, 1}
      BY <3>1, FS_EmptySet, FS_Singleton
    <3> QED BY <3>2 DEF S
  <2> QED BY <2>1, <2>2 DEF Inv, ShiftInv, ShiftsKeptRight
<1> QED BY <1>1, InitInv, InvStep, PTL DEF Spec

\* A completed trip has posted one purchase, of all its deliveries, except where
\* requests overlapped; even then no purchase is of more than was delivered and none
\* is posted before completion (services/tanker_ops.py).
THEOREM TripsPostTheirDeliveries == Spec => []TripsPostOnce
<1>1. Inv => TripsPostOnce
  BY DEF Inv, TripInv
<1> QED BY <1>1, InitInv, InvStep, PTL DEF Spec

=============================================================================
